------------------------------ MODULE DataPrep ------------------------------
(***************************************************************************)
(* DataPrep/src: the one-pass program that turns a file of ticks (one bid  *)
(* quote per line) into one labelled candlestick per minute.               *)
(*                                                                         *)
(* A tick is a minute (the first 14 characters of its time stamp, here a   *)
(* natural number) and a bid price.  A price is an integer number of the   *)
(* smallest price unit.  The program keeps the summary of the minute it    *)
(* is reading (timeSlot, highPrice, lowPrice, closePrice, localMax,        *)
(* localMin) and the last finished candlestick, prev, which can only be    *)
(* labelled, and written, once the candlestick after it is finished.       *)
(***************************************************************************)
EXTENDS Integers, Sequences

CONSTANTS
  Slots,      \* minutes that may occur in the file
  Bids,       \* bid prices that may occur in the file
  MAX_VALUE,  \* Double.MAX_VALUE: above every price
  MaxLines,   \* bound on the number of lines of the file
  null        \* Java's null

ASSUME DataPrepAssumption ==
  /\ Slots \subseteq Nat
  /\ Bids \subseteq Int
  /\ MAX_VALUE \in Int
  /\ \A b \in Bids : b < MAX_VALUE
  /\ MaxLines \in Nat
  /\ null \notin Int
  /\ null \notin [time : Slots, high : Int, low : Int, close : Int]

(* Double.MIN_VALUE is the smallest POSITIVE double: an integer price is   *)
(* greater than it exactly when it is greater than zero.                   *)
MIN_VALUE == 0

VARIABLES
  timeSlot,   \* the minute being read, or null before the first line
  highPrice,  \* highest, lowest and last bid of that minute; null stands for
  lowPrice,   \*   the fresh String[4] whose fields are all null
  closePrice,
  localMax,   \* the running maximum and minimum the comparisons use
  localMin,
  prev,       \* the last finished candlestick, not yet labelled, or null
  out,        \* the records written to the output file
  pc,         \* "reading", "closed" (end of file) or "died" (an exception)
  lineNo,     \* number of lines read
  frames      \* history: the ticks read so far, cut into runs of one minute

summary == <<highPrice, lowPrice, closePrice, localMax, localMin>>
vars == <<timeSlot, summary, prev, out, pc, lineNo, frames>>

Tick == [slot : Slots, bid : Bids]
CandleStick == [time : Slots, high : Int, low : Int, close : Int]
Labels == {-1, 0, 1}
Record == [time : Slots, high : Int, low : Int, close : Int, label : Labels]
Frame == [slot : Slots, bids : Seq(Bids)]

-----------------------------------------------------------------------------
(* new CandleStick(timeSlot, highPrice, lowPrice, closePrice): parsing a   *)
(* null price throws, which CanBuildCandle excludes.                       *)
cur == [time |-> timeSlot, high |-> highPrice, low |-> lowPrice,
        close |-> closePrice]

(* Mutant: nobody looks whether the minute has a high price.               *)
MutCanBuildCandle == lowPrice # null /\ closePrice # null

CanBuildCandle == highPrice # null /\ lowPrice # null /\ closePrice # null

(* The record of candlestick c: its features, and the direction in which   *)
(* the close price moves to the candlestick after it.                      *)
getFeaturesAndLabel(c, next) ==
  [time |-> c.time, high |-> c.high, low |-> c.low, close |-> c.close,
   label |-> IF next.close > c.close THEN 1
             ELSE IF next.close < c.close THEN -1 ELSE 0]

(* Mutant: a candlestick whose close price did not move is not written.    *)
MutFinishCandle ==
  /\ out' = IF prev # null /\ prev.close # closePrice
            THEN Append(out, getFeaturesAndLabel(prev, cur))
            ELSE out
  /\ prev' = cur

(* The minute is over: its candlestick labels the one before it, which is  *)
(* written and flushed, and then takes its place.                          *)
FinishCandle ==
  /\ out' = IF prev # null THEN Append(out, getFeaturesAndLabel(prev, cur))
                           ELSE out
  /\ prev' = cur

(* Compare a bid with the running extremes hi/max and lo/min.              *)
TrackPrice(bid, hi, max, lo, min) ==
  /\ highPrice' = IF bid > max THEN bid ELSE hi
  /\ localMax' = IF bid > max THEN bid ELSE max
  /\ lowPrice' = IF bid < min THEN bid ELSE lo
  /\ localMin' = IF bid < min THEN bid ELSE min
  /\ closePrice' = bid

ExtendFrame(bid) ==
  frames' = [frames EXCEPT ![Len(frames)] =
               [slot |-> @.slot, bids |-> Append(@.bids, bid)]]
NewFrame(slot, bid) ==
  frames' = Append(frames, [slot |-> slot, bids |-> <<bid>>])

Reading == pc = "reading" /\ lineNo < MaxLines /\ lineNo' = lineNo + 1

Init ==
  /\ timeSlot = null
  /\ highPrice = null /\ lowPrice = null /\ closePrice = null
  /\ localMax = MIN_VALUE /\ localMin = MAX_VALUE
  /\ prev = null
  /\ out = <<>>
  /\ pc = "reading"
  /\ lineNo = 0
  /\ frames = <<>>

(* The first line of the file only opens its minute.                       *)
FirstLine(t) ==
  /\ Reading
  /\ timeSlot = null
  /\ timeSlot' = t.slot
  /\ TrackPrice(t.bid, highPrice, localMax, lowPrice, localMin)
  /\ NewFrame(t.slot, t.bid)
  /\ UNCHANGED <<prev, out, pc>>

(* A line of the minute being read.                                        *)
SameSlotLine(t) ==
  /\ Reading
  /\ timeSlot = t.slot
  /\ TrackPrice(t.bid, highPrice, localMax, lowPrice, localMin)
  /\ ExtendFrame(t.bid)
  /\ UNCHANGED <<timeSlot, prev, out, pc>>

(* Mutant: the extremes of the last minute are not reset.                  *)
MutNewSlotLine(t) ==
  /\ Reading
  /\ timeSlot # null /\ t.slot # timeSlot
  /\ CanBuildCandle
  /\ FinishCandle
  /\ timeSlot' = t.slot
  /\ TrackPrice(t.bid, highPrice, localMax, lowPrice, localMin)
  /\ NewFrame(t.slot, t.bid)
  /\ UNCHANGED pc

(* A line of another minute: finish the candlestick, write the previous    *)
(* one, reset the summary and start it with this line.                     *)
NewSlotLine(t) ==
  /\ Reading
  /\ timeSlot # null /\ t.slot # timeSlot
  /\ CanBuildCandle
  /\ FinishCandle
  /\ timeSlot' = t.slot
  /\ TrackPrice(t.bid, null, MIN_VALUE, null, MAX_VALUE)
  /\ NewFrame(t.slot, t.bid)
  /\ UNCHANGED pc

(* A line of another minute when no bid of this one was above MIN_VALUE:   *)
(* highPrice is still the fresh array and parsing its price throws.        *)
NoHighPrice(t) ==
  /\ Reading
  /\ timeSlot # null /\ t.slot # timeSlot
  /\ ~CanBuildCandle
  /\ pc' = "died"
  /\ UNCHANGED <<timeSlot, summary, prev, out, frames>>

(* A line whose price does not parse, but which opens another minute: the  *)
(* candlestick is finished and the previous one written before             *)
(* parseDouble throws.                                                     *)
BadPriceNewSlot(slot) ==
  /\ Reading
  /\ timeSlot # null /\ slot # timeSlot
  /\ CanBuildCandle
  /\ FinishCandle
  /\ timeSlot' = slot
  /\ highPrice' = null /\ lowPrice' = null /\ closePrice' = null
  /\ localMax' = MIN_VALUE /\ localMin' = MAX_VALUE
  /\ pc' = "died"
  /\ UNCHANGED frames

(* Any other line the body throws on (no time field, too many fields, a    *)
(* bad price in the minute being read), and an IOException, which is       *)
(* caught outside the loop.  A bad price in the first line has set         *)
(* timeSlot; otherwise nothing has changed.                                *)
BadLine ==
  /\ Reading
  /\ \/ UNCHANGED timeSlot
     \/ timeSlot = null /\ timeSlot' \in Slots
  /\ pc' = "died"
  /\ UNCHANGED <<summary, prev, out, frames>>

(* readLine returned null: the files are closed.  Nothing is written for   *)
(* prev or for the minute being read.                                      *)
EndOfFile ==
  /\ pc = "reading"
  /\ pc' = "closed"
  /\ UNCHANGED <<timeSlot, summary, prev, out, lineNo, frames>>

(* The program has ended.                                                  *)
Ended == pc # "reading" /\ UNCHANGED vars

Next ==
  \/ \E t \in Tick : \/ FirstLine(t)
                     \/ SameSlotLine(t)
                     \/ NewSlotLine(t)
                     \/ NoHighPrice(t)
  \/ \E s \in Slots : BadPriceNewSlot(s)
  \/ BadLine
  \/ EndOfFile
  \/ Ended

Spec == Init /\ [][Next]_vars

-----------------------------------------------------------------------------
(* Every variable has the type the program gives it.                       *)
TypeOK ==
  /\ timeSlot \in Slots \cup {null}
  /\ highPrice \in Bids \cup {null}
  /\ lowPrice \in Bids \cup {null}
  /\ closePrice \in Bids \cup {null}
  /\ localMax \in Bids \cup {MIN_VALUE}
  /\ localMin \in Bids \cup {MAX_VALUE}
  /\ prev \in CandleStick \cup {null}
  /\ out \in Seq(Record)
  /\ pc \in {"reading", "closed", "died"}
  /\ lineNo \in Nat
  /\ frames \in Seq(Frame)

Closing(f) == f.bids[Len(f.bids)]

(* c carries the highest, lowest and last bid of the run of ticks f.       *)
Summarises(c, f) ==
  /\ c.time = f.slot
  /\ \E k \in 1..Len(f.bids) : f.bids[k] = c.high
  /\ \E k \in 1..Len(f.bids) : f.bids[k] = c.low
  /\ \A k \in 1..Len(f.bids) : c.low <= f.bids[k] /\ f.bids[k] <= c.high
  /\ c.close = Closing(f)

(* LABELING_METHOD.txt, of the code's single pass: the i-th record written *)
(* carries the high, low and close bid of the i-th run of ticks, and its   *)
(* label is the direction of the close price to the next run.  It holds at *)
(* every moment, so also of what a program that died half way has left.    *)
OutputFaithful ==
  \A i \in 1..Len(out) :
    /\ i + 1 <= Len(frames)
    /\ Summarises(out[i], frames[i])
    /\ out[i].label = 1 <=> Closing(frames[i + 1]) > Closing(frames[i])
    /\ out[i].label = -1 <=> Closing(frames[i + 1]) < Closing(frames[i])

(* No run is skipped and none is written twice: while the program reads,   *)
(* and when it reaches the end of the file, everything but the last two    *)
(* runs is in the output (the loop labels prev only when the run after it  *)
(* is over); a program that died has written at most one record more.      *)
OutputComplete ==
  LET due == IF Len(frames) <= 2 THEN 0 ELSE Len(frames) - 2
  IN  \/ Len(out) = due
      \/ pc = "died" /\ Len(frames) >= 2 /\ Len(out) = Len(frames) - 1

-----------------------------------------------------------------------------
(* The inductive invariant behind the two properties: what the summary     *)
(* variables and prev hold while the program reads.                        *)

FramesNonEmpty == \A i \in 1..Len(frames) : frames[i].bids # <<>>

(* The values that summarise a non-empty run of bids.  A null high means   *)
(* that no bid of the run was above MIN_VALUE.                             *)
SummaryOf(hi, lo, close, max, min, bids) ==
  /\ close = bids[Len(bids)]
  /\ MIN_VALUE <= max
  /\ \A k \in 1..Len(bids) : min <= bids[k] /\ bids[k] <= max
  /\ lo = min
  /\ \E k \in 1..Len(bids) : bids[k] = lo
  /\ hi # null => hi = max /\ \E k \in 1..Len(bids) : bids[k] = hi

SummaryInv ==
  pc = "reading" =>
    IF frames = <<>>
    THEN /\ timeSlot = null /\ highPrice = null /\ lowPrice = null
         /\ localMax = MIN_VALUE /\ localMin = MAX_VALUE
    ELSE /\ timeSlot = frames[Len(frames)].slot
         /\ SummaryOf(highPrice, lowPrice, closePrice, localMax, localMin,
                      frames[Len(frames)].bids)

PrevInv ==
  pc = "reading" =>
    IF Len(frames) < 2
    THEN prev = null
    ELSE prev # null /\ Summarises(prev, frames[Len(frames) - 1])

(* What the program knows while it reads: the current minute's extremes    *)
(* and close are those of the last run of ticks, and prev summarises the   *)
(* run before it.                                                          *)
Inv ==
  /\ TypeOK
  /\ FramesNonEmpty
  /\ SummaryInv
  /\ PrevInv
  /\ OutputFaithful
  /\ OutputComplete

=============================================================================
