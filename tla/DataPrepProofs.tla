--------------------------- MODULE DataPrepProofs ---------------------------
(***************************************************************************)
(* Proofs about DataPrep, for every set of minutes and prices and every    *)
(* length of the input file.                                               *)
(***************************************************************************)
EXTENDS DataPrep, TLAPS

USE DEF MIN_VALUE, Labels, Tick

-----------------------------------------------------------------------------
(* Type correctness.                                                       *)

LEMMA InitType == Init => TypeOK
  BY DataPrepAssumption DEF Init, TypeOK

(* Finishing the candlestick keeps prev and out well typed.                *)
LEMMA FinishCandleType ==
  ASSUME TypeOK, timeSlot # null, CanBuildCandle, FinishCandle
  PROVE  prev' \in CandleStick /\ out' \in Seq(Record)
  <1>1. cur \in CandleStick
    BY DataPrepAssumption DEF TypeOK, CanBuildCandle, cur, CandleStick
  <1>2. ASSUME prev # null
        PROVE  getFeaturesAndLabel(prev, cur) \in Record
    BY <1>1, <1>2 DEF TypeOK, getFeaturesAndLabel, CandleStick, Record
  <1>3. out \in Seq(Record)
    BY DEF TypeOK
  <1>4. CASE prev # null
    <2> DEFINE r == getFeaturesAndLabel(prev, cur)
    <2>1. r \in Record
      BY <1>2, <1>4
    <2>2. out' = Append(out, r)
      BY <1>4 DEF FinishCandle
    <2> HIDE DEF r
    <2>3. Append(out, r) \in Seq(Record)
      BY <1>3, <2>1
    <2>4. QED
      BY <1>1, <2>2, <2>3 DEF FinishCandle
  <1>5. CASE prev = null
    BY <1>1, <1>3, <1>5 DEF FinishCandle
  <1>6. QED
    BY <1>4, <1>5

(* Tracking a bid keeps the summary well typed.                            *)
LEMMA TrackPriceType ==
  ASSUME NEW bid \in Bids, NEW hi \in Bids \cup {null},
         NEW lo \in Bids \cup {null},
         NEW max \in Bids \cup {MIN_VALUE}, NEW min \in Bids \cup {MAX_VALUE},
         TrackPrice(bid, hi, max, lo, min)
  PROVE  /\ highPrice' \in Bids \cup {null}
         /\ lowPrice' \in Bids \cup {null}
         /\ closePrice' \in Bids \cup {null}
         /\ localMax' \in Bids \cup {MIN_VALUE}
         /\ localMin' \in Bids \cup {MAX_VALUE}
  BY DEF TrackPrice

(* Opening a run of ticks, and extending the last one, keep frames well    *)
(* typed.                                                                  *)
LEMMA NewFrameType ==
  ASSUME NEW slot \in Slots, NEW bid \in Bids, frames \in Seq(Frame),
         NewFrame(slot, bid)
  PROVE  /\ frames' \in Seq(Frame)
         /\ Len(frames') = Len(frames) + 1
         /\ \A i \in 1..Len(frames) : frames'[i] = frames[i]
         /\ frames'[Len(frames) + 1] = [slot |-> slot, bids |-> <<bid>>]
  <1> DEFINE f == [slot |-> slot, bids |-> <<bid>>]
  <1>1. f \in Frame
    BY DEF Frame
  <1>2. frames' = Append(frames, f)
    BY DEF NewFrame
  <1> HIDE DEF f
  <1>3. /\ frames' \in Seq(Frame)
        /\ Len(frames') = Len(frames) + 1
        /\ \A i \in 1..Len(frames) : frames'[i] = frames[i]
        /\ frames'[Len(frames) + 1] = f
    BY <1>1, <1>2
  <1>4. QED
    BY <1>3 DEF f

LEMMA ExtendFrameType ==
  ASSUME NEW bid \in Bids, frames \in Seq(Frame), ExtendFrame(bid)
  PROVE  /\ frames' \in Seq(Frame)
         /\ Len(frames') = Len(frames)
         /\ \A i \in 1..Len(frames) : i # Len(frames) => frames'[i] = frames[i]
         /\ Len(frames) > 0 =>
              /\ frames'[Len(frames)].slot = frames[Len(frames)].slot
              /\ frames'[Len(frames)].bids = Append(frames[Len(frames)].bids, bid)
  <1> DEFINE n == Len(frames)
             f == frames[n]
             g == [slot |-> f.slot, bids |-> Append(f.bids, bid)]
  <1>1. frames' = [frames EXCEPT ![n] = g]
    BY DEF ExtendFrame
  <1>2. CASE n = 0
    <2>1. frames = <<>>
      BY <1>2
    <2>2. frames' = <<>>
      BY <1>1, <2>1
    <2>3. QED
      BY <2>1, <2>2
  <1>3. CASE n > 0
    <2>1. f \in Frame
      BY <1>3
    <2>2. f.slot \in Slots /\ f.bids \in Seq(Bids)
      BY <2>1 DEF Frame
    <2>3. Append(f.bids, bid) \in Seq(Bids)
      BY <2>2
    <2>4. g \in Frame /\ g.slot = f.slot /\ g.bids = Append(f.bids, bid)
      BY <2>2, <2>3 DEF Frame
    <2> HIDE DEF g
    <2>5. QED
      BY <1>1, <1>3, <2>4
  <1>4. QED
    BY <1>2, <1>3

LEMMA NextType == TypeOK /\ [Next]_vars => TypeOK'
  <1> SUFFICES ASSUME TypeOK, [Next]_vars PROVE TypeOK'
    OBVIOUS
  <1>1. ASSUME NEW t \in Tick, FirstLine(t) PROVE TypeOK'
    <2>1. t.slot \in Slots /\ t.bid \in Bids
      OBVIOUS
    <2>2. frames' \in Seq(Frame)
      BY <1>1, <2>1, NewFrameType DEF FirstLine, TypeOK
    <2>3. QED
      BY <1>1, <2>1, <2>2 DEF FirstLine, TrackPrice, Reading, TypeOK
  <1>2. ASSUME NEW t \in Tick, SameSlotLine(t) PROVE TypeOK'
    <2>1. frames' \in Seq(Frame)
      BY <1>2, ExtendFrameType DEF SameSlotLine, TypeOK
    <2>2. QED
      BY <1>2, <2>1, TrackPriceType DEF SameSlotLine, Reading, TypeOK
  <1>3. ASSUME NEW t \in Tick, NewSlotLine(t) PROVE TypeOK'
    <2>1. t.slot \in Slots /\ t.bid \in Bids
      OBVIOUS
    <2>2. frames' \in Seq(Frame)
      BY <1>3, <2>1, NewFrameType DEF NewSlotLine, TypeOK
    <2>3. prev' \in CandleStick /\ out' \in Seq(Record)
      BY <1>3, FinishCandleType DEF NewSlotLine
    <2>4. QED
      BY <1>3, <2>1, <2>2, <2>3 DEF NewSlotLine, TrackPrice, Reading, TypeOK
  <1>4. ASSUME NEW t \in Tick, NoHighPrice(t) PROVE TypeOK'
    BY <1>4 DEF NoHighPrice, Reading, TypeOK, summary
  <1>5. ASSUME NEW s \in Slots, BadPriceNewSlot(s) PROVE TypeOK'
    BY <1>5, FinishCandleType DEF BadPriceNewSlot, Reading, TypeOK
  <1>6. CASE BadLine
    BY <1>6 DEF BadLine, Reading, TypeOK, summary
  <1>7. CASE EndOfFile
    BY <1>7 DEF EndOfFile, TypeOK, summary
  <1>8. CASE UNCHANGED vars
    BY <1>8 DEF vars, summary, TypeOK
  <1>9. QED
    BY <1>1, <1>2, <1>3, <1>4, <1>5, <1>6, <1>7, <1>8 DEF Next, Ended

(* The variables of DataPrep.main always have the types TypeOK gives them. *)
THEOREM TypeCorrect == Spec => []TypeOK
  BY InitType, NextType, PTL DEF Spec

-----------------------------------------------------------------------------
(* The summary of a run of bids.                                           *)

(* One step of TrackPrice from the reset values summarises a single bid.   *)
LEMMA TrackFirst ==
  ASSUME NEW bid \in Bids
  PROVE  SummaryOf(IF bid > MIN_VALUE THEN bid ELSE null,
                   IF bid < MAX_VALUE THEN bid ELSE null,
                   bid,
                   IF bid > MIN_VALUE THEN bid ELSE MIN_VALUE,
                   IF bid < MAX_VALUE THEN bid ELSE MAX_VALUE,
                   <<bid>>)
  <1> DEFINE b == <<bid>>
  <1>1. Len(b) = 1 /\ b[1] = bid /\ bid \in Int /\ bid < MAX_VALUE
    BY DataPrepAssumption
  <1>2. 1..Len(b) = {1}
    BY <1>1
  <1> HIDE DEF b
  <1>3. SummaryOf(IF bid > 0 THEN bid ELSE null, bid, bid,
                  IF bid > 0 THEN bid ELSE 0, bid, b)
    BY <1>1, <1>2, DataPrepAssumption DEF SummaryOf
  <1>4. QED
    BY <1>1, <1>3, DataPrepAssumption DEF b

(* One step of TrackPrice from the summary of a run summarises the run     *)
(* with the bid appended.                                                  *)
LEMMA TrackMore ==
  ASSUME NEW bid \in Bids, NEW bids \in Seq(Bids), bids # <<>>,
         NEW hi \in Bids \cup {null}, NEW lo, NEW close,
         NEW max \in Int, NEW min \in Int,
         SummaryOf(hi, lo, close, max, min, bids)
  PROVE  SummaryOf(IF bid > max THEN bid ELSE hi,
                   IF bid < min THEN bid ELSE lo,
                   bid,
                   IF bid > max THEN bid ELSE max,
                   IF bid < min THEN bid ELSE min,
                   Append(bids, bid))
  <1> DEFINE b == Append(bids, bid)
             n == Len(bids)
  <1>1. /\ n \in Nat /\ Len(b) = n + 1
        /\ b[n + 1] = bid
        /\ \A k \in 1..n : b[k] = bids[k] /\ bids[k] \in Int
    <2>1. \A k \in 1..n : bids[k] \in Bids
      OBVIOUS
    <2>2. \A k \in 1..n : bids[k] \in Int
      BY <2>1, DataPrepAssumption
    <2>3. QED
      BY <2>2
  <1>2. bid \in Int
    BY DataPrepAssumption
  <1> DEFINE hi2 == IF bid > max THEN bid ELSE hi
             lo2 == IF bid < min THEN bid ELSE lo
             max2 == IF bid > max THEN bid ELSE max
             min2 == IF bid < min THEN bid ELSE min
  <1> HIDE DEF b
  <1>3. MIN_VALUE <= max2
    BY <1>2 DEF SummaryOf
  <1>4. \A k \in 1..(n + 1) : min2 <= b[k] /\ b[k] <= max2
    <2>1. \A k \in 1..n : min <= bids[k] /\ bids[k] <= max
      BY DEF SummaryOf
    <2> SUFFICES ASSUME NEW k \in 1..(n + 1)
                 PROVE  min2 <= b[k] /\ b[k] <= max2
      OBVIOUS
    <2>2. CASE k = n + 1
      BY <1>1, <1>2, <2>2
    <2>3. CASE k \in 1..n
      <3>1. b[k] \in Int /\ min <= b[k] /\ b[k] <= max
        BY <1>1, <2>1, <2>3
      <3>2. QED
        BY <1>2, <3>1
    <2>4. QED
      BY <1>1, <2>2, <2>3
  <1>5. lo2 = min2 /\ \E k \in 1..(n + 1) : b[k] = lo2
    BY <1>1, <1>2 DEF SummaryOf
  <1>6. hi2 # null => hi2 = max2 /\ \E k \in 1..(n + 1) : b[k] = hi2
    BY <1>1, <1>2 DEF SummaryOf
  <1>7. SummaryOf(hi2, lo2, bid, max2, min2, b)
    <2> HIDE DEF hi2, lo2, max2, min2
    <2> QED
      BY <1>1, <1>3, <1>4, <1>5, <1>6 DEF SummaryOf
  <1>8. QED
    BY <1>7 DEF b

(* A candlestick built from the summary of a run summarises the run.       *)
LEMMA CandleSummarises ==
  ASSUME NEW f \in Frame, NEW hi \in Bids, NEW lo, NEW close,
         NEW max \in Int, NEW min \in Int,
         SummaryOf(hi, lo, close, max, min, f.bids)
  PROVE  Summarises([time |-> f.slot, high |-> hi, low |-> lo,
                     close |-> close], f)
  BY DataPrepAssumption DEF SummaryOf, Summarises, Closing

-----------------------------------------------------------------------------
(* The invariant Inv is inductive.                                         *)

LEMMA InitInv == Init => Inv
  <1> SUFFICES ASSUME Init PROVE Inv
    OBVIOUS
  <1>1. TypeOK
    BY InitType
  <1>2. Len(frames) = 0 /\ Len(out) = 0
    BY DEF Init
  <1>3. FramesNonEmpty /\ OutputFaithful
    BY <1>2 DEF FramesNonEmpty, OutputFaithful
  <1>4. SummaryInv
    BY DEF Init, SummaryInv
  <1>5. PrevInv
    BY <1>2 DEF Init, PrevInv
  <1>6. OutputComplete
    BY <1>2 DEF OutputComplete
  <1>7. QED
    BY <1>1, <1>3, <1>4, <1>5, <1>6 DEF Inv

(* A record written for a finished run stays faithful when runs are added  *)
(* or the last run grows: the records speak of the runs before the last    *)
(* but one only.                                                           *)
LEMMA OutputStays ==
  ASSUME TypeOK, OutputFaithful, out' = out,
         frames' \in Seq(Frame), Len(frames') >= Len(frames),
         \A i \in 1..Len(out) :
           frames'[i] = frames[i] /\ frames'[i + 1] = frames[i + 1]
  PROVE  OutputFaithful'
  <1>1. Len(out) \in Nat /\ Len(frames) \in Nat /\ Len(frames') \in Nat
    BY DEF TypeOK
  <1> SUFFICES ASSUME NEW i \in 1..Len(out)
               PROVE  /\ i + 1 <= Len(frames')
                      /\ Summarises(out[i], frames'[i])
                      /\ out[i].label = 1 <=> Closing(frames'[i + 1]) > Closing(frames'[i])
                      /\ out[i].label = -1 <=> Closing(frames'[i + 1]) < Closing(frames'[i])
    BY DEF OutputFaithful
  <1>2. i + 1 <= Len(frames)
    BY DEF OutputFaithful
  <1>3. frames'[i] = frames[i] /\ frames'[i + 1] = frames[i + 1]
    BY <1>1, <1>2
  <1>4. QED
    BY <1>1, <1>2, <1>3 DEF OutputFaithful

(* A finished candlestick summarises the last run, the record it lets the  *)
(* program write is that of the run before it, and after it everything but *)
(* the last run is written.                                                *)
LEMMA FinishFaithful ==
  ASSUME Inv, pc = "reading", timeSlot # null, CanBuildCandle, FinishCandle,
         frames' \in Seq(Frame), Len(frames') >= Len(frames),
         \A i \in 1..Len(frames) : frames'[i] = frames[i]
  PROVE  /\ Len(frames) >= 1
         /\ Summarises(prev', frames[Len(frames)])
         /\ Len(out') = Len(frames) - 1
         /\ OutputFaithful'
  <1> DEFINE n == Len(frames)
             r == getFeaturesAndLabel(prev, cur)
  <1> USE DEF Inv
  <1>1. n \in Nat /\ Len(frames') \in Nat /\ Len(out) \in Nat
    BY DEF TypeOK
  <1>2. n >= 1
    <2>1. frames # <<>>
      BY DEF SummaryInv
    <2>2. QED
      BY <1>1, <2>1 DEF TypeOK
  <1>3. frames # <<>>
    BY <1>2
  <1>4. frames[n] \in Frame
    BY <1>1, <1>2 DEF TypeOK
  <1>5. highPrice \in Bids /\ localMax \in Int /\ localMin \in Int
    BY DataPrepAssumption DEF TypeOK, CanBuildCandle
  <1>6. Summarises(cur, frames[n])
    <2>1. /\ timeSlot = frames[n].slot
          /\ SummaryOf(highPrice, lowPrice, closePrice, localMax, localMin,
                       frames[n].bids)
      BY <1>3 DEF SummaryInv
    <2>2. Summarises([time |-> frames[n].slot, high |-> highPrice,
                      low |-> lowPrice, close |-> closePrice], frames[n])
      BY <1>4, <1>5, <2>1, CandleSummarises
    <2>3. QED
      BY <2>1, <2>2 DEF cur
  <1>7. prev' = cur
    BY DEF FinishCandle
  <1>8. CASE n = 1
    <2>1. prev = null /\ Len(out) = 0
      BY <1>8 DEF PrevInv, OutputComplete
    <2>2. out' = out
      BY <2>1 DEF FinishCandle
    <2>3. OutputFaithful'
      BY <2>1, <2>2 DEF OutputFaithful
    <2>4. QED
      BY <1>2, <1>6, <1>7, <1>8, <2>1, <2>2, <2>3
  <1>9. CASE n >= 2
    <2>1. prev # null /\ Summarises(prev, frames[n - 1]) /\ Len(out) = n - 2
      <3>1. ~(n < 2)
        BY <1>1, <1>9
      <3>2. prev # null /\ Summarises(prev, frames[n - 1])
        BY <3>1 DEF PrevInv
      <3>3. Len(out) = n - 2
        BY <1>1, <1>9 DEF OutputComplete
      <3>4. QED
        BY <3>2, <3>3
    <2>2. out' = Append(out, r)
      BY <2>1 DEF FinishCandle
    <2>3. prev \in CandleStick
      BY <2>1 DEF TypeOK
    <2>4. /\ r.label = 1 <=> cur.close > prev.close
          /\ r.label = -1 <=> cur.close < prev.close
          /\ r.time = prev.time /\ r.high = prev.high
          /\ r.low = prev.low /\ r.close = prev.close
      <3>1. prev.close \in Int
        BY <2>3 DEF CandleStick
      <3>2. cur.close \in Int
        BY DataPrepAssumption DEF cur, TypeOK, CanBuildCandle
      <3>3. QED
        BY <3>1, <3>2 DEF getFeaturesAndLabel
    <2>5. Summarises(r, frames[n - 1])
      BY <2>1, <2>4 DEF Summarises
    <2>6. prev.close = Closing(frames[n - 1]) /\ cur.close = Closing(frames[n])
      BY <1>6, <2>1 DEF Summarises
    <2> HIDE DEF r
    <2>7. /\ Len(out') = n - 1
          /\ \A i \in 1..(n - 2) : out'[i] = out[i]
          /\ out'[n - 1] = r
      BY <1>1, <2>1, <2>2 DEF TypeOK
    <2>8. OutputFaithful'
      <3> SUFFICES ASSUME NEW i \in 1..(n - 1)
                   PROVE  /\ i + 1 <= Len(frames')
                          /\ Summarises(out'[i], frames'[i])
                          /\ out'[i].label = 1 <=>
                               Closing(frames'[i + 1]) > Closing(frames'[i])
                          /\ out'[i].label = -1 <=>
                               Closing(frames'[i + 1]) < Closing(frames'[i])
        BY <2>7 DEF OutputFaithful
      <3>1. /\ i + 1 <= n
            /\ frames'[i] = frames[i] /\ frames'[i + 1] = frames[i + 1]
        BY <1>1, <1>9
      <3>2. CASE i = n - 1
        <4>1. i + 1 = n
          BY <1>1, <3>2
        <4>2. QED
          BY <1>1, <2>4, <2>5, <2>6, <2>7, <3>1, <3>2, <4>1
      <3>3. CASE i \in 1..(n - 2)
        <4>1. out'[i] = out[i]
          BY <2>7, <3>3
        <4>2. i \in 1..Len(out)
          BY <2>1, <3>3
        <4>3. QED
          BY <1>1, <3>1, <4>1, <4>2 DEF OutputFaithful
      <3>4. QED
        BY <1>1, <1>9, <3>2, <3>3
    <2>9. QED
      BY <1>2, <1>6, <1>7, <2>7, <2>8
  <1>10. n = 1 \/ n >= 2
    <2>1. n \in Nat /\ n >= 1
      BY <1>1, <1>2
    <2> HIDE DEF n, Inv
    <2>2. QED
      BY ONLY <2>1
  <1>11. QED
    BY <1>8, <1>9, <1>10, Zenon

(* A line of the minute being read extends the last run.                   *)
LEMMA SameSlotLineInv ==
  ASSUME Inv, TypeOK', NEW t \in Tick, SameSlotLine(t)
  PROVE  Inv'
  <1> DEFINE n == Len(frames)
             f == frames[n]
  <1> USE DEF Inv
  <1>1. /\ t.slot \in Slots /\ t.bid \in Bids /\ pc = "reading" /\ pc' = "reading"
        /\ timeSlot = t.slot /\ timeSlot' = timeSlot /\ prev' = prev /\ out' = out
    BY DEF SameSlotLine, Reading
  <1>2. timeSlot # null
    BY <1>1, DataPrepAssumption
  <1>3. frames # <<>>
    BY <1>1, <1>2 DEF SummaryInv
  <1>4. n \in Nat /\ n > 0 /\ Len(out) \in Nat
    BY <1>3 DEF TypeOK
  <1>5. f \in Frame /\ f.bids \in Seq(Bids) /\ f.bids # <<>>
    <2>1. n \in 1..n
      BY <1>4
    <2>2. f \in Frame
      BY <2>1 DEF TypeOK
    <2>3. f.bids # <<>>
      BY <2>1 DEF FramesNonEmpty
    <2>4. QED
      BY <2>2, <2>3 DEF Frame
  <1>6. /\ frames' \in Seq(Frame)
        /\ Len(frames') = n
        /\ \A i \in 1..n : i # n => frames'[i] = frames[i]
        /\ frames'[n].slot = f.slot
        /\ frames'[n].bids = Append(f.bids, t.bid)
    BY <1>1, <1>4, ExtendFrameType DEF SameSlotLine, TypeOK
  <1>7. frames' # <<>>
    BY <1>4, <1>6
  <1>8. FramesNonEmpty'
    <2> SUFFICES ASSUME NEW i \in 1..n PROVE frames'[i].bids # <<>>
      BY <1>6 DEF FramesNonEmpty
    <2>1. CASE i = n
      BY <1>5, <1>6, <2>1
    <2>2. CASE i # n
      BY <1>6, <2>2 DEF FramesNonEmpty
    <2>3. QED
      BY <2>1, <2>2
  <1>9. SummaryInv'
    <2>1. /\ timeSlot = f.slot
          /\ SummaryOf(highPrice, lowPrice, closePrice, localMax, localMin, f.bids)
      BY <1>1, <1>3 DEF SummaryInv
    <2>2. localMax \in Int /\ localMin \in Int /\ highPrice \in Bids \cup {null}
      BY DataPrepAssumption DEF TypeOK
    <2>3. SummaryOf(highPrice', lowPrice', closePrice', localMax', localMin',
                    Append(f.bids, t.bid))
      BY <1>1, <1>5, <2>1, <2>2, TrackMore DEF SameSlotLine, TrackPrice
    <2>4. QED
      BY <1>1, <1>6, <1>7, <2>1, <2>3 DEF SummaryInv
  <1>10. PrevInv'
    BY <1>1, <1>4, <1>6 DEF PrevInv
  <1>11. OutputFaithful'
    <2>1. Len(out) + 1 < n \/ Len(out) = 0
      BY <1>1, <1>4 DEF OutputComplete
    <2>2. ASSUME NEW i \in 1..Len(out)
          PROVE  frames'[i] = frames[i] /\ frames'[i + 1] = frames[i + 1]
      BY <1>4, <1>6, <2>1
    <2>3. QED
      BY <1>1, <1>4, <1>6, <2>2, OutputStays
  <1>12. OutputComplete'
    BY <1>1, <1>6 DEF OutputComplete
  <1>13. QED
    BY <1>8, <1>9, <1>10, <1>11, <1>12

(* The first line, and a line of another minute, open a run.               *)
LEMMA OpenSummary ==
  ASSUME TypeOK, NEW slot \in Slots, NEW bid \in Bids, NewFrame(slot, bid),
         FramesNonEmpty, timeSlot' = slot,
         TrackPrice(bid, null, MIN_VALUE, null, MAX_VALUE)
  PROVE  FramesNonEmpty' /\ SummaryInv'
  <1> DEFINE n == Len(frames)
             f == [slot |-> slot, bids |-> <<bid>>]
  <1>1. /\ n \in Nat /\ Len(frames') = n + 1
        /\ \A i \in 1..n : frames'[i] = frames[i]
        /\ frames'[n + 1] = f
    BY NewFrameType DEF TypeOK
  <1>2. f.slot = slot /\ f.bids = <<bid>> /\ <<bid>> # <<>>
    OBVIOUS
  <1> HIDE DEF f
  <1>3. FramesNonEmpty'
    <2> SUFFICES ASSUME NEW i \in 1..(n + 1) PROVE frames'[i].bids # <<>>
      BY <1>1 DEF FramesNonEmpty
    <2>1. CASE i = n + 1
      BY <1>1, <1>2, <2>1
    <2>2. CASE i \in 1..n
      BY <1>1, <2>2 DEF FramesNonEmpty
    <2>3. QED
      BY <1>1, <2>1, <2>2
  <1>4. frames' # <<>>
    BY <1>1
  <1>5. SummaryOf(highPrice', lowPrice', closePrice', localMax', localMin', <<bid>>)
    BY TrackFirst DEF TrackPrice
  <1>6. SummaryInv'
    BY <1>1, <1>2, <1>4, <1>5 DEF SummaryInv
  <1>7. QED
    BY <1>3, <1>6

LEMMA FirstLineInv ==
  ASSUME Inv, TypeOK', NEW t \in Tick, FirstLine(t)
  PROVE  Inv'
  <1> USE DEF Inv
  <1>1. /\ t.slot \in Slots /\ t.bid \in Bids /\ pc = "reading" /\ timeSlot = null
        /\ timeSlot' = t.slot /\ pc' = pc /\ prev' = prev /\ out' = out
    BY DEF FirstLine, Reading
  <1>2. frames = <<>>
    <2>1. CASE frames # <<>>
      <3>1. Len(frames) \in 1..Len(frames)
        BY <2>1 DEF TypeOK
      <3>2. frames[Len(frames)] \in Frame
        BY <3>1 DEF TypeOK
      <3>3. timeSlot \in Slots
        BY <1>1, <2>1, <3>2 DEF SummaryInv, Frame
      <3>4. QED
        BY <1>1, <3>3, DataPrepAssumption
    <2>2. QED
      BY <2>1
  <1>3. Len(frames) = 0
    BY <1>2
  <1>4. /\ highPrice = null /\ lowPrice = null
        /\ localMax = MIN_VALUE /\ localMin = MAX_VALUE
    BY <1>1, <1>2 DEF SummaryInv
  <1>5. FramesNonEmpty' /\ SummaryInv'
    BY <1>1, <1>4, OpenSummary DEF FirstLine
  <1>6. Len(frames') = 1
    <2>1. NewFrame(t.slot, t.bid) /\ frames \in Seq(Frame)
      BY DEF FirstLine, TypeOK
    <2>2. Len(frames') = Len(frames) + 1
      BY ONLY <1>1, <2>1, NewFrameType
    <2>3. QED
      BY <1>3, <2>2
  <1>7. prev = null /\ Len(out) = 0
    BY <1>1, <1>3 DEF PrevInv, OutputComplete
  <1>8. PrevInv'
    BY <1>1, <1>6, <1>7 DEF PrevInv
  <1>9. OutputFaithful' /\ OutputComplete'
    BY <1>1, <1>6, <1>7 DEF OutputFaithful, OutputComplete
  <1>10. QED
    BY <1>5, <1>8, <1>9

LEMMA NewSlotLineInv ==
  ASSUME Inv, TypeOK', NEW t \in Tick, NewSlotLine(t)
  PROVE  Inv'
  <1> DEFINE n == Len(frames)
  <1> USE DEF Inv
  <1>1. /\ t.slot \in Slots /\ t.bid \in Bids /\ pc = "reading" /\ timeSlot # null
        /\ timeSlot' = t.slot /\ pc' = pc /\ CanBuildCandle /\ FinishCandle
    BY DEF NewSlotLine, Reading
  <1>2. /\ frames' \in Seq(Frame) /\ n \in Nat /\ Len(frames') = n + 1
        /\ \A i \in 1..n : frames'[i] = frames[i]
    <2>1. NewFrame(t.slot, t.bid) /\ frames \in Seq(Frame)
      BY DEF NewSlotLine, TypeOK
    <2>2. /\ frames' \in Seq(Frame) /\ Len(frames') = n + 1
          /\ \A i \in 1..n : frames'[i] = frames[i]
      BY ONLY <1>1, <2>1, NewFrameType
    <2>3. QED
      BY <2>1, <2>2
  <1>3. Len(frames') >= n
    BY <1>2
  <1>4. /\ n >= 1 /\ Summarises(prev', frames[n]) /\ Len(out') = n - 1
        /\ OutputFaithful'
    BY <1>1, <1>2, <1>3, FinishFaithful
  <1>5. FramesNonEmpty' /\ SummaryInv'
    BY <1>1, OpenSummary DEF NewSlotLine
  <1>6. PrevInv'
    <2>1. prev' # null
      <3>1. prev' \in CandleStick
        BY <1>1, FinishCandleType
      <3>2. QED
        BY <3>1, DataPrepAssumption DEF CandleStick
    <2>2. /\ ~(Len(frames') < 2)
          /\ Len(frames') - 1 = n
          /\ frames'[n] = frames[n]
      BY <1>2, <1>4
    <2>3. QED
      BY <1>4, <2>1, <2>2 DEF PrevInv
  <1>7. OutputComplete'
    BY <1>2, <1>4 DEF OutputComplete
  <1>8. QED
    BY <1>4, <1>5, <1>6, <1>7

LEMMA BadPriceNewSlotInv ==
  ASSUME Inv, TypeOK', NEW s \in Slots, BadPriceNewSlot(s)
  PROVE  Inv'
  <1> DEFINE n == Len(frames)
  <1> USE DEF Inv
  <1>1. /\ pc = "reading" /\ timeSlot # null /\ pc' = "died"
        /\ CanBuildCandle /\ FinishCandle /\ frames' = frames
    BY DEF BadPriceNewSlot, Reading
  <1>2. /\ frames' \in Seq(Frame) /\ n \in Nat /\ Len(frames') >= n
        /\ \A i \in 1..n : frames'[i] = frames[i]
    BY <1>1 DEF TypeOK
  <1>3. n >= 1 /\ Len(out') = n - 1 /\ OutputFaithful'
    BY <1>1, <1>2, FinishFaithful
  <1>4. FramesNonEmpty' /\ SummaryInv' /\ PrevInv'
    BY <1>1 DEF FramesNonEmpty, SummaryInv, PrevInv
  <1>5. OutputComplete'
    BY <1>1, <1>2, <1>3 DEF OutputComplete
  <1>6. QED
    BY <1>3, <1>4, <1>5

(* A step that ends the program leaves the output and the ticks alone.     *)
LEMMA StopInv ==
  ASSUME Inv, TypeOK', pc = "reading", pc' # "reading",
         out' = out, frames' = frames
  PROVE  Inv'
  <1> USE DEF Inv
  <1>1. FramesNonEmpty' /\ SummaryInv' /\ PrevInv'
    BY DEF FramesNonEmpty, SummaryInv, PrevInv
  <1>2. OutputFaithful'
    BY DEF OutputFaithful
  <1>3. OutputComplete'
    BY DEF OutputComplete
  <1>4. QED
    BY <1>1, <1>2, <1>3

LEMMA NextInv == Inv /\ [Next]_vars => Inv'
  <1> SUFFICES ASSUME Inv, [Next]_vars PROVE Inv'
    OBVIOUS
  <1>1. TypeOK'
    BY NextType DEF Inv
  <1>2. ASSUME NEW t \in Tick, NoHighPrice(t) PROVE Inv'
    BY <1>1, <1>2, StopInv DEF NoHighPrice, Reading
  <1>3. CASE BadLine
    BY <1>1, <1>3, StopInv DEF BadLine, Reading
  <1>4. CASE EndOfFile
    BY <1>1, <1>4, StopInv DEF EndOfFile
  <1>5. CASE UNCHANGED vars
    BY <1>1, <1>5 DEF vars, summary, Inv, FramesNonEmpty, SummaryInv, PrevInv,
                      OutputFaithful, OutputComplete
  <1>6. QED
    BY <1>1, <1>2, <1>3, <1>4, <1>5, FirstLineInv, SameSlotLineInv,
       NewSlotLineInv, BadPriceNewSlotInv
    DEF Next, Ended

-----------------------------------------------------------------------------
(* Every record in the output file is right: it carries the high, low and  *)
(* close bid of its run of ticks and the direction of the next run's close *)
(* price, whatever the file holds and wherever the program dies.           *)
THEOREM OutputIsFaithful == Spec => []OutputFaithful
  <1>1. Inv => OutputFaithful
    BY DEF Inv
  <1>2. QED
    BY InitInv, NextInv, <1>1, PTL DEF Spec

(* No run of ticks but the last two is missing from the output, and none   *)
(* is written twice.                                                       *)
THEOREM OutputIsComplete == Spec => []OutputComplete
  <1>1. Inv => OutputComplete
    BY DEF Inv
  <1>2. QED
    BY InitInv, NextInv, <1>1, PTL DEF Spec

=============================================================================
