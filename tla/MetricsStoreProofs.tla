-------------------------- MODULE MetricsStoreProofs --------------------------
(***************************************************************************)
(* The time-series database for any number of rows, any length of a day,   *)
(* any retention, batch and channel: no row leaves before its time, the    *)
(* statistics of a day count every row of it, results are written in the   *)
(* order they were accepted, and maintenance leaves no old row behind.     *)
(*                                                                         *)
(* The last part is about the service monitor, whose checks fill the       *)
(* channel: no late check undoes a deletion, a service that is due has a   *)
(* task on its way, and late results run out.                              *)
(***************************************************************************)
EXTENDS MetricsStore, SequenceTheorems, FiniteSetTheorems, TLAPS

(* A run of maintenance deletes nothing younger than the retention.        *)
CutoffReached == maint.at # "idle" => maint.cutoff >= Retention * Day

(* A slot is in one place: once in a queue, or stored, or deleted.         *)
OnePlace ==
  /\ \A i, j \in 1..Len(channel) : channel[i] = channel[j] => i = j
  /\ \A i, j \in 1..Len(batch) : batch[i] = batch[j] => i = j
  /\ \A i \in 1..Len(channel), j \in 1..Len(batch) : channel[i] # batch[j]
  /\ \A i \in 1..Len(channel) : channel[i] \notin store \cup purged
  /\ \A i \in 1..Len(batch) : batch[i] \notin store \cup purged
  /\ store \cap purged = {}

(* A slot in a place holds a row.                                          *)
Filled ==
  /\ \A i \in 1..Len(channel) : row[channel[i]] \in Row
  /\ \A i \in 1..Len(batch) : row[batch[i]] \in Row
  /\ \A s \in store \cup purged : row[s] \in Row

(* What was deleted was older than the retention.                          *)
PurgedIsOld == \A s \in purged : row[s].age > Retention * Day

(* The writer selects while the batch has room, and flushes what there is. *)
BatchShape == IF writer = "select" THEN Len(batch) < BatchMax ELSE batch # <<>>

IInv == TypeOK /\ BatchShape /\ CutoffReached /\ OnePlace /\ Filled /\ PurgedIsOld

-----------------------------------------------------------------------------
(* Facts about rows and queues.                                            *)

LEMMA RowsAreNotBlank == \A r \in Row : r # Blank
  BY DEF Row, Blank, Tables

LEMMA OlderRow ==
  ASSUME NEW r \in Row
  PROVE  Older(r) \in Row /\ Older(r).age >= r.age
  BY RowsAreNotBlank, StoreAssumption DEF Older, Row

LEMMA OlderBlank == Older(Blank) = Blank
  BY DEF Older

LEMMA TailOf ==
  ASSUME NEW S, NEW q \in Seq(S), q # <<>>
  PROVE  /\ Len(q) \in Nat \ {0}
         /\ Head(q) \in S /\ Head(q) = q[1]
         /\ Tail(q) \in Seq(S) /\ Len(Tail(q)) = Len(q) - 1
         /\ \A i \in 1..Len(Tail(q)) : i + 1 \in 1..Len(q) /\ Tail(q)[i] = q[i + 1]
  OBVIOUS

LEMMA AppendTo ==
  ASSUME NEW S, NEW q \in Seq(S), NEW x \in S
  PROVE  /\ Append(q, x) \in Seq(S) /\ Len(Append(q, x)) = Len(q) + 1
         /\ Append(q, x)[Len(q) + 1] = x
         /\ \A i \in 1..Len(q) : Append(q, x)[i] = q[i]
  OBVIOUS

LEMMA FreshIsBlank == Room => Fresh \in Slots /\ row[Fresh] = Blank
  BY DEF Room, Fresh

LEMMA RangeOf ==
  ASSUME NEW q \in Seq(Slots)
  PROVE  Range(q) = {q[i] : i \in 1..Len(q)}
  BY DEF Range

(* Retention * Day, and the largest cutoff, are numbers.                   *)
LEMMA RetentionIsNat ==
  /\ Retention * Day \in Nat /\ Retention * Day <= MaxAge - 1
  BY StoreAssumption, AgesAreEnough

-----------------------------------------------------------------------------
(* The inductive invariant, one action at a time.                          *)

(* Nothing but the clock, the process or maintenance moves.                *)
LEMMA QuietStep ==
  ASSUME IInv, UNCHANGED <<row, channel, batch, store, purged>>,
         phase' \in 0..(Day - 1), writer' \in {"select", "flushing"}, BatchShape',
         maint' \in [at : Tables \cup {"idle"}, cutoff : 0..MaxAge],
         maint'.at # "idle" => maint'.cutoff >= Retention * Day,
         pool' \in {"open", "closed", "down"}, restarts' \in 0..MaxRestarts
  PROVE  IInv'
<1>1. TypeOK'
  BY DEF IInv, TypeOK
<1>2. CutoffReached'
  BY DEF CutoffReached
<1>3. OnePlace' /\ Filled' /\ PurgedIsOld'
  BY DEF IInv, OnePlace, Filled, PurgedIsOld
<1>4. QED
  BY <1>1, <1>2, <1>3 DEF IInv

LEMMA InitHolds == Init => IInv
<1> SUFFICES ASSUME Init
             PROVE  IInv
  OBVIOUS
<1>1. TypeOK /\ BatchShape
  BY StoreAssumption DEF Init, TypeOK, BatchShape, Idle
<1>2. CutoffReached
  BY DEF Init, CutoffReached, Idle
<1>3. OnePlace /\ Filled /\ PurgedIsOld
  BY DEF Init, OnePlace, Filled, PurgedIsOld
<1>4. QED
  BY <1>1, <1>2, <1>3 DEF IInv

(* A new row, in the channel or in the database.                           *)
LEMMA NewRow ==
  ASSUME IInv, Room, NEW r \in Row, row' = [row EXCEPT ![Fresh] = r],
         UNCHANGED <<phase, batch, writer, purged, maint, pool, restarts>>,
         \/ UNCHANGED store /\ channel' = Append(channel, Fresh) /\ Len(channel) < ChannelCap
         \/ UNCHANGED channel /\ store' = store \cup {Fresh}
  PROVE  IInv'
<1>1. Fresh \in Slots /\ row[Fresh] = Blank
  BY FreshIsBlank
<1>2. /\ \A i \in 1..Len(channel) : channel[i] # Fresh
      /\ \A i \in 1..Len(batch) : batch[i] # Fresh
      /\ Fresh \notin store \cup purged
  BY <1>1, RowsAreNotBlank DEF IInv, Filled
<1>3. row \in [Slots -> Row \cup {Blank}] /\ row' \in [Slots -> Row \cup {Blank}]
  BY <1>1 DEF IInv, TypeOK
<1>4. row'[Fresh] = r /\ \A s \in Slots \ {Fresh} : row'[s] = row[s]
  BY <1>1, <1>3
<1>5. channel \in Seq(Slots) /\ batch \in Seq(Slots) /\ store \subseteq Slots /\ purged \subseteq Slots
  BY DEF IInv, TypeOK
<1>6. BatchShape' /\ CutoffReached' /\ PurgedIsOld'
  <2>1. \A s \in purged : row'[s] = row[s]
    BY <1>2, <1>4, <1>5
  <2>2. QED
    BY <2>1 DEF IInv, BatchShape, CutoffReached, PurgedIsOld
<1>7. CASE UNCHANGED store /\ channel' = Append(channel, Fresh) /\ Len(channel) < ChannelCap
  <2>1. /\ channel' \in Seq(Slots) /\ Len(channel') = Len(channel) + 1
        /\ channel'[Len(channel) + 1] = Fresh
        /\ \A i \in 1..Len(channel) : channel'[i] = channel[i]
    BY <1>1, <1>5, <1>7, AppendTo
  <2>2. Len(channel) \in Nat
    BY <1>5
  <2>3. \A i \in 1..Len(channel') : i \in 1..Len(channel) \/ i = Len(channel) + 1
    BY <2>1, <2>2
  <2>4. TypeOK'
    BY <1>3, <1>7, <2>1, <2>2, StoreAssumption DEF IInv, TypeOK
  <2>5. \A i \in 1..Len(channel') :
          \/ channel'[i] = Fresh /\ i = Len(channel) + 1
          \/ channel'[i] = channel[i] /\ i \in 1..Len(channel)
    BY <2>1, <2>3
  <2>6. \A i, j \in 1..Len(channel') : channel'[i] = channel'[j] => i = j
    BY <1>2, <2>5 DEF IInv, OnePlace
  <2>7. OnePlace'
    BY <1>2, <1>7, <2>5, <2>6 DEF IInv, OnePlace
  <2>8. Filled'
    BY <1>2, <1>4, <1>5, <1>7, <2>5 DEF IInv, Filled
  <2>9. QED
    BY <1>6, <2>4, <2>7, <2>8 DEF IInv
<1>8. CASE UNCHANGED channel /\ store' = store \cup {Fresh}
  <2>1. TypeOK'
    BY <1>1, <1>3, <1>8 DEF IInv, TypeOK
  <2>2. OnePlace'
    BY <1>2, <1>8 DEF IInv, OnePlace
  <2>3. Filled'
    BY <1>2, <1>4, <1>5, <1>8 DEF IInv, Filled
  <2>4. QED
    BY <1>6, <2>1, <2>2, <2>3 DEF IInv
<1>9. QED
  BY <1>7, <1>8

LEMMA TickHolds == IInv /\ Tick => IInv'
<1> SUFFICES ASSUME IInv, Tick
             PROVE  IInv'
  OBVIOUS
<1>1. /\ row \in [Slots -> Row \cup {Blank}] /\ store \subseteq Slots /\ purged \subseteq Slots
      /\ channel \in Seq(Slots) /\ batch \in Seq(Slots)
      /\ maint \in [at : Tables \cup {"idle"}, cutoff : 0..MaxAge]
      /\ phase \in 0..(Day - 1)
  BY DEF IInv, TypeOK
<1> DEFINE gone == purged \ purged'
<1>2. purged' \subseteq purged
  BY DEF Tick
<1>3. \A s \in Slots : row'[s] = IF s \in gone THEN Blank ELSE Older(row[s])
  BY DEF Tick
<1>4. \A s \in Slots : Older(row[s]) \in Row \cup {Blank}
  BY <1>1, OlderRow, OlderBlank
<1>5. row' \in [Slots -> Row \cup {Blank}]
  BY <1>4 DEF Tick
<1>6. maint' \in [at : Tables \cup {"idle"}, cutoff : 0..MaxAge]
      /\ (maint'.at # "idle" => maint'.cutoff >= Retention * Day)
  <2>1. CASE maint.at = "idle"
    BY <1>1, <2>1 DEF Tick
  <2>2. CASE maint.at # "idle"
    <3>1. maint.cutoff \in 0..MaxAge /\ maint.cutoff < MaxAge - 1 /\ maint.cutoff >= Retention * Day
      BY <1>1, <2>2 DEF Tick, IInv, CutoffReached
    <3>2. maint' = [maint EXCEPT !.cutoff = @ + 1]
      BY <2>2 DEF Tick
    <3>3. maint.cutoff + 1 \in 0..MaxAge /\ maint.cutoff + 1 >= Retention * Day
      BY <3>1, RetentionIsNat, StoreAssumption
    <3>4. maint' \in [at : Tables \cup {"idle"}, cutoff : 0..MaxAge] /\ maint'.cutoff = maint.cutoff + 1
      BY <1>1, <3>2, <3>3
    <3>5. QED
      BY <3>3, <3>4
  <2>3. QED
    BY <2>1, <2>2
<1>7. phase' \in 0..(Day - 1)
  BY <1>1, StoreAssumption DEF Tick
<1>8. TypeOK'
  BY <1>2, <1>5, <1>6, <1>7 DEF Tick, queueVars, IInv, TypeOK
<1>9. BatchShape' /\ CutoffReached'
  BY <1>6 DEF Tick, queueVars, IInv, BatchShape, CutoffReached
<1>10. OnePlace'
  BY <1>2 DEF Tick, queueVars, IInv, OnePlace
<1>11. \A s \in Slots \ gone : row[s] \in Row => row'[s] \in Row /\ row'[s].age >= row[s].age
  BY <1>3, OlderRow
<1>12. Filled'
  <2>1. \A i \in 1..Len(channel) : channel[i] \in Slots \ gone
    BY <1>1 DEF IInv, OnePlace
  <2>2. \A i \in 1..Len(batch) : batch[i] \in Slots \ gone
    BY <1>1 DEF IInv, OnePlace
  <2>3. \A s \in store \cup purged' : s \in Slots \ gone /\ row[s] \in Row
    BY <1>1, <1>2 DEF IInv, OnePlace, Filled
  <2>4. UNCHANGED <<channel, batch, store>>
    BY DEF Tick, queueVars
  <2>5. QED
    BY <1>11, <2>1, <2>2, <2>3, <2>4 DEF IInv, Filled
<1>13. PurgedIsOld'
  <2> SUFFICES ASSUME NEW s \in purged'
               PROVE  row'[s].age > Retention * Day
    BY DEF PurgedIsOld
  <2>1. s \in Slots \ gone /\ row[s] \in Row /\ row[s].age > Retention * Day
    BY <1>1, <1>2 DEF IInv, Filled, PurgedIsOld
  <2>2. row'[s] \in Row /\ row'[s].age >= row[s].age
    BY <1>11, <2>1
  <2>3. row[s].age \in Int /\ row'[s].age \in Int
    BY <2>1, <2>2 DEF Row
  <2>4. QED
    BY <2>1, <2>2, <2>3, RetentionIsNat
<1>14. QED
  BY <1>8, <1>9, <1>10, <1>12, <1>13 DEF IInv

LEMMA ReceiveHolds == IInv /\ Receive => IInv'
<1> SUFFICES ASSUME IInv, Receive
             PROVE  IInv'
  OBVIOUS
<1> USE StoreAssumption
<1>1. /\ channel \in Seq(Slots) /\ batch \in Seq(Slots) /\ channel # <<>>
      /\ Len(batch) \in Nat /\ Len(batch) < BatchMax
  BY DEF Receive, IInv, TypeOK, BatchShape
<1>2. /\ Len(channel) \in Nat \ {0}
      /\ Head(channel) \in Slots /\ Head(channel) = channel[1]
      /\ channel' \in Seq(Slots) /\ Len(channel') = Len(channel) - 1
      /\ \A i \in 1..Len(channel') : i + 1 \in 1..Len(channel) /\ channel'[i] = channel[i + 1]
  BY <1>1, TailOf DEF Receive
<1>3. /\ batch' \in Seq(Slots) /\ Len(batch') = Len(batch) + 1
      /\ batch'[Len(batch) + 1] = channel[1]
      /\ \A i \in 1..Len(batch) : batch'[i] = batch[i]
  BY <1>1, <1>2, AppendTo DEF Receive
<1>4. \A i \in 1..Len(batch') :
        \/ batch'[i] = channel[1] /\ i = Len(batch) + 1
        \/ batch'[i] = batch[i] /\ i \in 1..Len(batch)
  BY <1>1, <1>3
<1>5. UNCHANGED <<row, store, purged, maint>>
  BY DEF Receive
<1>6. TypeOK' /\ BatchShape'
  <2>1. Len(batch') <= BatchMax /\ batch' # <<>>
    BY <1>1, <1>3
  <2>2. Len(channel') <= ChannelCap
    BY <1>2 DEF IInv, TypeOK
  <2>3. QED
    BY <1>1, <1>2, <1>3, <2>1, <2>2 DEF Receive, IInv, TypeOK, BatchShape
<1>7. CutoffReached' /\ PurgedIsOld'
  BY <1>5 DEF IInv, CutoffReached, PurgedIsOld
<1>8. 1 \in 1..Len(channel)
  BY <1>2
<1>9. OnePlace'
  <2>1. \A i, j \in 1..Len(channel') : channel'[i] = channel'[j] => i = j
    <3> SUFFICES ASSUME NEW i \in 1..Len(channel'), NEW j \in 1..Len(channel'),
                        channel'[i] = channel'[j]
                 PROVE  i = j
      OBVIOUS
    <3>1. i + 1 = j + 1
      BY <1>2 DEF IInv, OnePlace
    <3>2. QED
      BY <1>2, <3>1
  <2>2. \A i, j \in 1..Len(batch') : batch'[i] = batch'[j] => i = j
    BY <1>4, <1>8 DEF IInv, OnePlace
  <2>3. \A i \in 1..Len(channel') : channel'[i] # channel[1]
    <3> SUFFICES ASSUME NEW i \in 1..Len(channel'), channel'[i] = channel[1]
                 PROVE  FALSE
      OBVIOUS
    <3>1. i + 1 = 1
      BY <1>2, <1>8 DEF IInv, OnePlace
    <3>2. QED
      BY <1>2, <3>1
  <2>4. \A i \in 1..Len(channel'), j \in 1..Len(batch') : channel'[i] # batch'[j]
    BY <1>2, <1>4, <2>3 DEF IInv, OnePlace
  <2>5. \A i \in 1..Len(channel') : channel'[i] \notin store \cup purged
    BY <1>2 DEF IInv, OnePlace
  <2>6. \A i \in 1..Len(batch') : batch'[i] \notin store \cup purged
    BY <1>4, <1>8 DEF IInv, OnePlace
  <2>7. QED
    BY <1>5, <2>1, <2>2, <2>4, <2>5, <2>6 DEF IInv, OnePlace
<1>10. Filled'
  BY <1>2, <1>4, <1>5, <1>8 DEF IInv, Filled
<1>11. QED
  BY <1>6, <1>7, <1>9, <1>10 DEF IInv

LEMMA WriteOneHolds == IInv /\ WriteOne => IInv'
<1> SUFFICES ASSUME IInv, WriteOne
             PROVE  IInv'
  OBVIOUS
<1> USE StoreAssumption
<1>1. /\ channel \in Seq(Slots) /\ batch \in Seq(Slots) /\ batch # <<>>
      /\ store \subseteq Slots /\ purged \subseteq Slots /\ row \in [Slots -> Row \cup {Blank}]
  BY DEF WriteOne, IInv, TypeOK, BatchShape
<1>2. /\ Len(batch) \in Nat \ {0}
      /\ Head(batch) \in Slots /\ Head(batch) = batch[1]
      /\ batch' \in Seq(Slots) /\ Len(batch') = Len(batch) - 1
      /\ \A i \in 1..Len(batch') : i + 1 \in 1..Len(batch) /\ batch'[i] = batch[i + 1]
  BY <1>1, TailOf DEF WriteOne
<1>3. UNCHANGED <<channel, purged, maint>>
  BY DEF WriteOne
<1>4. 1 \in 1..Len(batch)
  BY <1>2
<1>5. \A i \in 1..Len(batch') : batch'[i] # batch[1]
  <2> SUFFICES ASSUME NEW i \in 1..Len(batch'), batch'[i] = batch[1]
               PROVE  FALSE
    OBVIOUS
  <2>1. i + 1 = 1
    BY <1>2, <1>4 DEF IInv, OnePlace
  <2>2. QED
    BY <1>2, <2>1
<1>6. \A i \in 1..Len(channel) : channel[i] # batch[1]
  BY <1>4 DEF IInv, OnePlace
<1>7. row' \in [Slots -> Row \cup {Blank}]
      /\ (\A s \in Slots : s # batch[1] => row'[s] = row[s])
      /\ store' \subseteq store \cup {batch[1]} /\ (batch[1] \in store' => row'[batch[1]] = row[batch[1]])
  <2>1. CASE store' = store \cup {Head(batch)} /\ UNCHANGED row
    BY <1>1, <1>2, <2>1
  <2>2. CASE Forget({Head(batch)}) /\ UNCHANGED store
    <3>1. batch[1] \notin store
      BY <1>4 DEF IInv, OnePlace
    <3>2. row' = [s \in Slots |-> IF s = batch[1] THEN Blank ELSE row[s]]
      BY <1>2, <2>2 DEF Forget
    <3>3. QED
      BY <1>1, <2>2, <3>1, <3>2
  <2>3. QED
    BY <2>1, <2>2 DEF WriteOne
<1>8. TypeOK' /\ BatchShape'
  <2>1. Len(batch') <= BatchMax
    BY <1>2 DEF IInv, TypeOK
  <2>2. store' \subseteq Slots
    BY <1>1, <1>2, <1>7
  <2>3. BatchShape'
    <3>1. CASE batch' = <<>>
      <4>1. Len(batch') = 0 /\ 0 < BatchMax
        BY <3>1
      <4>2. QED
        BY <3>1, <4>1 DEF WriteOne, BatchShape
    <3>2. CASE batch' # <<>>
      BY <3>2 DEF WriteOne, BatchShape
    <3>3. QED
      BY <3>1, <3>2
  <2>4. QED
    BY <1>2, <1>7, <2>1, <2>2, <2>3 DEF WriteOne, IInv, TypeOK
<1>9. \A s \in purged : s # batch[1]
  BY <1>4 DEF IInv, OnePlace
<1>10. CutoffReached' /\ PurgedIsOld'
  <2>1. \A s \in purged : row'[s] = row[s]
    BY <1>1, <1>7, <1>9
  <2>2. QED
    BY <1>3, <2>1 DEF IInv, CutoffReached, PurgedIsOld
<1>11. OnePlace'
  <2>1. \A i, j \in 1..Len(batch') : batch'[i] = batch'[j] => i = j
    <3> SUFFICES ASSUME NEW i \in 1..Len(batch'), NEW j \in 1..Len(batch'),
                        batch'[i] = batch'[j]
                 PROVE  i = j
      OBVIOUS
    <3>1. i + 1 \in 1..Len(batch) /\ j + 1 \in 1..Len(batch) /\ batch[i + 1] = batch[j + 1]
      BY <1>2
    <3>2. i + 1 = j + 1
      BY <3>1 DEF IInv, OnePlace
    <3>3. QED
      BY <1>2, <3>2
  <2>2. \A i \in 1..Len(batch') : batch'[i] \notin store' \cup purged
    BY <1>2, <1>5, <1>7 DEF IInv, OnePlace
  <2>3. \A i \in 1..Len(channel) : channel[i] \notin store' \cup purged
    BY <1>6, <1>7 DEF IInv, OnePlace
  <2>4. store' \cap purged = {}
    BY <1>7, <1>9 DEF IInv, OnePlace
  <2>5. \A i \in 1..Len(channel), j \in 1..Len(batch') : channel[i] # batch'[j]
    BY <1>2 DEF IInv, OnePlace
  <2>6. \A i, j \in 1..Len(channel) : channel[i] = channel[j] => i = j
    BY DEF IInv, OnePlace
  <2>7. QED
    BY <1>3, <2>1, <2>2, <2>3, <2>4, <2>5, <2>6 DEF OnePlace
<1>12. Filled'
  <2>1. \A i \in 1..Len(batch') : row'[batch'[i]] \in Row
    BY <1>1, <1>2, <1>5, <1>7 DEF IInv, Filled
  <2>2. \A i \in 1..Len(channel) : row'[channel[i]] \in Row
    BY <1>1, <1>6, <1>7 DEF IInv, Filled
  <2>3. row[batch[1]] \in Row /\ \A s \in store \cup purged : row[s] \in Row
    BY <1>4 DEF IInv, Filled
  <2>4. \A s \in store' \cup purged : row'[s] \in Row
    <3> SUFFICES ASSUME NEW s \in store' \cup purged
                 PROVE  row'[s] \in Row
      OBVIOUS
    <3>1. CASE s = batch[1]
      BY <1>7, <1>9, <2>3, <3>1
    <3>2. CASE s # batch[1]
      BY <1>1, <1>7, <2>3, <3>2
    <3>3. QED
      BY <3>1, <3>2
  <2>5. QED
    BY <1>3, <2>1, <2>2, <2>4 DEF Filled
<1>13. QED
  BY <1>8, <1>10, <1>11, <1>12 DEF IInv

(* What one DELETE removes was older than the retention.                   *)
LEMMA BatchIsOld ==
  ASSUME IInv, maint.at # "idle", NEW gone \in Batches
  PROVE  gone \subseteq store /\ \A s \in gone : row[s].age > Retention * Day
<1>1. gone \subseteq store /\ \A s \in gone : row[s].age > maint.cutoff
  BY DEF Batches, Old
<1>2. maint.cutoff \in Int /\ maint.cutoff >= Retention * Day
  BY StoreAssumption DEF IInv, CutoffReached, TypeOK
<1>3. \A s \in gone : row[s].age \in Int
  BY <1>1 DEF IInv, Filled, Row
<1>4. QED
  BY <1>1, <1>2, <1>3, RetentionIsNat

(* Whatever table comes next has the same cutoff.                          *)
LEMMA NextTableShape ==
  ASSUME IInv, NextTable
  PROVE  maint' \in [at : Tables \cup {"idle"}, cutoff : 0..MaxAge] /\ CutoffReached'
<1>1. maint \in [at : Tables \cup {"idle"}, cutoff : 0..MaxAge]
  BY DEF IInv, TypeOK
<1>2. CASE maint.at = "server"
  <2>1. maint' = [maint EXCEPT !.at = "service"]
    BY <1>2 DEF NextTable
  <2>2. maint'.cutoff = maint.cutoff /\ maint' \in [at : Tables \cup {"idle"}, cutoff : 0..MaxAge]
    BY <1>1, <2>1 DEF Tables
  <2>3. QED
    BY <1>2, <2>2 DEF IInv, CutoffReached
<1>3. CASE maint.at # "server"
  BY <1>3, StoreAssumption DEF NextTable, Idle, CutoffReached
<1>4. QED
  BY <1>2, <1>3

LEMMA PurgeHolds == IInv /\ Purge => IInv'
<1> SUFFICES ASSUME IInv, Purge
             PROVE  IInv'
  OBVIOUS
<1>1. PICK gone \in Batches :
        /\ store' = store \ gone /\ purged' = purged \cup gone
        /\ IF gone = {} THEN NextTable ELSE UNCHANGED maint
  BY DEF Purge
<1>2. gone \subseteq store /\ \A s \in gone : row[s].age > Retention * Day
  BY BatchIsOld DEF Purge
<1>3. UNCHANGED <<phase, row, channel, batch, writer, pool, restarts>>
  BY DEF Purge, queueVars
<1>4. maint' \in [at : Tables \cup {"idle"}, cutoff : 0..MaxAge] /\ CutoffReached'
  BY <1>1, NextTableShape DEF IInv, TypeOK, CutoffReached
<1>5. TypeOK' /\ BatchShape'
  BY <1>1, <1>2, <1>3, <1>4 DEF IInv, TypeOK, BatchShape
<1>6. OnePlace' /\ Filled' /\ PurgedIsOld'
  BY <1>1, <1>2, <1>3 DEF IInv, OnePlace, Filled, PurgedIsOld
<1>7. QED
  BY <1>4, <1>5, <1>6 DEF IInv

LEMMA ExitHolds == IInv /\ Exit => IInv'
<1> SUFFICES ASSUME IInv, Exit
             PROVE  IInv'
  OBVIOUS
<1> USE StoreAssumption
<1>1. /\ channel \in Seq(Slots) /\ batch \in Seq(Slots)
      /\ store \subseteq Slots /\ purged \subseteq Slots /\ row \in [Slots -> Row \cup {Blank}]
  BY DEF IInv, TypeOK
<1>2. \A s \in store \cup purged : s \notin Queued
  BY <1>1, RangeOf DEF Queued, IInv, OnePlace
<1>3. row' = [s \in Slots |-> IF s \in Queued THEN Blank ELSE row[s]]
  BY DEF Exit, Forget
<1>4. row' \in [Slots -> Row \cup {Blank}] /\ \A s \in store \cup purged : row'[s] = row[s]
  BY <1>1, <1>2, <1>3
<1>5. /\ channel' = <<>> /\ batch' = <<>> /\ writer' = "select" /\ maint' = Idle
      /\ UNCHANGED <<phase, store, purged>>
  BY DEF Exit
<1>6. TypeOK' /\ BatchShape' /\ CutoffReached'
  BY <1>4, <1>5 DEF Exit, IInv, TypeOK, BatchShape, CutoffReached, Idle
<1>7. OnePlace' /\ Filled' /\ PurgedIsOld'
  BY <1>4, <1>5 DEF IInv, OnePlace, Filled, PurgedIsOld
<1>8. QED
  BY <1>6, <1>7 DEF IInv

LEMMA Inductive == IInv /\ [Next]_vars => IInv'
<1> SUFFICES ASSUME IInv, [Next]_vars
             PROVE  IInv'
  OBVIOUS
<1> USE StoreAssumption
<1>1. CASE Tick
  BY <1>1, TickHolds
<1>2. CASE Accept
  <2>1. PICK ok \in BOOLEAN :
          row' = [row EXCEPT ![Fresh] = [table |-> "service", age |-> 0, ok |-> ok]]
    BY <1>2 DEF Accept
  <2>2. [table |-> "service", age |-> 0, ok |-> ok] \in Row
    BY DEF Row, Tables
  <2>3. QED
    BY <1>2, <2>1, <2>2, NewRow DEF Accept
<1>3. CASE Report
  <2>1. [table |-> "server", age |-> 0, ok |-> TRUE] \in Row
    BY DEF Row, Tables
  <2>2. QED
    BY <1>3, <2>1, NewRow DEF Report, queueVars
<1>4. CASE Receive
  BY <1>4, ReceiveHolds
<1>5. CASE FlushTick
  <2>1. BatchShape'
    BY <1>5 DEF FlushTick, BatchShape
  <2>2. QED
    BY <1>5, <2>1, QuietStep DEF FlushTick, IInv, TypeOK, CutoffReached
<1>6. CASE WriteOne
  BY <1>6, WriteOneHolds
<1>7. CASE MaintStart
  <2>1. maint' = [at |-> "server", cutoff |-> Retention * Day]
    BY <1>7 DEF MaintStart
  <2>2. maint' \in [at : Tables \cup {"idle"}, cutoff : 0..MaxAge] /\ maint'.cutoff >= Retention * Day
    BY <2>1, RetentionIsNat DEF Tables
  <2>3. BatchShape'
    BY <1>7 DEF MaintStart, queueVars, IInv, BatchShape
  <2>4. QED
    BY <1>7, <2>2, <2>3, QuietStep DEF MaintStart, queueVars, IInv, TypeOK
<1>8. CASE Purge
  BY <1>8, PurgeHolds
<1>9. CASE PurgeFails
  <2>1. maint' \in [at : Tables \cup {"idle"}, cutoff : 0..MaxAge] /\ CutoffReached'
    BY <1>9, NextTableShape DEF PurgeFails
  <2>2. BatchShape'
    BY <1>9 DEF PurgeFails, queueVars, IInv, BatchShape
  <2>3. QED
    BY <1>9, <2>1, <2>2, QuietStep DEF PurgeFails, queueVars, IInv, TypeOK, CutoffReached
<1>10. CASE Close
  <2>1. BatchShape'
    BY <1>10 DEF Close, queueVars, IInv, BatchShape
  <2>2. QED
    BY <1>10, <2>1, QuietStep DEF Close, queueVars, IInv, TypeOK, CutoffReached
<1>11. CASE Exit
  BY <1>11, ExitHolds
<1>12. CASE Boot
  <2>1. BatchShape'
    BY <1>12 DEF Boot, queueVars, IInv, BatchShape
  <2>2. QED
    BY <1>12, <2>1, QuietStep DEF Boot, queueVars, IInv, TypeOK, CutoffReached
<1>13. CASE UNCHANGED vars
  <2>1. BatchShape'
    BY <1>13 DEF vars, queueVars, IInv, BatchShape
  <2>2. QED
    BY <1>13, <2>1, QuietStep DEF vars, queueVars, IInv, TypeOK, CutoffReached
<1>14. QED
  BY <1>1, <1>2, <1>3, <1>4, <1>5, <1>6, <1>7, <1>8, <1>9, <1>10, <1>11, <1>12, <1>13
     DEF Next, WriterStep

-----------------------------------------------------------------------------
(* What the invariant gives.                                               *)

(* Every variable keeps its type; the channel and the batch stay within    *)
(* their sizes.                                                            *)
THEOREM TypeCorrect == Spec => []TypeOK
<1>1. IInv => TypeOK
  BY DEF IInv
<1>2. QED
  BY InitHolds, Inductive, <1>1, PTL DEF Spec

(* A stored row leaves the database only when it is older than the         *)
(* retention: no batch, failing statement, shutdown or restart removes it. *)
THEOREM RowsOutliveRetention == Spec => RetentionKept
<1>1. IInv /\ [Next]_vars =>
        [\A s \in store : s \notin store' => row[s].age > Retention * Day]_vars
  <2> SUFFICES ASSUME IInv, Next, NEW s \in store, s \notin store'
               PROVE  row[s].age > Retention * Day
    OBVIOUS
  <2>1. Purge
    BY DEF Next, WriterStep, Tick, Accept, Receive, FlushTick, WriteOne, Report,
           MaintStart, PurgeFails, Close, Exit, Boot, queueVars
  <2>2. PICK gone \in Batches : store' = store \ gone
    BY <2>1 DEF Purge
  <2>3. QED
    BY <2>1, <2>2, BatchIsOld DEF Purge
<1>2. QED
  BY InitHolds, Inductive, <1>1, PTL DEF Spec, RetentionKept

-----------------------------------------------------------------------------
(* The calendar.                                                           *)

LEMMA Quotient ==
  ASSUME NEW n \in Nat, NEW k \in Nat \ {0}
  PROVE  n \div k \in Nat /\ k * (n \div k) <= n /\ n < k * (n \div k) + k
  OBVIOUS

LEMMA QuotientIs ==
  ASSUME NEW n \in Nat, NEW k \in Nat \ {0}, NEW q \in Nat, k * q <= n, n < k * q + k
  PROVE  n \div k = q
  OBVIOUS

LEMMA Monotone ==
  ASSUME NEW k \in Nat \ {0}, NEW p \in Int, NEW q \in Int, p <= q
  PROVE  k * p <= k * q
  OBVIOUS

(* The start of the statistics lies Days - 1 midnights back.               *)
LEMMA StartDay ==
  ASSUME phase \in 0..(Day - 1)
  PROVE  StartAge \in Nat /\ DaysAgo(StartAge) = Days - 1
<1> DEFINE k == Day * (Days - 1)
           n == StartAge + Day - 1 - phase
<1> USE StoreAssumption
<1>1. Days - 1 \in Nat /\ Day \in Nat \ {0} /\ phase \in Nat /\ phase <= Day - 1
  OBVIOUS
<1>2. k \in Nat /\ StartAge = k
  BY <1>1 DEF StartAge
<1> HIDE DEF k
<1>3. n \in Nat /\ k <= n /\ n < k + Day
  BY <1>1, <1>2
<1>4. n \div Day = Days - 1
  BY <1>1, <1>3, QuotientIs DEF k
<1>5. QED
  BY <1>2, <1>4 DEF DaysAgo

(* A row of day d is younger than midnight d + 1 days before today's end.  *)
LEMMA DayBounds ==
  ASSUME phase \in 0..(Day - 1), NEW age \in Nat
  PROVE  DaysAgo(age) \in Nat /\ age < Day * (DaysAgo(age) + 1)
<1> DEFINE n == age + Day - 1 - phase
           d == n \div Day
<1> USE StoreAssumption
<1>1. n \in Nat /\ age <= n
  OBVIOUS
<1>2. d \in Nat /\ n < Day * d + Day
  BY <1>1, Quotient
<1>3. DaysAgo(age) = d
  BY DEF DaysAgo
<1> HIDE DEF n, d
<1>4. Day * d + Day = Day * (d + 1) /\ Day * d \in Nat
  BY <1>2
<1>5. QED
  BY <1>1, <1>2, <1>3, <1>4

LEMMA RecentIsSelected ==
  ASSUME phase \in 0..(Day - 1), NEW age \in Nat, DaysAgo(age) <= Days - 2
  PROVE  age <= StartAge
<1> USE StoreAssumption
<1>1. DaysAgo(age) \in Nat /\ age < Day * (DaysAgo(age) + 1)
  BY DayBounds
<1>2. Day * (DaysAgo(age) + 1) <= Day * (Days - 1)
  BY <1>1, Monotone
<1>3. Day * (Days - 1) = StartAge /\ StartAge \in Nat /\ Day * (DaysAgo(age) + 1) \in Nat
  BY <1>1, StartDay DEF StartAge
<1>4. QED
  BY <1>1, <1>2, <1>3

LEMMA OldIsNotRecent ==
  ASSUME phase \in 0..(Day - 1), NEW age \in Nat, age > Retention * Day
  PROVE  DaysAgo(age) >= Retention
<1> USE StoreAssumption
<1>1. DaysAgo(age) \in Nat /\ age < Day * (DaysAgo(age) + 1)
  BY DayBounds
<1> SUFFICES ASSUME DaysAgo(age) + 1 <= Retention
             PROVE  FALSE
  BY <1>1
<1>2. Day * (DaysAgo(age) + 1) <= Day * Retention
  BY <1>1, Monotone
<1>3. Day * Retention = Retention * Day /\ Retention * Day \in Nat /\ Day * (DaysAgo(age) + 1) \in Nat
  BY <1>1
<1>4. QED
  BY <1>1, <1>2, <1>3

(* The statistics of a day count every check stored with a time of it,     *)
(* for any length of a day and at any time of day.                         *)
THEOREM StatisticsAreComplete == Spec => []DailyStatsComplete
<1>1. IInv => DailyStatsComplete
  <2> SUFFICES ASSUME IInv, NEW d \in 0..(Days - 2), d < Retention
               PROVE  DailyStats[Days - 1 - d] =
                        Count({s \in store \cup purged :
                                 row[s].table = "service" /\ DaysAgo(row[s].age) = d})
    BY DEF DailyStatsComplete
  <2> DEFINE counted == {s \in Selected : Index(s) = Days - 1 - d}
             made    == {s \in store \cup purged :
                           row[s].table = "service" /\ DaysAgo(row[s].age) = d}
  <2> USE StoreAssumption
  <2>1. phase \in 0..(Day - 1) /\ d \in Nat /\ Days \in Nat \ {0} /\ d <= Days - 2
    BY DEF IInv, TypeOK
  <2>2. \A s \in store \cup purged : row[s].age \in Nat /\ DaysAgo(row[s].age) \in Nat
    <3>1. \A s \in store \cup purged : row[s].age \in Nat
      BY DEF IInv, Filled, Row
    <3>2. QED
      BY <2>1, <3>1, DayBounds
  <2>3. \A s \in store : Index(s) = Days - 1 - d <=> DaysAgo(row[s].age) = d
    BY <2>1, <2>2, StartDay DEF Index
  <2>4. counted \subseteq made
    BY <2>3 DEF Selected
  <2>5. made \subseteq counted
    <3> SUFFICES ASSUME NEW s \in store \cup purged, row[s].table = "service",
                        DaysAgo(row[s].age) = d
                 PROVE  s \in counted
      OBVIOUS
    <3>1. s \notin purged
      <4> SUFFICES ASSUME s \in purged
                   PROVE  FALSE
        OBVIOUS
      <4>1. row[s].age > Retention * Day
        BY DEF IInv, PurgedIsOld
      <4>2. d >= Retention
        BY <2>1, <2>2, <4>1, OldIsNotRecent
      <4>3. QED
        BY <2>1, <4>2
    <3>2. row[s].age <= StartAge
      BY <2>1, <2>2, RecentIsSelected
    <3>3. QED
      BY <2>3, <3>1, <3>2 DEF Selected
  <2>6. counted = made
    BY <2>4, <2>5
  <2>7. Days - 1 - d \in 0..(Days - 1)
    BY <2>1
  <2>8. DailyStats[Days - 1 - d] = Count(counted)
    BY <2>7 DEF DailyStats
  <2>9. QED
    BY <2>6, <2>8
<1>2. QED
  BY InitHolds, Inductive, <1>1, PTL DEF Spec

-----------------------------------------------------------------------------
(* The queue to the database.                                              *)

(* Results on their way, oldest first: the batch, then the channel.        *)
Line == batch \o channel

LineEnters == \E s \in Slots : s \notin Queued /\ Line' = Append(Line, s)

LineLeaves ==
  /\ Line # <<>> /\ Line' = Tail(Line)
  /\ Head(Line) \in store' \/ row'[Head(Line)] = Blank

(* A result enters the line at its end and leaves it from the front, into  *)
(* the database or lost to an INSERT that failed; a move from the channel  *)
(* to the batch loses, doubles and reorders none, and only the end of the  *)
(* process empties the line.  This is the safety beneath AcceptedIsWritten *)
(* (sqlite.rs try_send, flush_batch).                                      *)
LineMoves == Line' = Line \/ LineEnters \/ LineLeaves \/ (pool' = "down" /\ Line' = <<>>)

LEMMA LineOf ==
  ASSUME NEW S, NEW b \in Seq(S), NEW c \in Seq(S)
  PROVE  /\ \A s \in S : b \o Append(c, s) = Append(b \o c, s)
         /\ c # <<>> => Append(b, Head(c)) \o Tail(c) = b \o c
         /\ b # <<>> => /\ b \o c # <<>> /\ Head(b \o c) = Head(b)
                       /\ Tail(b) \o c = Tail(b \o c)
<1>1. ASSUME NEW s \in S
      PROVE  b \o Append(c, s) = Append(b \o c, s)
  BY <1>1
<1>2. ASSUME c # <<>>
      PROVE  Append(b, Head(c)) \o Tail(c) = b \o c
  BY <1>2
<1>3. ASSUME b # <<>>
      PROVE  b \o c # <<>> /\ Head(b \o c) = Head(b)
  BY <1>3
<1>4. ASSUME b # <<>>
      PROVE  Tail(b) \o c = Tail(b \o c)
  <2> DEFINE l == Tail(b) \o c
             r == Tail(b \o c)
  <2>1. b \o c \in Seq(S) /\ Len(b \o c) = Len(b) + Len(c) /\ b \o c # <<>>
    BY <1>4
  <2>2. l \in Seq(S) /\ r \in Seq(S) /\ Len(l) = Len(r) /\ Len(r) = Len(b) - 1 + Len(c)
    BY <1>4, <2>1
  <2>3. ASSUME NEW i \in 1..Len(l)
        PROVE  l[i] = r[i]
    BY <1>4, <2>1, <2>2
  <2> HIDE DEF l, r
  <2>4. l = r
    BY <2>2, <2>3, SeqEqual
  <2>5. QED
    BY <2>4 DEF l, r
<1>5. QED
  BY <1>1, <1>2, <1>3, <1>4

THEOREM ResultsWrittenInOrder == Spec => [][LineMoves]_vars
<1>1. IInv /\ [Next]_vars => [LineMoves]_vars
  <2> SUFFICES ASSUME IInv, Next
               PROVE  LineMoves
    OBVIOUS
  <2>1. channel \in Seq(Slots) /\ batch \in Seq(Slots) /\ row \in [Slots -> Row \cup {Blank}]
    BY DEF IInv, TypeOK
  <2>2. UNCHANGED <<channel, batch>> => LineMoves
    BY DEF LineMoves, Line
  <2>3. CASE Accept
    <3>1. Fresh \in Slots /\ row[Fresh] = Blank
      BY <2>3, FreshIsBlank DEF Accept
    <3>2. Fresh \notin Queued
      BY <2>1, <3>1, RangeOf, RowsAreNotBlank DEF IInv, Filled, Queued
    <3>3. Line' = Append(Line, Fresh)
      BY <2>1, <2>3, <3>1, LineOf DEF Accept, Line
    <3>4. QED
      BY <3>1, <3>2, <3>3 DEF LineMoves, LineEnters
  <2>4. CASE Receive
    <3>1. Line' = Line
      BY <2>1, <2>4, LineOf DEF Receive, Line
    <3>2. QED
      BY <3>1 DEF LineMoves
  <2>5. CASE WriteOne
    <3>1. batch # <<>>
      BY <2>5 DEF WriteOne, IInv, BatchShape
    <3>2. Line # <<>> /\ Head(Line) = Head(batch) /\ Line' = Tail(Line)
      BY <2>1, <2>5, <3>1, LineOf DEF WriteOne, Line
    <3>3. Head(batch) \in Slots
      BY <2>1, <3>1, TailOf
    <3>4. Head(batch) \in store' \/ row'[Head(batch)] = Blank
      BY <2>5, <3>3 DEF WriteOne, Forget
    <3>5. QED
      BY <3>2, <3>4 DEF LineMoves, LineLeaves
  <2>6. CASE Exit
    <3>1. Line' = <<>>
      BY <2>6 DEF Exit, Line
    <3>2. QED
      BY <2>6, <3>1 DEF Exit, LineMoves
  <2>7. CASE Tick \/ FlushTick \/ Report \/ MaintStart \/ Purge \/ PurgeFails \/ Close \/ Boot
    BY <2>2, <2>7 DEF Tick, FlushTick, Report, MaintStart, Purge, PurgeFails, Close, Boot, queueVars
  <2>8. QED
    BY <2>3, <2>4, <2>5, <2>6, <2>7 DEF Next, WriterStep
<1>2. QED
  BY InitHolds, Inductive, <1>1, PTL DEF Spec

-----------------------------------------------------------------------------
(* A run of maintenance goes on to the next table only when the one it is  *)
(* at has no row left that is due, or a DELETE failed, or the process      *)
(* ends.  What is due stays so although the clock goes on, each DELETE     *)
(* takes some of it away, and nothing else goes.                           *)
MaintenanceGetsThrough ==
  maint.at # "idle" =>
    /\ maint'.at # maint.at => Old = {} \/ PurgeFails \/ pool' = "down"
    /\ \A s \in store \cap store' :
         row[s].age > maint.cutoff /\ maint'.at # "idle" => row'[s].age > maint'.cutoff
    /\ Purge /\ Old # {} => UNCHANGED maint /\ \E s \in Old : s \notin store'
    /\ store \ store' \subseteq Old

LEMMA StoredRows ==
  ASSUME IInv, NEW s \in store
  PROVE  s \in Slots /\ row[s] \in Row /\ row[s].age \in 0..MaxAge
  BY DEF IInv, TypeOK, Filled, Row

\* The rows in the store change with the clock only.
LEMMA RowsStay ==
  ASSUME IInv, [Next]_vars, ~Tick, pool' # "down" \/ pool = "down", NEW s \in store
  PROVE  row'[s] = row[s]
<1>1. s \in Slots /\ row[s] \in Row /\ row \in [Slots -> Row \cup {Blank}]
  BY StoredRows DEF IInv, TypeOK
<1>2. ASSUME Accept \/ Report
      PROVE  row'[s] = row[s]
  <2>1. Fresh # s
    BY <1>1, <1>2, FreshIsBlank, RowsAreNotBlank DEF Accept, Report
  <2>2. \A r \in Row : row' = [row EXCEPT ![Fresh] = r] => row'[s] = row[s]
    BY <1>1, <2>1
  <2>3. \A t \in Tables, ok \in BOOLEAN : [table |-> t, age |-> 0, ok |-> ok] \in Row
    BY StoreAssumption DEF Row
  <2> QED
    BY <1>2, <2>2, <2>3 DEF Accept, Report, Tables
<1>3. ASSUME WriteOne
      PROVE  row'[s] = row[s]
  <2>1. batch # <<>> /\ batch \in Seq(Slots)
    BY <1>3 DEF WriteOne, IInv, TypeOK, BatchShape
  <2>2. 1 \in 1..Len(batch) /\ Head(batch) = batch[1]
    BY <2>1
  <2>3. Head(batch) # s
    BY <2>2 DEF IInv, OnePlace
  <2> QED
    BY <1>1, <1>3, <2>3 DEF WriteOne, Forget
<1> QED
  BY <1>2, <1>3
     DEF Next, WriterStep, Receive, FlushTick, MaintStart, Purge, PurgeFails, Close, Exit,
         Boot, vars

LEMMA PurgeGetsThrough ==
  ASSUME IInv, Purge
  PROVE  /\ maint'.at # maint.at => Old = {}
         /\ maint'.cutoff = maint.cutoff \/ maint'.at = "idle"
         /\ Old # {} => UNCHANGED maint /\ \E s \in Old : s \notin store'
         /\ store \ store' \subseteq Old
<1>1. PICK gone \in Batches :
        /\ store' = store \ gone
        /\ IF gone = {} THEN NextTable ELSE UNCHANGED maint
  BY DEF Purge
<1>2. gone \subseteq Old /\ (gone = {} => Old = {})
  BY <1>1, StoreAssumption, FS_EmptySet DEF Batches
<1>3. maint \in [at : Tables \cup {"idle"}, cutoff : 0..MaxAge]
  BY DEF IInv, TypeOK
<1>4. maint'.cutoff = maint.cutoff \/ maint'.at = "idle"
  BY <1>1, <1>3 DEF NextTable, Idle
<1> QED
  BY <1>1, <1>2, <1>4 DEF Old

LEMMA MaintenanceStep == IInv /\ [Next]_vars => MaintenanceGetsThrough
<1> SUFFICES ASSUME IInv, [Next]_vars, maint.at # "idle"
             PROVE  /\ maint'.at # maint.at => Old = {} \/ PurgeFails \/ pool' = "down"
                    /\ \A s \in store \cap store' :
                         row[s].age > maint.cutoff /\ maint'.at # "idle"
                           => row'[s].age > maint'.cutoff
                    /\ Purge /\ Old # {} => UNCHANGED maint /\ \E s \in Old : s \notin store'
                    /\ store \ store' \subseteq Old
  BY DEF MaintenanceGetsThrough
<1>1. maint \in [at : Tables \cup {"idle"}, cutoff : 0..MaxAge]
  BY DEF IInv, TypeOK
<1>2. maint'.at # maint.at => Old = {} \/ PurgeFails \/ pool' = "down"
  <2>1. Tick => maint'.at = maint.at
    BY <1>1 DEF Tick
  <2> QED
    BY <2>1, PurgeGetsThrough
       DEF Next, WriterStep, Accept, Report, Receive, FlushTick, WriteOne, MaintStart, Close,
           Exit, Boot, vars
<1>3. ASSUME NEW s \in store, row[s].age > maint.cutoff, maint'.at # "idle"
      PROVE  row'[s].age > maint'.cutoff
  <2>1. s \in Slots /\ row[s] \in Row /\ row[s].age \in 0..MaxAge
    BY StoredRows
  <2>2. CASE Tick
    <3>1. s \notin purged
      BY DEF IInv, OnePlace
    <3>2. row'[s] = Older(row[s])
      BY <2>1, <2>2, <3>1 DEF Tick
    <3>3. row'[s].age = IF row[s].age = MaxAge THEN MaxAge ELSE row[s].age + 1
      BY <2>1, <3>2, RowsAreNotBlank DEF Older, Row
    <3>4. maint.cutoff < MaxAge - 1 /\ maint'.cutoff = maint.cutoff + 1
      BY <1>1, <2>2 DEF Tick
    <3> QED
      BY <1>1, <1>3, <2>1, <3>3, <3>4, StoreAssumption
  <2>3. CASE ~Tick
    <3>1. ~Exit
      BY <1>3 DEF Exit, Idle
    <3>2. pool' # "down" \/ pool = "down"
      BY <2>3, <3>1
         DEF Next, WriterStep, Accept, Report, Receive, FlushTick, WriteOne, MaintStart,
             Purge, PurgeFails, Close, Boot, vars
    <3>3. row'[s] = row[s]
      BY <2>3, <3>2, RowsStay
    <3>4. PurgeFails => maint'.cutoff = maint.cutoff
      BY <1>1, <1>3 DEF PurgeFails, NextTable, Idle
    <3>5. maint'.cutoff = maint.cutoff
      BY <1>3, <2>3, <3>1, <3>4, PurgeGetsThrough
         DEF Next, WriterStep, Accept, Report, Receive, FlushTick, WriteOne, MaintStart,
             Close, Boot, vars
    <3> QED
      BY <1>3, <3>3, <3>5
  <2> QED
    BY <2>2, <2>3
<1>4. store \ store' \subseteq Old
  BY PurgeGetsThrough
     DEF Next, WriterStep, Tick, Accept, Report, Receive, FlushTick, WriteOne, MaintStart,
         PurgeFails, Close, Exit, Boot, vars, queueVars
<1> QED
  BY <1>2, <1>3, <1>4, PurgeGetsThrough

(* The safety beneath OldRowsGo: a run of maintenance whose DELETEs do not *)
(* fail leaves no row of either table behind that was due, however small   *)
(* the batches.                                                            *)
THEOREM MaintenanceDeletesAll == Spec => [][MaintenanceGetsThrough]_vars
<1>1. Spec => []IInv
  BY InitHolds, Inductive, PTL DEF Spec
<1> QED
  BY <1>1, MaintenanceStep, PTL DEF Spec

-----------------------------------------------------------------------------
(* The service monitor, which fills the channel: ServiceSentinel under the *)
(* name Checks, with its own constants and variables but this ChannelCap.  *)

CONSTANTS Services, Initial, Targets, Interval, Permits, MaxWaiting

VARIABLES svc, healthy, waiting, running, backlog

Checks == INSTANCE ServiceSentinel

ServiceState ==
  [state : {"new", "on", "deleted"}, target : Targets, age : Checks!Ages, status : Checks!Status]

PermitState ==
  {Checks!Free}
    \cup [stage : {"checking"}, svc : Services, target : Targets]
    \cup [stage : {"record", "send"}, svc : Services, ok : BOOLEAN]

SvcTyped     == svc \in [Services -> ServiceState]
WaitingTyped == waiting \in Seq(Checks!Task) /\ Len(waiting) <= MaxWaiting
PermitsTyped == running \in [Permits -> PermitState]
BacklogTyped == backlog \in 0..ChannelCap
HealthTyped  == healthy \in [Targets -> BOOLEAN]

(* The parts of TypeOK.                                                    *)
LEMMA ChecksParts ==
  Checks!TypeOK <=> SvcTyped /\ HealthTyped /\ WaitingTyped /\ PermitsTyped /\ BacklogTyped
  BY DEF Checks!TypeOK, SvcTyped, HealthTyped, WaitingTyped, PermitsTyped, BacklogTyped,
         ServiceState, PermitState

LEMMA ChecksPartsNext ==
  ASSUME SvcTyped', HealthTyped', WaitingTyped', PermitsTyped', BacklogTyped'
  PROVE  Checks!TypeOK'
  BY DEF Checks!TypeOK, SvcTyped, HealthTyped, WaitingTyped, PermitsTyped, BacklogTyped,
         ServiceState, PermitState

(* Finite sets are the same in the instance.                               *)
LEMMA ChecksFinite ==
  \A S : Checks!IsFiniteSet(S) = IsFiniteSet(S)
  BY DEF Checks!IsFiniteSet, IsFiniteSet

LEMMA ChecksCardinality ==
  \A S : Checks!Cardinality(S) = Cardinality(S)
  BY DEF Checks!Cardinality, Cardinality

(* What the constants are, and ages that grow.                             *)
LEMMA ChecksNat ==
  ASSUME Checks!SentinelAssumption
  PROVE  /\ Interval \in Nat \ {0} /\ ChannelCap \in Nat \ {0} /\ MaxWaiting \in Nat
         /\ IsFiniteSet(Services)
         /\ \A n \in Checks!Ages : Checks!Older(n) \in Checks!Ages
         /\ 0 \in Checks!Ages /\ Interval \in Checks!Ages
<1>1. /\ Interval \in Nat \ {0} /\ ChannelCap \in Nat \ {0} /\ MaxWaiting \in Nat /\ IsFiniteSet(Services)
  BY ChecksFinite DEF Checks!SentinelAssumption
<1>2. \A n \in 0..Interval : (IF n < Interval THEN n + 1 ELSE n) \in 0..Interval
  BY <1>1
<1> QED
  BY <1>1, <1>2 DEF Checks!Older, Checks!Ages

LEMMA ChecksInit ==
  ASSUME Checks!SentinelAssumption, Checks!Init PROVE Checks!TypeOK
<1>1. SvcTyped
  BY ChecksNat DEF Checks!Init, SvcTyped, ServiceState, Checks!Status
<1>2. WaitingTyped
  BY ChecksNat, EmptySeq DEF Checks!Init, WaitingTyped
<1>3. HealthTyped /\ PermitsTyped /\ BacklogTyped
  BY ChecksNat DEF Checks!Init, HealthTyped, PermitsTyped, BacklogTyped, PermitState
<1> QED
  BY <1>1, <1>2, <1>3, ChecksParts

(* The tasks of a tick are for services there are.                         *)
LEMMA TickTyped ==
  ASSUME Checks!SentinelAssumption, Checks!TypeOK, Checks!Tick
  PROVE  SvcTyped' /\ WaitingTyped'
<1>1. SvcTyped'
  <2>1. ASSUME NEW s \in Services
        PROVE  [svc[s] EXCEPT !.age = Checks!Older(@)] \in ServiceState
    BY ChecksNat, ChecksParts DEF SvcTyped, ServiceState
  <2> QED
    BY <2>1 DEF Checks!Tick, SvcTyped
<1>2. WaitingTyped'
  <2>1. PICK q \in Checks!Orders(Checks!Due) :
          waiting' = waiting \o
            [n \in DOMAIN q |-> [svc |-> q[n], target |-> svc[q[n]].target]]
    BY DEF Checks!Tick
  <2>2. Checks!Due \subseteq Services
    BY DEF Checks!Due
  <2>3. Cardinality(Checks!Due) \in Nat
    BY <2>2, ChecksNat, FS_Subset, FS_CardinalityType
  <2>4. q \in [1..Cardinality(Checks!Due) -> Checks!Due]
    BY <2>1, ChecksCardinality DEF Checks!Orders
  <2> DEFINE new == [n \in DOMAIN q |-> [svc |-> q[n], target |-> svc[q[n]].target]]
  <2>5. ASSUME NEW n \in DOMAIN q
        PROVE  new[n] \in Checks!Task
    BY <2>2, <2>4, ChecksParts DEF SvcTyped, ServiceState, Checks!Task
  <2>6. new \in Seq(Checks!Task)
    <3> DEFINE k == Cardinality(Checks!Due)
    <3>1. new \in [1..k -> Checks!Task]
      BY <2>4, <2>5
    <3> HIDE DEF k, new
    <3> QED
      BY <2>3, <3>1, IsASeq DEF k
  <2>7. waiting' \in Seq(Checks!Task)
    <3> HIDE DEF new
    <3>1. waiting' = waiting \o new
      BY <2>1 DEF new
    <3> QED
      BY <2>6, <3>1, ChecksParts, ConcatProperties DEF WaitingTyped
  <2> QED
    BY <2>7 DEF WaitingTyped, Checks!Tick
<1> QED
  BY <1>1, <1>2

(* A permit goes from free to checking, record, send and free.             *)
LEMMA TaskTyped ==
  ASSUME Checks!SentinelAssumption, Checks!TypeOK, NEW p \in Permits, Checks!TaskStep(p)
  PROVE  Checks!TypeOK'
<1>1. SvcTyped /\ HealthTyped /\ WaitingTyped /\ PermitsTyped /\ BacklogTyped
  BY ChecksParts
<1>2. running[p] \in PermitState
  BY <1>1 DEF PermitsTyped
<1>3. CASE Checks!Acquire(p)
  <2>1. /\ Head(waiting) \in Checks!Task /\ Tail(waiting) \in Seq(Checks!Task)
        /\ Len(Tail(waiting)) = Len(waiting) - 1 /\ Len(waiting) \in Nat
    BY <1>1, <1>3, HeadTailProperties, LenProperties DEF WaitingTyped, Checks!Acquire
  <2>2. [stage |-> "checking", svc |-> Head(waiting).svc, target |-> Head(waiting).target]
          \in PermitState
    BY <2>1 DEF Checks!Task, PermitState
  <2>3. PermitsTyped'
    BY <1>1, <1>3, <2>2 DEF Checks!Acquire, PermitsTyped
  <2>4. WaitingTyped'
    BY <1>1, <1>3, <2>1, ChecksNat DEF Checks!Acquire, WaitingTyped
  <2> QED
    BY <1>1, <1>3, <2>3, <2>4, ChecksPartsNext
    DEF Checks!Acquire, SvcTyped, HealthTyped, BacklogTyped
<1>4. CASE Checks!Check(p)
  <2>1. running[p] \in [stage : {"checking"}, svc : Services, target : Targets]
    BY <1>2, <1>4 DEF Checks!Check, PermitState, Checks!Free
  <2>2. [stage |-> "record", svc |-> running[p].svc, ok |-> healthy[running[p].target]]
          \in PermitState
    BY <1>1, <2>1 DEF PermitState, HealthTyped
  <2>3. PermitsTyped'
    BY <1>1, <1>4, <2>2 DEF Checks!Check, PermitsTyped
  <2> QED
    BY <1>1, <1>4, <2>3, ChecksPartsNext
    DEF Checks!Check, SvcTyped, HealthTyped, WaitingTyped, BacklogTyped
<1>5. CASE Checks!Record(p)
  <2>1. running[p] \in [stage : {"record", "send"}, svc : Services, ok : BOOLEAN]
    BY <1>2, <1>5 DEF Checks!Record, PermitState, Checks!Free
  <2>2. [running[p] EXCEPT !.stage = "send"] \in PermitState
    BY <2>1 DEF PermitState
  <2>3. PermitsTyped'
    BY <1>1, <1>5, <2>2 DEF Checks!Record, PermitsTyped
  <2> DEFINE r == running[p]
             new == [svc[r.svc] EXCEPT !.age = 0, !.status = IF r.ok THEN "up" ELSE "down"]
  <2>4. new \in ServiceState
    <3>1. r.svc \in Services /\ svc[r.svc] \in ServiceState
      BY <1>1, <2>1 DEF SvcTyped
    <3>2. 0 \in Checks!Ages
      BY ChecksNat
    <3> QED
      BY <3>1, <3>2 DEF ServiceState, Checks!Status
  <2>5. svc' = svc \/ svc' = [svc EXCEPT ![r.svc] = new]
    BY <1>5 DEF Checks!Record
  <2>6. SvcTyped'
    <3> HIDE DEF new
    <3> QED
      BY <1>1, <2>4, <2>5 DEF SvcTyped
  <2> QED
    BY <1>1, <1>5, <2>3, <2>6, ChecksPartsNext
    DEF Checks!Record, HealthTyped, WaitingTyped, BacklogTyped
<1>6. CASE Checks!TrySend(p)
  <2>1. PermitsTyped'
    BY <1>1, <1>6 DEF Checks!TrySend, PermitsTyped, PermitState
  <2>2. BacklogTyped'
    BY <1>1, <1>6, ChecksNat DEF Checks!TrySend, BacklogTyped
  <2> QED
    BY <1>1, <1>6, <2>1, <2>2, ChecksPartsNext
    DEF Checks!TrySend, SvcTyped, HealthTyped, WaitingTyped
<1> QED
  BY <1>3, <1>4, <1>5, <1>6 DEF Checks!TaskStep

LEMMA AdminTyped ==
  ASSUME Checks!SentinelAssumption, Checks!TypeOK, Checks!AdminStep
  PROVE  SvcTyped'
<1>1. SvcTyped
  BY ChecksParts
<1>2. ASSUME NEW s \in Services, Checks!Delete(s) PROVE SvcTyped'
  <2>1. [svc[s] EXCEPT !.state = "deleted"] \in ServiceState
    BY <1>1 DEF SvcTyped, ServiceState
  <2> QED
    BY <1>1, <1>2, <2>1 DEF Checks!Delete, SvcTyped
<1>3. ASSUME NEW s \in Services, NEW t \in Targets, Checks!Create(s, t) PROVE SvcTyped'
  <2>1. [state |-> "on", target |-> t, age |-> Interval, status |-> "unknown"] \in ServiceState
    BY ChecksNat DEF ServiceState, Checks!Status
  <2> QED
    BY <1>1, <1>3, <2>1 DEF Checks!Create, SvcTyped
<1>4. ASSUME NEW s \in Services, NEW t \in Targets, Checks!Retarget(s, t) PROVE SvcTyped'
  <2>1. [svc[s] EXCEPT !.target = t] \in ServiceState
    BY <1>1 DEF SvcTyped, ServiceState
  <2> QED
    BY <1>1, <1>4, <2>1 DEF Checks!Retarget, SvcTyped
<1> QED
  BY <1>2, <1>3, <1>4 DEF Checks!AdminStep

LEMMA ChecksStep ==
  ASSUME Checks!SentinelAssumption, Checks!TypeOK, [Checks!Next]_Checks!vars
  PROVE  Checks!TypeOK'
<1>1. SvcTyped /\ HealthTyped /\ WaitingTyped /\ PermitsTyped /\ BacklogTyped
  BY ChecksParts
<1>2. CASE Checks!Tick
  BY <1>1, <1>2, TickTyped, ChecksPartsNext
  DEF Checks!Tick, HealthTyped, PermitsTyped, BacklogTyped
<1>3. ASSUME NEW p \in Permits, Checks!TaskStep(p) PROVE Checks!TypeOK'
  BY <1>3, TaskTyped
<1>4. CASE Checks!Receive
  <2>1. BacklogTyped'
    BY <1>1, <1>4, ChecksNat DEF Checks!Receive, BacklogTyped
  <2> QED
    BY <1>1, <1>4, <2>1, ChecksPartsNext
    DEF Checks!Receive, SvcTyped, HealthTyped, WaitingTyped, PermitsTyped
<1>5. CASE Checks!AdminStep
  <2>1. UNCHANGED <<healthy, waiting, running, backlog>>
    BY <1>5 DEF Checks!AdminStep, Checks!Delete, Checks!Create, Checks!Retarget
  <2> QED
    BY <1>1, <1>5, <2>1, AdminTyped, ChecksPartsNext
    DEF HealthTyped, WaitingTyped, PermitsTyped, BacklogTyped
<1>6. ASSUME NEW t \in Targets, Checks!TargetFlips(t) PROVE Checks!TypeOK'
  <2>1. HealthTyped'
    BY <1>1, <1>6 DEF Checks!TargetFlips, HealthTyped
  <2> QED
    BY <1>1, <1>6, <2>1, ChecksPartsNext
    DEF Checks!TargetFlips, SvcTyped, WaitingTyped, PermitsTyped, BacklogTyped
<1>7. CASE UNCHANGED Checks!vars
  BY <1>7 DEF Checks!vars, Checks!TypeOK
<1> QED
  BY <1>2, <1>3, <1>4, <1>5, <1>6, <1>7 DEF Checks!Next

(* No step changes the state of a service that is deleted.                 *)
LEMMA DeletedStep ==
  ASSUME Checks!TypeOK, [Checks!Next]_Checks!vars,
         NEW s \in Services, svc[s].state = "deleted"
  PROVE  svc'[s].state = "deleted"
<1>1. svc \in [Services -> ServiceState]
  BY ChecksParts DEF SvcTyped
<1>2. CASE Checks!Tick
  <2>1. svc'[s] = [svc[s] EXCEPT !.age = Checks!Older(@)]
    BY <1>2 DEF Checks!Tick
  <2> QED
    BY <1>1, <2>1 DEF ServiceState
<1>3. ASSUME NEW p \in Permits, Checks!TaskStep(p) PROVE svc'[s] = svc[s]
  <2>1. CASE Checks!Record(p)
    <3> DEFINE v == running[p].svc
    <3>1. svc' = svc \/ (svc[v].state = "on" /\
            svc' = [svc EXCEPT ![v] =
                     [svc[v] EXCEPT !.age = 0,
                                    !.status = IF running[p].ok THEN "up" ELSE "down"]])
      BY <2>1 DEF Checks!Record
    <3> QED
      BY <1>1, <3>1
  <2>2. CASE Checks!Acquire(p) \/ Checks!Check(p) \/ Checks!TrySend(p)
    BY <2>2 DEF Checks!Acquire, Checks!Check, Checks!TrySend
  <2> QED
    BY <1>3, <2>1, <2>2 DEF Checks!TaskStep
<1>4. CASE Checks!AdminStep
  BY <1>1, <1>4 DEF Checks!AdminStep, Checks!Delete, Checks!Create, Checks!Retarget
<1>5. CASE Checks!Receive \/ (\E t \in Targets : Checks!TargetFlips(t)) \/ UNCHANGED Checks!vars
  BY <1>5 DEF Checks!Receive, Checks!TargetFlips, Checks!vars
<1> QED
  BY <1>2, <1>3, <1>4, <1>5 DEF Checks!Next

(* The service monitor's variables keep their types: a permit is free or   *)
(* with one task, and the channel to the writer never exceeds its capacity *)
(* (try_send, sentinel.rs).                                                *)
THEOREM ChecksTypeCorrect ==
  ASSUME Checks!SentinelAssumption PROVE Checks!Spec => []Checks!TypeOK
<1>1. Checks!Init => Checks!TypeOK
  BY ChecksInit
<1>2. Checks!TypeOK /\ [Checks!Next]_Checks!vars => Checks!TypeOK'
  BY ChecksStep
<1> QED
  BY <1>1, <1>2, PTL DEF Checks!Spec

(* A check that ends after its service was deleted does not bring the      *)
(* service back, whatever checks, ticks and edits come in between.         *)
THEOREM DeletedServicesStayDeleted ==
  ASSUME Checks!SentinelAssumption PROVE Checks!Spec => Checks!DeletedStaysDeleted
<1>1. Checks!TypeOK /\ [Checks!Next]_Checks!vars
        => [\A s \in Services : svc[s].state = "deleted"
              => svc'[s].state = "deleted"]_Checks!vars
  BY DeletedStep
<1> QED
  BY <1>1, ChecksTypeCorrect, PTL DEF Checks!Spec, Checks!DeletedStaysDeleted

-----------------------------------------------------------------------------
(* Safety beneath DueIsChecked: who checks a service that is due.          *)

\* A task for it waits for a permit, or has one and not yet set last_check.
OnItsWay(s) ==
  \/ \E n \in 1..Len(waiting) : waiting[n].svc = s
  \/ \E p \in Permits : running[p].stage \in {"checking", "record"} /\ running[p].svc = s

IsDue(s) == svc[s].state = "on" /\ svc[s].age = Interval

(* A service that was checked and is due again has a task on its way.      *)
DueIsUnderway ==
  \A s \in Services : IsDue(s) /\ svc[s].status # "unknown" => OnItsWay(s)

(* A tick gives every service that is due a task, and the task is there    *)
(* until the service is checked or deleted: no edit, no full channel and   *)
(* no other check loses it.                                                *)
DueStaysUnderway ==
  \A s \in Services : Checks!Tick \/ OnItsWay(s) => (IsDue(s)' => OnItsWay(s)')

LEMMA TickQueues ==
  ASSUME Checks!SentinelAssumption, Checks!TypeOK, Checks!Tick,
         NEW s \in Services, IsDue(s)'
  PROVE  OnItsWay(s)'
<1>1. svc \in [Services -> ServiceState] /\ waiting \in Seq(Checks!Task)
  BY ChecksParts DEF SvcTyped, WaitingTyped
<1>2. s \in Checks!Due
  <2>1. svc'[s] = [svc[s] EXCEPT !.age = Checks!Older(@)]
    BY DEF Checks!Tick
  <2> QED
    BY <1>1, <2>1 DEF ServiceState, IsDue, Checks!Due
<1>3. PICK q \in Checks!Orders(Checks!Due) :
        waiting' = waiting \o
          [n \in DOMAIN q |-> [svc |-> q[n], target |-> svc[q[n]].target]]
  BY DEF Checks!Tick
<1> DEFINE k   == Cardinality(Checks!Due)
           new == [n \in DOMAIN q |-> [svc |-> q[n], target |-> svc[q[n]].target]]
<1>4. k \in Nat
  BY ChecksNat, FS_Subset, FS_CardinalityType DEF Checks!Due
<1>5. DOMAIN q = 1..k
  BY <1>3, ChecksCardinality DEF Checks!Orders
<1>6. PICK n \in 1..k : new[n].svc = s
  BY <1>2, <1>3, <1>5 DEF Checks!Orders
<1>7. new \in Seq(Range(new)) /\ Len(new) = k
  <2>1. new \in [1..k -> Range(new)]
    BY <1>5 DEF Range
  <2> HIDE DEF new, k
  <2> QED
    BY <1>4, <2>1, IsASeq
<1> HIDE DEF new, k
<1>8. /\ Len(waiting) + n \in 1..Len(waiting \o new)
      /\ (waiting \o new)[Len(waiting) + n] = new[n]
  BY <1>1, <1>4, <1>7
<1>9. waiting' = waiting \o new
  BY <1>3 DEF new
<1> QED
  BY <1>6, <1>8, <1>9 DEF OnItsWay

(* A task goes on its way until it sets last_check.                        *)
LEMMA TaskGoesOn ==
  ASSUME Checks!SentinelAssumption, Checks!TypeOK, NEW p \in Permits, Checks!TaskStep(p),
         NEW s \in Services, OnItsWay(s), IsDue(s)'
  PROVE  OnItsWay(s)'
<1>1. /\ svc \in [Services -> ServiceState] /\ waiting \in Seq(Checks!Task)
      /\ running \in [Permits -> PermitState]
  BY ChecksParts DEF SvcTyped, WaitingTyped, PermitsTyped
<1>2. ASSUME NEW q \in Permits, running'[q].stage \in {"checking", "record"}, running'[q].svc = s
      PROVE  OnItsWay(s)'
  BY <1>2 DEF OnItsWay
<1>3. CASE \E q \in Permits \ {p} :
             running[q].stage \in {"checking", "record"} /\ running[q].svc = s
  <2>1. \A q \in Permits \ {p} : running'[q] = running[q]
    BY <1>1 DEF Checks!TaskStep, Checks!Acquire, Checks!Check, Checks!Record, Checks!TrySend
  <2> QED
    BY <1>2, <1>3, <2>1
<1>4. CASE Checks!Acquire(p)
  <2>1. running[p].stage = "free"
    BY <1>4 DEF Checks!Acquire, Checks!Free
  <2>2. CASE \E n \in 1..Len(waiting) : waiting[n].svc = s
    <3>1. PICK n \in 1..Len(waiting) : waiting[n].svc = s
      BY <2>2
    <3>2. CASE n = 1
      <4>1. running'[p].stage = "checking" /\ running'[p].svc = s
        BY <1>1, <1>4, <3>1, <3>2 DEF Checks!Acquire
      <4> QED
        BY <1>2, <4>1
    <3>3. CASE n # 1
      <4>1. n - 1 \in 1..Len(Tail(waiting)) /\ Tail(waiting)[n - 1] = waiting[n]
        BY <1>1, <3>3
      <4>2. waiting' = Tail(waiting)
        BY <1>4 DEF Checks!Acquire
      <4> QED
        BY <3>1, <4>1, <4>2 DEF OnItsWay
    <3> QED
      BY <3>2, <3>3
  <2> QED
    BY <1>3, <2>1, <2>2 DEF OnItsWay
<1>5. CASE ~Checks!Acquire(p)
  <2>1. waiting' = waiting
    BY <1>5 DEF Checks!TaskStep, Checks!Check, Checks!Record, Checks!TrySend
  <2>2. CASE \E n \in 1..Len(waiting) : waiting[n].svc = s
    BY <2>1, <2>2 DEF OnItsWay
  <2>3. CASE running[p].stage \in {"checking", "record"} /\ running[p].svc = s
    <3>1. CASE Checks!Check(p)
      <4>1. running'[p].stage = "record" /\ running'[p].svc = s
        BY <1>1, <2>3, <3>1 DEF Checks!Check
      <4> QED
        BY <1>2, <4>1
    <3>2. CASE Checks!Record(p)
      <4>1. svc[s].state = "on" => svc'[s].age = 0
        BY <1>1, <2>3, <3>2 DEF Checks!Record, ServiceState
      <4>2. svc[s].state # "on" => svc'[s].state # "on"
        BY <2>3, <3>2 DEF Checks!Record
      <4> QED
        BY <4>1, <4>2, ChecksNat DEF IsDue
    <3> QED
      BY <1>5, <2>3, <3>1, <3>2 DEF Checks!TaskStep, Checks!TrySend
  <2> QED
    BY <1>3, <2>2, <2>3 DEF OnItsWay
<1> QED
  BY <1>4, <1>5

LEMMA DueStep ==
  ASSUME Checks!SentinelAssumption, Checks!TypeOK, [Checks!Next]_Checks!vars
  PROVE  DueStaysUnderway
<1> SUFFICES ASSUME NEW s \in Services, Checks!Tick \/ OnItsWay(s), IsDue(s)'
             PROVE  OnItsWay(s)'
  BY DEF DueStaysUnderway
<1>1. CASE Checks!Tick
  BY <1>1, TickQueues
<1>2. CASE OnItsWay(s) /\ \E p \in Permits : Checks!TaskStep(p)
  BY <1>2, TaskGoesOn
<1>3. CASE OnItsWay(s) /\ UNCHANGED <<waiting, running>>
  BY <1>3 DEF OnItsWay
<1>4. Checks!Tick \/ (\E p \in Permits : Checks!TaskStep(p)) \/ UNCHANGED <<waiting, running>>
  BY DEF Checks!Next, Checks!Receive, Checks!AdminStep, Checks!Delete, Checks!Create,
         Checks!Retarget, Checks!TargetFlips, Checks!vars
<1> QED
  BY <1>1, <1>2, <1>3, <1>4

(* Between two ticks no service becomes due but one that is new.           *)
LEMMA DueSinceTick ==
  ASSUME Checks!SentinelAssumption, Checks!TypeOK, [Checks!Next]_Checks!vars, ~Checks!Tick,
         NEW s \in Services, IsDue(s)', svc'[s].status # "unknown"
  PROVE  IsDue(s) /\ svc[s].status # "unknown"
<1>1. svc \in [Services -> ServiceState] /\ running \in [Permits -> PermitState]
  BY ChecksParts DEF SvcTyped, PermitsTyped
<1>2. ASSUME NEW p \in Permits, Checks!TaskStep(p) PROVE svc'[s] = svc[s]
  <2>1. CASE Checks!Record(p)
    <3> DEFINE v == running[p].svc
    <3>1. svc' = svc \/ (svc' = [svc EXCEPT ![v] =
                     [svc[v] EXCEPT !.age = 0,
                                    !.status = IF running[p].ok THEN "up" ELSE "down"]])
      BY <2>1 DEF Checks!Record
    <3>2. ASSUME v = s, svc' # svc
          PROVE  svc'[s].age = 0
      <4>1. svc'[s] = [svc[s] EXCEPT !.age = 0,
                                     !.status = IF running[p].ok THEN "up" ELSE "down"]
        BY <1>1, <3>1, <3>2
      <4> QED
        BY <1>1, <4>1 DEF ServiceState
    <3>3. svc'[s].age # 0
      BY ChecksNat DEF IsDue
    <3> QED
      BY <1>1, <3>1, <3>2, <3>3
  <2>2. CASE Checks!Acquire(p) \/ Checks!Check(p) \/ Checks!TrySend(p)
    BY <2>2 DEF Checks!Acquire, Checks!Check, Checks!TrySend
  <2> QED
    BY <1>2, <2>1, <2>2 DEF Checks!TaskStep
<1>3. ASSUME NEW v \in Services, Checks!Delete(v) PROVE svc'[s] = svc[s]
  BY <1>1, <1>3 DEF Checks!Delete, IsDue, ServiceState
<1>4. ASSUME NEW v \in Services, NEW t \in Targets, Checks!Create(v, t) PROVE svc'[s] = svc[s]
  BY <1>1, <1>4 DEF Checks!Create
<1>5. ASSUME NEW v \in Services, NEW t \in Targets, Checks!Retarget(v, t)
      PROVE  IsDue(s) /\ svc[s].status # "unknown"
  BY <1>1, <1>5 DEF Checks!Retarget, IsDue, ServiceState
<1>6. CASE Checks!Receive \/ (\E t \in Targets : Checks!TargetFlips(t)) \/ UNCHANGED Checks!vars
  BY <1>6 DEF Checks!Receive, Checks!TargetFlips, Checks!vars, IsDue
<1>7. svc'[s] = svc[s] => IsDue(s) /\ svc[s].status # "unknown"
  BY DEF IsDue
<1> QED
  BY <1>2, <1>3, <1>4, <1>5, <1>6, <1>7 DEF Checks!Next, Checks!AdminStep

(* Every service that was ever checked and is due has a task on its way,   *)
(* however the checks overlap and whatever administrators edit.            *)
THEOREM DueServicesHaveTasks ==
  ASSUME Checks!SentinelAssumption PROVE Checks!Spec => []DueIsUnderway
<1>1. Checks!Init => DueIsUnderway
  BY DEF Checks!Init, DueIsUnderway
<1>2. Checks!TypeOK /\ DueIsUnderway /\ [Checks!Next]_Checks!vars => DueIsUnderway'
  <2> SUFFICES ASSUME Checks!TypeOK, DueIsUnderway, [Checks!Next]_Checks!vars,
                      NEW s \in Services, IsDue(s)', svc'[s].status # "unknown"
               PROVE  OnItsWay(s)'
    BY DEF DueIsUnderway
  <2>1. CASE Checks!Tick
    BY <2>1, TickQueues
  <2>2. CASE ~Checks!Tick
    <3>1. OnItsWay(s)
      BY <2>2, DueSinceTick DEF DueIsUnderway
    <3> QED
      BY <3>1, DueStep DEF DueStaysUnderway
  <2> QED
    BY <2>1, <2>2
<1> QED
  BY <1>1, <1>2, ChecksTypeCorrect, PTL DEF Checks!Spec

(* And what the scheduler spawned stays underway until the check has ended.*)
THEOREM TasksStayUnderway ==
  ASSUME Checks!SentinelAssumption PROVE Checks!Spec => [][DueStaysUnderway]_Checks!vars
<1>1. Checks!TypeOK /\ [Checks!Next]_Checks!vars => [DueStaysUnderway]_Checks!vars
  BY DueStep
<1> QED
  BY <1>1, ChecksTypeCorrect, PTL DEF Checks!Spec

-----------------------------------------------------------------------------
(* Safety beneath StatusConverges: late results run out.                   *)

\* What a service shows is what its target is.
Right(s) == svc[s].status = IF healthy[svc[s].target] THEN "up" ELSE "down"

\* A task that was spawned for a target the service has no more.
Behind(task, s) == task.svc = s /\ task.target # svc[s].target

\* A check of such a target, or a result that is true no more.
Late(p, s) ==
  \/ running[p].stage = "checking" /\ Behind(running[p], s)
  \/ /\ running[p].stage = "record" /\ running[p].svc = s
     /\ running[p].ok # healthy[svc[s].target]

Settled(s) ==
  /\ svc[s].state = "on" /\ UNCHANGED svc[s].target
  /\ healthy'[svc[s].target] = healthy[svc[s].target]

(* While a service keeps its target and the target its health, no task     *)
(* falls behind and none becomes late but one that was spawned for an      *)
(* earlier target; what is shown becomes wrong only by a late result,      *)
(* which is then used up, and right by every result that is not late.      *)
LateRunsOut ==
  \A s \in Services : Settled(s) =>
    /\ \E k \in 0..1 : \A n \in 1..Len(waiting') : Behind(waiting[n], s)' =>
         n + k \in 1..Len(waiting) /\ waiting'[n] = waiting[n + k]
    /\ \A p \in Permits : Late(p, s)' =>
         Late(p, s) \/ (Checks!Acquire(p) /\ Behind(Head(waiting), s))
    /\ Right(s) /\ ~Right(s)' => \E p \in Permits : Late(p, s) /\ ~Late(p, s)'
    /\ \A p \in Permits : Checks!Record(p) /\ running[p].svc = s /\ ~Late(p, s) => Right(s)'

(* A tick queues tasks for the targets the services have, at the end.      *)
LEMMA TickIsUpToDate ==
  ASSUME Checks!SentinelAssumption, Checks!TypeOK, Checks!Tick, NEW s \in Services
  PROVE  /\ svc'[s].target = svc[s].target /\ svc'[s].status = svc[s].status
         /\ \A n \in 1..Len(waiting') : Behind(waiting[n], s)' =>
              n \in 1..Len(waiting) /\ waiting'[n] = waiting[n]
<1>1. svc \in [Services -> ServiceState] /\ waiting \in Seq(Checks!Task)
  BY ChecksParts DEF SvcTyped, WaitingTyped
<1>2. svc'[s].target = svc[s].target /\ svc'[s].status = svc[s].status
  <2>1. svc'[s] = [svc[s] EXCEPT !.age = Checks!Older(@)]
    BY DEF Checks!Tick
  <2> QED
    BY <1>1, <2>1 DEF ServiceState
<1>3. PICK q \in Checks!Orders(Checks!Due) :
        waiting' = waiting \o
          [n \in DOMAIN q |-> [svc |-> q[n], target |-> svc[q[n]].target]]
  BY DEF Checks!Tick
<1> DEFINE k   == Cardinality(Checks!Due)
           new == [n \in DOMAIN q |-> [svc |-> q[n], target |-> svc[q[n]].target]]
<1>4. k \in Nat
  BY ChecksNat, FS_Subset, FS_CardinalityType DEF Checks!Due
<1>5. DOMAIN q = 1..k
  BY <1>3, ChecksCardinality DEF Checks!Orders
<1>6. \A n \in 1..k : new[n].svc = s => new[n].target = svc[s].target
  BY <1>5
<1>7. new \in Seq(Range(new)) /\ Len(new) = k
  <2>1. new \in [1..k -> Range(new)]
    BY <1>5 DEF Range
  <2> HIDE DEF new, k
  <2> QED
    BY <1>4, <2>1, IsASeq
<1> HIDE DEF new, k
<1>8. waiting' = waiting \o new
  BY <1>3 DEF new
<1>9. ASSUME NEW n \in 1..Len(waiting')
      PROVE  \/ n \in 1..Len(waiting) /\ waiting'[n] = waiting[n]
             \/ n - Len(waiting) \in 1..k /\ waiting'[n] = new[n - Len(waiting)]
  BY <1>1, <1>4, <1>7, <1>8
<1>10. ASSUME NEW n \in 1..Len(waiting'), waiting'[n].svc = s,
              waiting'[n].target # svc'[s].target
       PROVE  n \in 1..Len(waiting) /\ waiting'[n] = waiting[n]
  BY <1>2, <1>6, <1>9, <1>10
<1> QED
  BY <1>2, <1>10 DEF Behind

LEMMA LateTask ==
  ASSUME Checks!SentinelAssumption, Checks!TypeOK, NEW p \in Permits, Checks!TaskStep(p),
         NEW s \in Services, Settled(s)
  PROVE  /\ \E k \in 0..1 : \A n \in 1..Len(waiting') : Behind(waiting[n], s)' =>
              n + k \in 1..Len(waiting) /\ waiting'[n] = waiting[n + k]
         /\ \A q \in Permits : Late(q, s)' =>
              Late(q, s) \/ (Checks!Acquire(q) /\ Behind(Head(waiting), s))
         /\ Right(s) /\ ~Right(s)' => Late(p, s) /\ ~Late(p, s)'
         /\ Checks!Record(p) /\ running[p].svc = s /\ ~Late(p, s) => Right(s)'
<1>1. /\ svc \in [Services -> ServiceState] /\ waiting \in Seq(Checks!Task)
      /\ running \in [Permits -> PermitState]
  BY ChecksParts DEF SvcTyped, WaitingTyped, PermitsTyped
<1>2. svc'[s].target = svc[s].target /\ svc[s].state = "on"
      /\ healthy'[svc[s].target] = healthy[svc[s].target]
  BY DEF Settled
<1>3. \A q \in Permits \ {p} : running'[q] = running[q]
  BY <1>1 DEF Checks!TaskStep, Checks!Acquire, Checks!Check, Checks!Record, Checks!TrySend
<1>4. \A q \in Permits \ {p} : Late(q, s)' => Late(q, s)
  BY <1>2, <1>3 DEF Late, Behind
<1>5. CASE Checks!Acquire(p)
  <2>1. waiting' = Tail(waiting) /\ waiting # <<>>
    BY <1>5 DEF Checks!Acquire
  <2>2. \A n \in 1..Len(waiting') : n + 1 \in 1..Len(waiting) /\ waiting'[n] = waiting[n + 1]
    BY <1>1, <2>1
  <2>3. /\ running'[p].stage = "checking" /\ running'[p].svc = Head(waiting).svc
        /\ running'[p].target = Head(waiting).target
    BY <1>1, <1>5 DEF Checks!Acquire
  <2>4. Late(p, s)' => Behind(Head(waiting), s)
    BY <1>2, <2>3 DEF Late, Behind
  <2>5. Right(s)' <=> Right(s)
    BY <1>5 DEF Checks!Acquire, Right
  <2>6. ~Checks!Record(p)
    BY <1>5 DEF Checks!Acquire, Checks!Record, Checks!Free
  <2>7. 1 \in 0..1
    OBVIOUS
  <2> QED
    BY <1>4, <1>5, <2>2, <2>4, <2>5, <2>6, <2>7
<1>6. CASE ~Checks!Acquire(p)
  <2>1. waiting' = waiting
    BY <1>6 DEF Checks!TaskStep, Checks!Check, Checks!Record, Checks!TrySend
  <2>2. \E k \in 0..1 : \A n \in 1..Len(waiting') : Behind(waiting[n], s)' =>
          n + k \in 1..Len(waiting) /\ waiting'[n] = waiting[n + k]
    <3>1. \A n \in 1..Len(waiting') : n + 0 \in 1..Len(waiting) /\ waiting'[n] = waiting[n + 0]
      BY <1>1, <2>1
    <3> QED
      BY <3>1
  <2>3. CASE Checks!Check(p)
    <3>1. running[p].stage = "checking" /\ UNCHANGED <<svc, healthy>>
      BY <2>3 DEF Checks!Check
    <3>2. /\ running'[p].stage = "record" /\ running'[p].svc = running[p].svc
          /\ running'[p].ok = healthy[running[p].target]
      BY <1>1, <2>3 DEF Checks!Check
    <3>3. Late(p, s)' => Late(p, s)
      BY <3>1, <3>2 DEF Late, Behind
    <3>4. (Right(s)' <=> Right(s)) /\ ~Checks!Record(p)
      BY <3>1 DEF Right, Checks!Record
    <3> QED
      BY <1>4, <2>2, <3>3, <3>4
  <2>4. CASE Checks!Record(p)
    <3>1. /\ running[p] \in [stage : {"record", "send"}, svc : Services, ok : BOOLEAN]
          /\ running[p].stage = "record" /\ UNCHANGED healthy
      BY <1>1, <2>4 DEF Checks!Record, PermitState, Checks!Free
    <3>2. running'[p].stage = "send"
      BY <1>1, <2>4, <3>1 DEF Checks!Record
    <3>3. ~Late(p, s)'
      BY <3>2 DEF Late
    <3>4. running[p].svc # s => svc'[s] = svc[s]
      BY <1>1, <2>4 DEF Checks!Record
    <3>5. running[p].svc = s => svc'[s].status = IF running[p].ok THEN "up" ELSE "down"
      BY <1>1, <1>2, <2>4 DEF Checks!Record, ServiceState
    <3>6. running[p].svc # s => (Right(s)' <=> Right(s))
      BY <1>2, <3>1, <3>4 DEF Right
    <3>7. running[p].svc = s /\ running[p].ok = healthy[svc[s].target] => Right(s)'
      BY <1>2, <3>1, <3>5 DEF Right
    <3>8. running[p].svc = s /\ ~Late(p, s) => running[p].ok = healthy[svc[s].target]
      BY <3>1 DEF Late
    <3> QED
      BY <1>4, <2>2, <3>3, <3>6, <3>7, <3>8
  <2>5. CASE Checks!TrySend(p)
    <3>1. running[p].stage = "send" /\ running'[p].stage = "free" /\ UNCHANGED <<svc, healthy>>
      BY <1>1, <2>5 DEF Checks!TrySend, Checks!Free
    <3>2. ~Late(p, s)' /\ (Right(s)' <=> Right(s)) /\ ~Checks!Record(p)
      BY <3>1 DEF Late, Right, Checks!Record
    <3> QED
      BY <1>4, <2>2, <3>2
  <2> QED
    BY <1>6, <2>3, <2>4, <2>5 DEF Checks!TaskStep
<1> QED
  BY <1>5, <1>6

LEMMA LateStep ==
  ASSUME Checks!SentinelAssumption, Checks!TypeOK, [Checks!Next]_Checks!vars
  PROVE  LateRunsOut
<1> SUFFICES ASSUME NEW s \in Services, Settled(s)
             PROVE  /\ \E k \in 0..1 : \A n \in 1..Len(waiting') : Behind(waiting[n], s)' =>
                         n + k \in 1..Len(waiting) /\ waiting'[n] = waiting[n + k]
                    /\ \A p \in Permits : Late(p, s)' =>
                         Late(p, s) \/ (Checks!Acquire(p) /\ Behind(Head(waiting), s))
                    /\ Right(s) /\ ~Right(s)' => \E p \in Permits : Late(p, s) /\ ~Late(p, s)'
                    /\ \A p \in Permits :
                         Checks!Record(p) /\ running[p].svc = s /\ ~Late(p, s) => Right(s)'
  BY DEF LateRunsOut
<1>1. /\ svc \in [Services -> ServiceState] /\ waiting \in Seq(Checks!Task)
      /\ running \in [Permits -> PermitState]
  BY ChecksParts DEF SvcTyped, WaitingTyped, PermitsTyped
<1>2. svc'[s].target = svc[s].target /\ healthy'[svc[s].target] = healthy[svc[s].target]
  BY DEF Settled
<1>3. CASE \E p \in Permits : Checks!TaskStep(p)
  <2>1. PICK p \in Permits : Checks!TaskStep(p)
    BY <1>3
  <2>2. ASSUME NEW q \in Permits, Checks!Record(q)
        PROVE  q = p
    <3>1. running'[q].stage = "send" /\ running[q].stage = "record"
      BY <1>1, <2>2 DEF Checks!Record, PermitState, Checks!Free
    <3>2. \A r \in Permits \ {p} : running'[r] = running[r]
      BY <1>1, <2>1 DEF Checks!TaskStep, Checks!Acquire, Checks!Check, Checks!Record, Checks!TrySend
    <3> QED
      BY <3>1, <3>2
  <2>3. /\ Right(s) /\ ~Right(s)' => Late(p, s) /\ ~Late(p, s)'
        /\ Checks!Record(p) /\ running[p].svc = s /\ ~Late(p, s) => Right(s)'
    BY <2>1, LateTask
  <2> QED
    BY <2>1, <2>2, <2>3, LateTask
<1>4. ASSUME UNCHANGED running, svc'[s].status = svc[s].status
      PROVE  /\ \A p \in Permits : Late(p, s)' => Late(p, s)
             /\ Right(s)' <=> Right(s)
             /\ \A p \in Permits : ~Checks!Record(p)
  <2>1. \A p \in Permits : ~Checks!Record(p)
    BY <1>1, <1>4 DEF Checks!Record, PermitState, Checks!Free
  <2> QED
    BY <1>2, <1>4, <2>1 DEF Late, Behind, Right
<1>5. CASE Checks!Tick
  <2>1. svc'[s].status = svc[s].status /\ UNCHANGED running
    BY <1>5, TickIsUpToDate DEF Checks!Tick
  <2>2. \A n \in 1..Len(waiting') : Behind(waiting[n], s)' =>
          n + 0 \in 1..Len(waiting) /\ waiting'[n] = waiting[n + 0]
    <3>1. \A n \in 1..Len(waiting') : Behind(waiting[n], s)' =>
            n \in 1..Len(waiting) /\ waiting'[n] = waiting[n]
      BY <1>5, TickIsUpToDate
    <3>2. \A n \in Int : n + 0 = n
      OBVIOUS
    <3> QED
      BY <3>1, <3>2
  <2> QED
    BY <1>4, <2>1, <2>2
<1>6. CASE ~Checks!Tick /\ ~(\E p \in Permits : Checks!TaskStep(p))
  <2>1. UNCHANGED <<waiting, running>>
    BY <1>6 DEF Checks!Next, Checks!Receive, Checks!AdminStep, Checks!Delete, Checks!Create,
                Checks!Retarget, Checks!TargetFlips, Checks!vars
  <2>2. svc'[s].status = svc[s].status
    BY <1>1, <1>6
       DEF Settled, Checks!Next, Checks!Receive, Checks!AdminStep, Checks!Delete,
           Checks!Create, Checks!Retarget, Checks!TargetFlips, Checks!vars, ServiceState
  <2>3. \A n \in 1..Len(waiting') : n + 0 \in 1..Len(waiting) /\ waiting'[n] = waiting[n + 0]
    BY <1>1, <2>1
  <2> QED
    BY <1>4, <2>1, <2>2, <2>3
<1> QED
  BY <1>3, <1>5, <1>6

(* With DueServicesHaveTasks: a status that is wrong is put right by the   *)
(* next check, and a late one can undo that only as often as there are     *)
(* late ones left, of which there are never more.                          *)
THEOREM LateResultsRunOut ==
  ASSUME Checks!SentinelAssumption PROVE Checks!Spec => [][LateRunsOut]_Checks!vars
<1>1. Checks!TypeOK /\ [Checks!Next]_Checks!vars => [LateRunsOut]_Checks!vars
  BY LateStep
<1> QED
  BY <1>1, ChecksTypeCorrect, PTL DEF Checks!Spec
=============================================================================
