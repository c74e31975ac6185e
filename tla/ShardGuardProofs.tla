--------------------------- MODULE ShardGuardProofs ---------------------------
(***************************************************************************)
(* No deadlock on the shard locks but for two, for any number of requests, *)
(* shards and threads: of a registration with itself, and of the threads   *)
(* with a report or a registration that has slept with its guard.          *)
(*                                                                         *)
(* The argument is about the lock sequences alone: who holds a write lock  *)
(* takes no other lock (so it never waits for one); who holds a read lock  *)
(* and wants a write lock is a registration, and holds that of the last    *)
(* shard; and only reports and registrations sleep with a lock.  So a      *)
(* chain of tasks that wait on threads has at most two links.              *)
(***************************************************************************)
EXTENDS ShardGuard, FiniteSetTheorems, SequenceTheorems, TLAPS

Acquires(i) == i.op \in {"read", "write"}

\* What a lock sequence keeps to.
Tidy(c) ==
  /\ c \in Seq(Instruction)
  /\ \A k \in 1..Len(c) : \A i \in Held(c, k) : Acquires(c[k]) => c[i].op = "read"
  /\ \A k \in 1..Len(c) : \A i \in Held(c, k) :
       c[k].op = "write" => c[i].lock = Last /\ c \in Registrations
  /\ \A k \in 1..Len(c) :
       c[k].op = "await" /\ Held(c, k + 1) # {} => c \in Keepers
  /\ Held(c, Len(c) + 1) = {}

-----------------------------------------------------------------------------
(* Instructions.                                                           *)
LEMMA Instructions ==
  /\ Await \in Instruction
  /\ \A s \in Locks : /\ Read(s) \in Instruction
                      /\ Write(s) \in Instruction
                      /\ Drop(s) \in Instruction
  BY DEF Await, Read, Write, Drop, Instruction, Locks

LEMMA Fields ==
  /\ Await.op = "await"
  /\ \A s : /\ Read(s).op = "read" /\ Read(s).lock = s
            /\ Write(s).op = "write" /\ Write(s).lock = s
            /\ Drop(s).op = "drop" /\ Drop(s).lock = s
  BY DEF Await, Read, Write, Drop

(* A sequence that never writes, drops all it reads, and holds nothing when *)
(* it awaits is tidy.                                                      *)
LEMMA ReadersAreTidy ==
  ASSUME NEW c \in Seq(Instruction),
         \A i \in 1..Len(c) : c[i].op # "write",
         \A i \in 1..Len(c) : c[i].op = "read" => Dropped(c, i, Len(c) + 1),
         \A k \in 1..Len(c) : c[k].op = "await" => k = Len(c) \/ Held(c, k + 1) = {}
  PROVE  Tidy(c)
<1>1. \A k \in 1..Len(c) : \A i \in Held(c, k) : c[i].op = "read"
  BY DEF Held
<1>2. Held(c, Len(c) + 1) = {}
  BY DEF Held
<1> QED
  BY <1>1, <1>2 DEF Tidy

-----------------------------------------------------------------------------
(* The short sequences.                                                    *)
LEMMA ReportStateTidy ==
  ASSUME NEW s \in Shards, NEW c \in ReportState(s)
  PROVE  Tidy(c)
<1> USE Instructions, Fields DEF Locks
<1>1. CASE c = <<Write(s), Await, Drop(s)>>
  <2>1. /\ c \in Seq(Instruction) /\ Len(c) = 3
        /\ c[1] = Write(s) /\ c[2] = Await /\ c[3] = Drop(s)
    BY <1>1
  <2> HIDE DEF Locks
  <2>2. Held(c, 1) = {} /\ Held(c, 4) = {}
    BY <2>1 DEF Held, Dropped
  <2>3. \A k \in 1..3 : Acquires(c[k]) => k = 1
    BY <2>1 DEF Acquires
  <2>4. c \in Keepers
    BY DEF Keepers
  <2> QED
    BY <2>1, <2>2, <2>3, <2>4 DEF Tidy, Acquires
<1>2. CASE c = <<Write(s), Drop(s)>>
  <2>1. /\ c \in Seq(Instruction) /\ Len(c) = 2
        /\ c[1] = Write(s) /\ c[2] = Drop(s)
    BY <1>2
  <2>2. Held(c, 1) = {} /\ Held(c, 3) = {}
    BY <2>1 DEF Held, Dropped
  <2>3. \A k \in 1..2 : Acquires(c[k]) => k = 1
    BY <2>1 DEF Acquires
  <2> QED
    BY <2>1, <2>2, <2>3 DEF Tidy, Acquires
<1> QED
  BY <1>1, <1>2 DEF ReportState

LEMMA SetEntryTidy ==
  ASSUME NEW s \in Shards, NEW c \in SetEntry(s)
  PROVE  Tidy(c)
  BY ReportStateTidy DEF SetEntry, ReportState

LEMMA ContainsTidy ==
  ASSUME NEW s \in Shards, NEW c \in Contains(s)
  PROVE  Tidy(c)
<1>1. /\ c \in Seq(Instruction) /\ Len(c) = 2
      /\ c[1] = Read(s) /\ c[2] = Drop(s)
  <2>1. c = <<Read(s), Drop(s)>>
    BY DEF Contains
  <2> QED
    BY <2>1, Instructions DEF Locks
<1>2. \A i \in 1..Len(c) : c[i].op # "write"
  BY <1>1, Fields
<1>3. Dropped(c, 1, Len(c) + 1)
  BY <1>1, Fields DEF Dropped
<1>4. \A i \in 1..Len(c) : c[i].op = "read" => Dropped(c, i, Len(c) + 1)
  BY <1>1, <1>3, Fields
<1>5. \A k \in 1..Len(c) : c[k].op # "await"
  BY <1>1, Fields
<1> QED
  BY <1>1, <1>2, <1>4, <1>5, ReadersAreTidy

LEMMA ListServicesTidy ==
  ASSUME NEW s \in Shards, NEW c \in ListServices(s)
  PROVE  Tidy(c)
<1>1. /\ c \in Seq(Instruction) /\ Len(c) = 5
      /\ c[1] = Read(s) /\ c[2] = Drop(s)
      /\ c[3] = Read(Services) /\ c[4] = Drop(Services) /\ c[5] = Await
  <2>1. c = <<Read(s), Drop(s), Read(Services), Drop(Services), Await>>
    BY DEF ListServices
  <2> QED
    BY <2>1, Instructions DEF Locks
<1>2. \A i \in 1..Len(c) : c[i].op # "write"
  BY <1>1, Fields
<1>3. Dropped(c, 1, Len(c) + 1) /\ Dropped(c, 3, Len(c) + 1)
  BY <1>1, Fields DEF Dropped
<1>4. \A i \in 1..Len(c) : c[i].op = "read" => i \in {1, 3}
  BY <1>1, Fields
<1>5. \A i \in 1..Len(c) : c[i].op = "read" => Dropped(c, i, Len(c) + 1)
  BY <1>3, <1>4
<1>6. \A k \in 1..Len(c) : c[k].op = "await" => k = Len(c)
  BY <1>1, Fields
<1> QED
  BY <1>1, <1>2, <1>5, <1>6, ReadersAreTidy

LEMMA UpdateTidy ==
  ASSUME NEW s \in Locks, NEW c \in Update(s)
  PROVE  Tidy(c)
<1>1. /\ c \in Seq(Instruction) /\ Len(c) = 5
      /\ c[1] = Read(s) /\ c[2] = Drop(s) /\ c[3] = Await
      /\ c[4] = Write(s) /\ c[5] = Drop(s)
  <2>1. c = <<Read(s), Drop(s), Await, Write(s), Drop(s)>>
    BY DEF Update
  <2> QED
    BY <2>1, Instructions
<1>2. /\ Held(c, 1) = {} /\ Held(c, 4) = {} /\ Held(c, 6) = {}
  BY <1>1, Fields DEF Held, Dropped
<1>3. \A k \in 1..5 : Acquires(c[k]) => k \in {1, 4}
  BY <1>1, Fields DEF Acquires
<1>4. \A k \in 1..5 : c[k].op = "await" => k = 3
  BY <1>1, Fields
<1> QED
  BY <1>1, <1>2, <1>3, <1>4 DEF Tidy, Acquires

LEMMA DeleteTidy ==
  ASSUME NEW s \in Shards, NEW c \in Delete(s)
  PROVE  Tidy(c)
<1>1. /\ c \in Seq(Instruction) /\ Len(c) = 3
      /\ c[1] = Write(s) /\ c[2] = Drop(s) /\ c[3] = Await
  <2>1. c = <<Write(s), Drop(s), Await>>
    BY DEF Delete
  <2> QED
    BY <2>1, Instructions DEF Locks
<1>2. Held(c, 1) = {} /\ Held(c, 4) = {}
  BY <1>1, Fields DEF Held, Dropped
<1>3. \A k \in 1..3 : Acquires(c[k]) => k = 1
  BY <1>1, Fields DEF Acquires
<1>4. \A k \in 1..3 : c[k].op = "await" => k = 3
  BY <1>1, Fields
<1> QED
  BY <1>1, <1>2, <1>3, <1>4 DEF Tidy, Acquires

(* create, and the task of a check.                                        *)
LEMMA InsertTidy ==
  ASSUME NEW s \in Locks, NEW c, c = <<Await, Write(s), Drop(s)>>
  PROVE  Tidy(c)
<1>1. /\ c \in Seq(Instruction) /\ Len(c) = 3
      /\ c[1] = Await /\ c[2] = Write(s) /\ c[3] = Drop(s)
  BY Instructions
<1>2. Held(c, 2) = {} /\ Held(c, 4) = {}
  BY <1>1, Fields DEF Held, Dropped
<1>3. \A k \in 1..3 : Acquires(c[k]) => k = 2
  BY <1>1, Fields DEF Acquires
<1>4. \A k \in 1..3 : c[k].op = "await" => k = 1
  BY <1>1, Fields
<1> QED
  BY <1>1, <1>2, <1>3, <1>4 DEF Tidy, Acquires

-----------------------------------------------------------------------------
(* Iterations.                                                             *)

(* The step of an iteration at an odd place drops, at an even one reads.   *)
LEMMA ScanShape ==
  ASSUME NEW n \in Shards
  PROVE  /\ Scan((2 * n) - 1) \in Seq(Instruction)
         /\ Len(Scan((2 * n) - 1)) = (2 * n) - 1
         /\ Scan((2 * n) - 1)[1] = Read(1)
         /\ \A m \in 1..(n - 1) : /\ Scan((2 * n) - 1)[2 * m] = Read(m + 1)
                                 /\ Scan((2 * n) - 1)[(2 * m) + 1] = Drop(m)
<1>1. n \in Nat /\ n >= 1 /\ n <= Last /\ Last \in Nat
  BY GuardAssumption DEF Shards
<1> DEFINE len == (2 * n) - 1
           step(i) == IF i = 1 THEN Read(1)
                      ELSE IF i % 2 = 0 THEN Read((i \div 2) + 1) ELSE Drop(i \div 2)
<1>2. len \in Nat
  BY <1>1
<1>3. \A i \in 1..len : /\ i \div 2 \in Locks
                        /\ i % 2 = 0 => (i \div 2) + 1 \in Locks
  <2> SUFFICES ASSUME NEW i \in 1..len
               PROVE  i \div 2 \in Locks /\ (i % 2 = 0 => (i \div 2) + 1 \in Locks)
    OBVIOUS
  <2>1. i \in Nat /\ i <= (2 * n) - 1
    BY <1>2
  <2>2. i \div 2 \in Nat /\ i \div 2 <= n - 1
    BY <2>1, <1>1
  <2> QED
    BY <2>2, <1>1 DEF Locks, Shards, Services
<1>4. 1 \in Locks
  BY <1>1 DEF Locks, Shards
<1>5. \A i \in 1..len : step(i) \in Instruction
  BY <1>3, <1>4, Instructions
<1>6. Scan(len) = [i \in 1..len |-> step(i)]
  BY DEF Scan
<1> HIDE DEF step
<1>7. Scan(len) \in Seq(Instruction) /\ Len(Scan(len)) = len
  BY <1>2, <1>5, <1>6
<1>8. Scan(len)[1] = Read(1)
  BY <1>1, <1>6 DEF step
<1>9. \A m \in 1..(n - 1) : Scan(len)[2 * m] = Read(m + 1) /\ Scan(len)[(2 * m) + 1] = Drop(m)
  <2> SUFFICES ASSUME NEW m \in 1..(n - 1)
               PROVE  Scan(len)[2 * m] = Read(m + 1) /\ Scan(len)[(2 * m) + 1] = Drop(m)
    OBVIOUS
  <2>1. m \in Nat /\ m >= 1 /\ 2 * m \in 1..len /\ (2 * m) + 1 \in 1..len
    BY <1>1
  <2>2. /\ (2 * m) % 2 = 0 /\ (2 * m) \div 2 = m
        /\ ((2 * m) + 1) % 2 # 0 /\ ((2 * m) + 1) \div 2 = m
    BY <2>1
  <2>3. step(2 * m) = Read(m + 1) /\ step((2 * m) + 1) = Drop(m)
    BY <2>1, <2>2 DEF step
  <2> QED
    BY <1>6, <2>1, <2>3
<1> QED
  BY <1>7, <1>8, <1>9

(* Where the two kinds of step are.                                        *)
LEMMA ScanPlaces ==
  ASSUME NEW n \in Shards, NEW i \in 1..((2 * n) - 1)
  PROVE  \/ i = 1
         \/ \E m \in 1..(n - 1) : i = 2 * m \/ i = (2 * m) + 1
<1>1. n \in Nat /\ n >= 1 /\ i \in Nat
  BY GuardAssumption DEF Shards
<1>2. CASE i # 1
  <2>1. i \div 2 \in 1..(n - 1)
    BY <1>1, <1>2
  <2>2. i = 2 * (i \div 2) \/ i = (2 * (i \div 2)) + 1
    BY <1>1
  <2> QED
    BY <2>1, <2>2
<1> QED
  BY <1>2

(* An iteration only reads and drops; of what it reads only the last shard *)
(* is not dropped on the way.                                              *)
LEMMA ScanReads ==
  ASSUME NEW n \in Shards, NEW c, c = Scan((2 * n) - 1),
         NEW i \in 1..Len(c)
  PROVE  /\ c[i].op \in {"read", "drop"}
         /\ c[i].op = "read" => \/ c[i].lock = n
                               \/ \E j \in (i + 1)..Len(c) : c[j] = Drop(c[i].lock)
<1>1. n \in Nat /\ n >= 1
  BY GuardAssumption DEF Shards
<1>2. /\ Len(c) = (2 * n) - 1 /\ c[1] = Read(1)
      /\ \A m \in 1..(n - 1) : c[2 * m] = Read(m + 1) /\ c[(2 * m) + 1] = Drop(m)
  BY ScanShape
<1>3. CASE i = 1
  <2>1. CASE n = 1
    BY <1>2, <1>3, <2>1, Fields
  <2>2. CASE n # 1
    <3>1. 1 \in 1..(n - 1)
      BY <1>1, <2>2
    <3>2. c[(2 * 1) + 1] = Drop(1)
      BY <1>2, <3>1
    <3>3. 3 \in (i + 1)..Len(c)
      BY <1>1, <1>2, <1>3, <2>2
    <3> QED
      BY <1>2, <1>3, <3>2, <3>3, Fields
  <2> QED
    BY <2>1, <2>2
<1>4. ASSUME NEW m \in 1..(n - 1), i = 2 * m
      PROVE  /\ c[i].op \in {"read", "drop"}
             /\ c[i].op = "read" => \/ c[i].lock = n
                                   \/ \E j \in (i + 1)..Len(c) : c[j] = Drop(c[i].lock)
  <2>1. c[i] = Read(m + 1)
    BY <1>2, <1>4
  <2>2. CASE m + 1 = n
    BY <2>1, <2>2, Fields
  <2>3. CASE m + 1 # n
    <3>1. m + 1 \in 1..(n - 1)
      BY <1>1, <2>3
    <3>2. c[(2 * (m + 1)) + 1] = Drop(m + 1)
      BY <1>2, <3>1
    <3>3. (2 * (m + 1)) + 1 \in (i + 1)..Len(c)
      BY <1>1, <1>2, <1>4, <2>3
    <3> QED
      BY <2>1, <3>2, <3>3, Fields
  <2> QED
    BY <2>2, <2>3
<1>5. ASSUME NEW m \in 1..(n - 1), i = (2 * m) + 1
      PROVE  c[i].op = "drop"
  BY <1>2, <1>5, Fields
<1>6. i = 1 \/ \E m \in 1..(n - 1) : i = 2 * m \/ i = (2 * m) + 1
  BY <1>2, ScanPlaces
<1> QED
  BY <1>3, <1>4, <1>5, <1>6

\* Only reads, and drops every lock later on.
Reader(c) ==
  /\ c \in Seq(Instruction)
  /\ \A i \in 1..Len(c) :
       /\ c[i].op \in {"read", "drop"}
       /\ c[i].op = "read" => \E j \in (i + 1)..Len(c) : c[j] = Drop(c[i].lock)

LEMMA ReaderIsTidy ==
  ASSUME NEW c, Reader(c)
  PROVE  Tidy(c)
<1>1. /\ c \in Seq(Instruction)
      /\ \A i \in 1..Len(c) : c[i].op # "write" /\ c[i].op # "await"
  BY DEF Reader
<1>2. ASSUME NEW i \in 1..Len(c), c[i].op = "read"
      PROVE  Dropped(c, i, Len(c) + 1)
  <2>1. PICK j \in (i + 1)..Len(c) : c[j] = Drop(c[i].lock)
    BY <1>2 DEF Reader
  <2>2. Len(c) \in Nat
    BY <1>1
  <2>3. j \in (i + 1)..((Len(c) + 1) - 1)
    BY <2>1, <2>2
  <2> QED
    BY <2>1, <2>3, Fields DEF Dropped
<1> QED
  BY <1>1, <1>2, ReadersAreTidy

LEMMA ScanToReader ==
  ASSUME NEW n \in Shards
  PROVE  Reader(ScanTo(n))
<1> DEFINE b == Scan((2 * n) - 1)
           c == ScanTo(n)
<1>1. n \in Nat /\ n >= 1 /\ n \in Locks
  BY GuardAssumption DEF Shards, Locks
<1>2. b \in Seq(Instruction) /\ Len(b) = (2 * n) - 1
  BY ScanShape
<1>3. Drop(n) \in Instruction
  BY <1>1, Instructions
<1>4. c = Append(b, Drop(n))
  BY DEF ScanTo
<1> HIDE DEF b, c
<1>5. /\ c \in Seq(Instruction) /\ Len(c) = Len(b) + 1
      /\ \A i \in 1..Len(b) : c[i] = b[i]
      /\ c[Len(b) + 1] = Drop(n)
  BY <1>2, <1>3, <1>4
<1>6. ASSUME NEW i \in 1..Len(b)
      PROVE  /\ c[i].op \in {"read", "drop"}
             /\ c[i].op = "read" => \E j \in (i + 1)..Len(c) : c[j] = Drop(c[i].lock)
  <2>1. /\ b[i].op \in {"read", "drop"}
        /\ b[i].op = "read" => \/ b[i].lock = n
                              \/ \E j \in (i + 1)..Len(b) : b[j] = Drop(b[i].lock)
    BY ScanReads DEF b
  <2>2. c[i] = b[i]
    BY <1>5
  <2>3. ASSUME NEW j \in (i + 1)..Len(b), b[j] = Drop(b[i].lock)
        PROVE  j \in (i + 1)..Len(c) /\ c[j] = Drop(c[i].lock)
    BY <1>1, <1>2, <1>5, <2>2, <2>3
  <2>4. Len(b) + 1 \in (i + 1)..Len(c)
    BY <1>1, <1>2, <1>5
  <2> QED
    BY <1>5, <2>1, <2>2, <2>3, <2>4
<1>7. c[Len(b) + 1].op = "drop"
  BY <1>5, Fields
<1>8. \A i \in 1..Len(c) : i \in 1..Len(b) \/ i = Len(b) + 1
  BY <1>1, <1>2, <1>5
<1>9. Reader(c)
  BY <1>5, <1>6, <1>7, <1>8 DEF Reader
<1> QED
  BY <1>9 DEF c

LEMMA ConcatShape ==
  ASSUME NEW a \in Seq(Instruction), NEW b \in Seq(Instruction)
  PROVE  /\ a \o b \in Seq(Instruction)
         /\ Len(a \o b) = Len(a) + Len(b)
         /\ \A i \in 1..Len(a) : (a \o b)[i] = a[i]
         /\ \A i \in 1..Len(b) : (a \o b)[Len(a) + i] = b[i]
<1>1. Len(a) \in Nat /\ Len(b) \in Nat
  OBVIOUS
<1>2. /\ a \o b \in Seq(Instruction) /\ Len(a \o b) = Len(a) + Len(b)
      /\ \A i \in 1..(Len(a) + Len(b)) :
           (a \o b)[i] = IF i <= Len(a) THEN a[i] ELSE b[i - Len(a)]
  BY ConcatProperties
<1>3. \A i \in 1..Len(a) : (a \o b)[i] = a[i]
  BY <1>1, <1>2
<1>4. ASSUME NEW i \in 1..Len(b)
      PROVE  (a \o b)[Len(a) + i] = b[i]
  <2>1. /\ Len(a) + i \in 1..(Len(a) + Len(b)) /\ ~(Len(a) + i <= Len(a))
        /\ (Len(a) + i) - Len(a) = i
    BY <1>1
  <2> QED
    BY <1>2, <2>1
<1> QED
  BY <1>2, <1>3, <1>4

LEMMA SplitIndex ==
  ASSUME NEW m \in Nat, NEW n \in Nat, NEW i \in 1..(m + n)
  PROVE  i \in 1..m \/ \E k \in 1..n : i = m + k
<1>1. CASE i > m
  <2>1. i - m \in 1..n /\ i = m + (i - m)
    BY <1>1
  <2> QED
    BY <2>1
<1>2. CASE ~(i > m)
  BY <1>2
<1> QED
  BY <1>1, <1>2

LEMMA ReaderConcat ==
  ASSUME NEW a, NEW b, Reader(a), Reader(b)
  PROVE  Reader(a \o b)
<1> DEFINE c == a \o b
<1>1. a \in Seq(Instruction) /\ b \in Seq(Instruction)
  BY DEF Reader
<1>2. /\ c \in Seq(Instruction) /\ Len(c) = Len(a) + Len(b)
      /\ \A i \in 1..Len(a) : c[i] = a[i]
      /\ \A i \in 1..Len(b) : c[Len(a) + i] = b[i]
  BY <1>1, ConcatShape
<1>3. Len(a) \in Nat /\ Len(b) \in Nat
  BY <1>1
<1> HIDE DEF c
<1>4. ASSUME NEW i \in 1..Len(a)
      PROVE  /\ c[i].op \in {"read", "drop"}
             /\ c[i].op = "read" => \E j \in (i + 1)..Len(c) : c[j] = Drop(c[i].lock)
  <2>1. /\ a[i].op \in {"read", "drop"}
        /\ a[i].op = "read" => \E j \in (i + 1)..Len(a) : a[j] = Drop(a[i].lock)
    BY DEF Reader
  <2>2. \A j \in (i + 1)..Len(a) : j \in (i + 1)..Len(c) /\ j \in 1..Len(a)
    BY <1>2, <1>3
  <2> QED
    BY <1>2, <2>1, <2>2
<1>5. ASSUME NEW k \in 1..Len(b), NEW i, i = Len(a) + k
      PROVE  /\ c[i].op \in {"read", "drop"}
             /\ c[i].op = "read" => \E j \in (i + 1)..Len(c) : c[j] = Drop(c[i].lock)
  <2>1. /\ b[k].op \in {"read", "drop"}
        /\ b[k].op = "read" => \E j \in (k + 1)..Len(b) : b[j] = Drop(b[k].lock)
    BY DEF Reader
  <2>2. c[i] = b[k]
    BY <1>2, <1>5
  <2>3. ASSUME NEW j \in (k + 1)..Len(b), b[j] = Drop(b[k].lock)
        PROVE  Len(a) + j \in (i + 1)..Len(c) /\ c[Len(a) + j] = Drop(c[i].lock)
    <3>1. Len(a) + j \in (i + 1)..Len(c) /\ j \in 1..Len(b)
      BY <1>2, <1>3, <1>5
    <3> QED
      BY <1>2, <2>2, <2>3, <3>1
  <2> QED
    BY <2>1, <2>2, <2>3
<1>6. ASSUME NEW i \in 1..Len(c)
      PROVE  i \in 1..Len(a) \/ \E k \in 1..Len(b) : i = Len(a) + k
  <2>1. i \in 1..(Len(a) + Len(b))
    BY <1>2
  <2> QED
    BY <1>3, <2>1, SplitIndex
<1>7. Reader(c)
  BY <1>2, <1>4, <1>5, <1>6 DEF Reader
<1> QED
  BY <1>7 DEF c

(* A lock around an iteration.                                             *)
LEMMA ReaderWrap ==
  ASSUME NEW a, Reader(a), NEW s \in Locks
  PROVE  Reader(<<Read(s)>> \o a \o <<Drop(s)>>)
<1> DEFINE h == <<Read(s)>>
           d == <<Drop(s)>>
           b == h \o a
           c == b \o d
<1>1. /\ a \in Seq(Instruction)
      /\ h \in Seq(Instruction) /\ Len(h) = 1 /\ h[1] = Read(s)
      /\ d \in Seq(Instruction) /\ Len(d) = 1 /\ d[1] = Drop(s)
  BY Instructions DEF Reader
<1> HIDE DEF h, d
<1>2. /\ b \in Seq(Instruction) /\ Len(b) = 1 + Len(a)
      /\ \A i \in 1..1 : b[i] = h[i]
      /\ \A i \in 1..Len(a) : b[1 + i] = a[i]
  BY <1>1, ConcatShape
<1> HIDE DEF b
<1>3. /\ c \in Seq(Instruction) /\ Len(c) = Len(b) + 1
      /\ \A i \in 1..Len(b) : c[i] = b[i]
      /\ \A i \in 1..1 : c[Len(b) + i] = d[i]
  <2>1. b \in Seq(Instruction) /\ d \in Seq(Instruction) /\ Len(d) = 1
    BY <1>1, <1>2
  <2>2. /\ c \in Seq(Instruction) /\ Len(c) = Len(b) + Len(d)
        /\ \A i \in 1..Len(b) : c[i] = b[i]
        /\ \A i \in 1..Len(d) : c[Len(b) + i] = d[i]
    BY <2>1, ConcatShape
  <2> QED
    BY <2>1, <2>2
<1> HIDE DEF c
<1>4. Len(a) \in Nat /\ Len(c) = Len(a) + 2
  BY <1>1, <1>2, <1>3
<1>5. c[1] = Read(s) /\ c[Len(c)] = Drop(s)
  BY <1>1, <1>2, <1>3, <1>4
<1>6. \A k \in 1..Len(a) : c[1 + k] = a[k]
  BY <1>2, <1>3, <1>4
<1>7. /\ c[1].op = "read" /\ c[1].lock = s /\ c[Len(c)].op = "drop"
      /\ Len(c) \in (1 + 1)..Len(c)
  BY <1>4, <1>5, Fields
<1>8. ASSUME NEW k \in 1..Len(a), NEW i, i = 1 + k
      PROVE  /\ c[i].op \in {"read", "drop"}
             /\ c[i].op = "read" => \E j \in (i + 1)..Len(c) : c[j] = Drop(c[i].lock)
  <2>1. /\ a[k].op \in {"read", "drop"}
        /\ a[k].op = "read" => \E j \in (k + 1)..Len(a) : a[j] = Drop(a[k].lock)
    BY DEF Reader
  <2>2. c[i] = a[k]
    BY <1>6, <1>8
  <2>3. ASSUME NEW j \in (k + 1)..Len(a), a[j] = Drop(a[k].lock)
        PROVE  1 + j \in (i + 1)..Len(c) /\ c[1 + j] = Drop(c[i].lock)
    <3>1. 1 + j \in (i + 1)..Len(c) /\ j \in 1..Len(a)
      BY <1>4, <1>8
    <3> QED
      BY <1>6, <2>2, <2>3, <3>1
  <2> QED
    BY <2>1, <2>2, <2>3
<1>9. ASSUME NEW i \in 1..Len(c)
      PROVE  i = 1 \/ i = Len(c) \/ \E k \in 1..Len(a) : i = 1 + k
  <2>1. CASE i # 1 /\ i # Len(c)
    <3>1. i - 1 \in 1..Len(a) /\ i = 1 + (i - 1)
      BY <1>4, <2>1
    <3> QED
      BY <3>1
  <2> QED
    BY <2>1
<1>10. c[1].op \in {"read", "drop"} /\ \E j \in (1 + 1)..Len(c) : c[j] = Drop(c[1].lock)
  BY <1>5, <1>7
<1>11. Reader(c)
  BY <1>3, <1>7, <1>8, <1>9, <1>10 DEF Reader
<1> QED
  BY <1>11 DEF c, b, h, d

(* An await behind it.                                                     *)
LEMMA ReaderAwaitTidy ==
  ASSUME NEW a, Reader(a)
  PROVE  Tidy(a \o <<Await>>)
<1> DEFINE d == <<Await>>
           c == a \o d
<1>1. a \in Seq(Instruction) /\ Len(a) \in Nat
  BY DEF Reader
<1>2. d \in Seq(Instruction) /\ Len(d) = 1 /\ d[1] = Await
  BY Instructions
<1> HIDE DEF d
<1>3. /\ c \in Seq(Instruction) /\ Len(c) = Len(a) + Len(d)
      /\ \A i \in 1..Len(a) : c[i] = a[i]
      /\ \A i \in 1..Len(d) : c[Len(a) + i] = d[i]
  BY <1>1, <1>2, ConcatShape
<1> HIDE DEF c
<1>4. Len(c) = Len(a) + 1 /\ c[Len(c)].op = "await"
  BY <1>2, <1>3, Fields
<1>5. \A i \in 1..Len(c) : i \in 1..Len(a) \/ i = Len(c)
  BY <1>1, <1>4
<1>6. \A i \in 1..Len(a) : c[i].op \in {"read", "drop"}
  BY <1>3 DEF Reader
<1>7. ASSUME NEW i \in 1..Len(c), c[i].op = "read"
      PROVE  Dropped(c, i, Len(c) + 1)
  <2>1. i \in 1..Len(a) /\ c[i] = a[i]
    BY <1>3, <1>4, <1>5, <1>7
  <2>2. PICK j \in (i + 1)..Len(a) : a[j] = Drop(a[i].lock)
    BY <1>7, <2>1 DEF Reader
  <2>3. j \in (i + 1)..((Len(c) + 1) - 1) /\ j \in 1..Len(a)
    BY <1>1, <1>4, <2>1
  <2> QED
    BY <1>3, <2>1, <2>2, <2>3, Fields DEF Dropped
<1>8. \A i \in 1..Len(c) : c[i].op # "write"
  BY <1>4, <1>5, <1>6
<1>9. \A k \in 1..Len(c) : c[k].op = "await" => k = Len(c)
  BY <1>4, <1>5, <1>6
<1>10. \A i \in 1..Len(c) : c[i].op = "read" => Dropped(c, i, Len(c) + 1)
  BY <1>7
<1>11. Tidy(c)
  BY <1>3, <1>8, <1>9, <1>10, ReadersAreTidy
<1> QED
  BY <1>11 DEF c, d

LEMMA ShortReader == Reader(<<Read(Services), Drop(Services)>>)
<1> DEFINE c == <<Read(Services), Drop(Services)>>
<1>1. /\ c \in Seq(Instruction) /\ Len(c) = 2
      /\ c[1] = Read(Services) /\ c[2] = Drop(Services)
  BY Instructions DEF Locks
<1> HIDE DEF c
<1>2. 2 \in (1 + 1)..Len(c) /\ c[2] = Drop(c[1].lock) /\ c[1].op = "read" /\ c[2].op = "drop"
  BY <1>1, Fields
<1>3. \A i \in 1..Len(c) : i = 1 \/ i = 2
  BY <1>1
<1>4. Reader(c)
  BY <1>1, <1>2, <1>3 DEF Reader
<1> QED
  BY <1>4 DEF c

LEMMA ReadersTidy ==
  /\ \A s \in Shards : \A c \in CheckAuth(s) : Tidy(c)
  /\ \A c \in List : Tidy(c)
  /\ \A c \in Push : Tidy(c)
  /\ \A s \in Shards : \A c \in History(s) : Tidy(c)
  /\ \A c \in MonitorHistory : Tidy(c)
  /\ \A c \in WithServices : Tidy(c)
<1>1. Last \in Shards /\ Services \in Locks
  BY GuardAssumption DEF Shards, Locks
<1>2. \A s \in Shards : \A c \in CheckAuth(s) : Tidy(c)
  BY ScanToReader, ReaderIsTidy DEF CheckAuth
<1>3. \A c \in List : Tidy(c)
  BY <1>1, ScanToReader, ReaderIsTidy DEF List
<1>4. \A c \in MonitorHistory : Tidy(c)
  <2>1. Reader(<<Read(Services), Drop(Services)>> \o ScanTo(Last))
    BY <1>1, ScanToReader, ShortReader, ReaderConcat
  <2> QED
    BY <2>1, ReaderAwaitTidy DEF MonitorHistory
<1>5. \A c \in WithServices : Tidy(c)
  BY <1>1, ScanToReader, ReaderWrap, ReaderIsTidy DEF WithServices
<1>6. \A c \in Push : Tidy(c)
  BY <1>1, ScanToReader, ReaderAwaitTidy DEF Push
<1>7. ASSUME NEW s \in Shards, NEW c \in History(s)
      PROVE  Tidy(c)
  <2>1. /\ c \in Seq(Instruction) /\ Len(c) = 5
        /\ c[1] = Read(Services) /\ c[2] = Drop(Services) /\ c[3] = Await
        /\ c[4] = Read(s) /\ c[5] = Drop(s)
    <3>1. c = <<Read(Services), Drop(Services), Await, Read(s), Drop(s)>>
      BY <1>7 DEF History
    <3> QED
      BY <3>1, Instructions DEF Locks
  <2>2. \A i \in 1..Len(c) : c[i].op # "write"
    BY <2>1, Fields
  <2>3. Dropped(c, 1, Len(c) + 1) /\ Dropped(c, 4, Len(c) + 1)
    BY <2>1, Fields DEF Dropped
  <2>4. \A i \in 1..Len(c) : c[i].op = "read" => i \in {1, 4}
    BY <2>1, Fields
  <2>5. \A i \in 1..Len(c) : c[i].op = "read" => Dropped(c, i, Len(c) + 1)
    BY <2>3, <2>4
  <2>6. \A k \in 1..Len(c) : c[k].op = "await" => k = 3
    BY <2>1, Fields
  <2>7. Held(c, 3 + 1) = {}
    BY <2>1, Fields DEF Held, Dropped
  <2> QED
    BY <2>1, <2>2, <2>5, <2>6, <2>7, ReadersAreTidy
<1> QED
  BY <1>2, <1>3, <1>4, <1>5, <1>6, <1>7

(* A registration: the one sequence that keeps a read lock while it takes  *)
(* a write lock.                                                           *)
LEMMA RegisterTidy ==
  ASSUME NEW s \in FreshShards, NEW c \in Register(s)
  PROVE  Tidy(c)
<1>0. s \in Shards /\ c \in Registrations /\ c \in Keepers
  BY GuardAssumption DEF Registrations, Keepers
<1> DEFINE a == Scan((2 * Last) - 1)
           n == Len(a)
<1>1. Last \in Shards /\ Last \in Nat /\ Last >= 1 /\ s \in Locks /\ Last \in Locks
  BY <1>0, GuardAssumption DEF Shards, Locks
<1>2. a \in Seq(Instruction) /\ Len(a) = (2 * Last) - 1 /\ n \in Nat
  BY <1>1, ScanShape
<1>3. \A i \in 1..n :
        /\ a[i].op \in {"read", "drop"}
        /\ a[i].op = "read" => \/ a[i].lock = Last
                              \/ \E j \in (i + 1)..n : a[j] = Drop(a[i].lock)
  BY <1>1, ScanReads
<1> HIDE DEF a
\* What both outcomes of the INSERT begin with.
<1>4. ASSUME c \in Seq(Instruction), Len(c) > n, \A i \in 1..n : c[i] = a[i],
             NEW k \in (n + 1)..(Len(c) + 1), NEW i \in 1..n, i \in Held(c, k)
      PROVE  c[i].op = "read" /\ c[i].lock = Last
  <2>1. c[i] = a[i] /\ c[i].op = "read"
    BY <1>3, <1>4 DEF Held
  <2>2. ASSUME NEW j \in (i + 1)..n, a[j] = Drop(a[i].lock)
        PROVE  Dropped(c, i, k)
    <3>1. j \in (i + 1)..(k - 1) /\ c[j] = a[j]
      BY <1>2, <1>4
    <3> QED
      BY <2>1, <2>2, <3>1, Fields DEF Dropped
  <2>3. ~Dropped(c, i, k)
    BY <1>4 DEF Held
  <2> QED
    BY <1>3, <2>1, <2>2, <2>3
<1>5. ASSUME c \in Seq(Instruction), Len(c) > n, \A i \in 1..n : c[i] = a[i],
             NEW k \in 1..n, NEW i \in Held(c, k)
      PROVE  c[i].op = "read" /\ c[k].op # "write"
  <2>1. i \in 1..n /\ c[i].op \in {"read", "write"}
    BY <1>2 DEF Held
  <2> QED
    BY <1>3, <1>5, <2>1
<1>6. CASE c = a \o <<Await, Write(s), Drop(s), Drop(Last)>>
  <2> DEFINE b == <<Await, Write(s), Drop(s), Drop(Last)>>
  <2>1. /\ b \in Seq(Instruction) /\ Len(b) = 4
        /\ b[1] = Await /\ b[2] = Write(s) /\ b[3] = Drop(s) /\ b[4] = Drop(Last)
    BY <1>1, Instructions
  <2>2. c = a \o b
    BY <1>6
  <2> HIDE DEF b
  <2>3. /\ c \in Seq(Instruction) /\ Len(c) = n + Len(b)
        /\ \A i \in 1..n : c[i] = a[i]
        /\ \A i \in 1..Len(b) : c[n + i] = b[i]
    BY <1>2, <2>1, <2>2, ConcatShape
  <2>4. Len(c) = n + 4 /\ Len(c) > n
    BY <1>2, <2>1, <2>3
  <2>5. c[n + 1] = Await /\ c[n + 2] = Write(s) /\ c[n + 3] = Drop(s) /\ c[n + 4] = Drop(Last)
    BY <2>1, <2>3
  <2>6. \A k \in 1..Len(c) : k \in 1..n \/ k = n + 1 \/ k = n + 2 \/ k = n + 3 \/ k = n + 4
    BY <1>2, <2>4
  <2>7. \A k \in 1..Len(c) : Acquires(c[k]) => k \in 1..n \/ k = n + 2
    BY <2>5, <2>6, Fields DEF Acquires
  <2>8. ASSUME NEW i \in Held(c, n + 2)
        PROVE  c[i].op = "read" /\ c[i].lock = Last
    <3>1. i \in 1..(n + 1) /\ Acquires(c[i])
      BY <1>2 DEF Held, Acquires
    <3>2. i \in 1..n
      BY <1>2, <3>1, <2>5, Fields DEF Acquires
    <3>3. n + 2 \in (n + 1)..(Len(c) + 1)
      BY <1>2, <2>4
    <3> QED
      BY <1>4, <2>3, <2>4, <2>8, <3>2, <3>3
  <2>9. Held(c, Len(c) + 1) = {}
    <3> SUFFICES ASSUME NEW i \in Held(c, Len(c) + 1)
                 PROVE  FALSE
      OBVIOUS
    <3>1. /\ i \in 1..Len(c) /\ Acquires(c[i]) /\ ~Dropped(c, i, Len(c) + 1)
      BY <1>2, <2>4 DEF Held, Acquires
    <3>2. CASE i = n + 2
      <4>1. n + 3 \in (i + 1)..((Len(c) + 1) - 1)
        BY <1>2, <2>4, <3>2
      <4>2. Dropped(c, i, Len(c) + 1)
        BY <2>5, <3>2, <4>1, Fields DEF Dropped
      <4> QED
        BY <3>1, <4>2
    <3>3. CASE i \in 1..n
      <4>1. Len(c) + 1 \in (n + 1)..(Len(c) + 1)
        BY <1>2, <2>4
      <4>2. c[i].lock = Last
        BY <1>4, <2>3, <2>4, <3>3, <4>1
      <4>3. n + 4 \in (i + 1)..((Len(c) + 1) - 1)
        BY <1>2, <2>4, <3>3
      <4>4. Dropped(c, i, Len(c) + 1)
        BY <2>5, <4>2, <4>3, Fields DEF Dropped
      <4> QED
        BY <3>1, <4>4
    <3> QED
      BY <2>7, <3>1, <3>2, <3>3
  <2>10. \A k \in 1..Len(c) : \A i \in Held(c, k) :
           /\ Acquires(c[k]) => c[i].op = "read"
           /\ c[k].op = "write" => c[i].lock = Last
    BY <1>5, <2>3, <2>4, <2>7, <2>8 DEF Acquires
  <2> QED
    BY <1>0, <2>3, <2>9, <2>10 DEF Tidy
<1>7. CASE c = a \o <<Await, Drop(Last)>>
  <2> DEFINE b == <<Await, Drop(Last)>>
  <2>1. b \in Seq(Instruction) /\ Len(b) = 2 /\ b[1] = Await /\ b[2] = Drop(Last)
    BY <1>1, Instructions
  <2>2. c = a \o b
    BY <1>7
  <2> HIDE DEF b
  <2>3. /\ c \in Seq(Instruction) /\ Len(c) = n + Len(b)
        /\ \A i \in 1..n : c[i] = a[i]
        /\ \A i \in 1..Len(b) : c[n + i] = b[i]
    BY <1>2, <2>1, <2>2, ConcatShape
  <2>4. Len(c) = n + 2 /\ Len(c) > n
    BY <1>2, <2>1, <2>3
  <2>5. c[n + 1] = Await /\ c[n + 2] = Drop(Last)
    BY <2>1, <2>3
  <2>6. \A k \in 1..Len(c) : k \in 1..n \/ k = n + 1 \/ k = n + 2
    BY <1>2, <2>4
  <2>7. \A k \in 1..Len(c) : Acquires(c[k]) => k \in 1..n
    BY <2>5, <2>6, Fields DEF Acquires
  <2>8. Held(c, Len(c) + 1) = {}
    <3> SUFFICES ASSUME NEW i \in Held(c, Len(c) + 1)
                 PROVE  FALSE
      OBVIOUS
    <3>1. /\ i \in 1..Len(c) /\ Acquires(c[i]) /\ ~Dropped(c, i, Len(c) + 1)
      BY <1>2, <2>4 DEF Held, Acquires
    <3>2. i \in 1..n /\ Len(c) + 1 \in (n + 1)..(Len(c) + 1)
      BY <1>2, <2>4, <2>7, <3>1
    <3>3. c[i].lock = Last
      BY <1>4, <2>3, <2>4, <3>2
    <3>4. n + 2 \in (i + 1)..((Len(c) + 1) - 1)
      BY <1>2, <2>4, <3>2
    <3>5. Dropped(c, i, Len(c) + 1)
      BY <2>5, <3>3, <3>4, Fields DEF Dropped
    <3> QED
      BY <3>1, <3>5
  <2>9. \A k \in 1..Len(c) : \A i \in Held(c, k) :
           /\ Acquires(c[k]) => c[i].op = "read"
           /\ c[k].op # "write"
    BY <1>5, <2>3, <2>4, <2>7 DEF Acquires
  <2> QED
    BY <1>0, <2>3, <2>8, <2>9 DEF Tidy
<1> QED
  BY <1>6, <1>7 DEF Register, a

-----------------------------------------------------------------------------
(* Every lock sequence the handlers run is tidy.                           *)
LEMMA ProgramsTidy ==
  ASSUME NEW c \in AllPrograms
  PROVE  Tidy(c)
<1>1. PICK h \in Kinds : c \in Programs(h)
  BY GuardAssumption DEF AllPrograms
<1>2. \A s \in Shards : s \in Locks
  BY DEF Locks
<1>3. Services \in Locks
  BY DEF Locks
<1>4. FreshShards \subseteq Shards
  BY GuardAssumption
<1>5. CASE h = "reportState"
  BY <1>1, <1>5, ReportStateTidy DEF Programs
<1>6. CASE h = "setEntry"
  BY <1>1, <1>6, SetEntryTidy DEF Programs
<1>7. CASE h = "register"
  BY <1>1, <1>7, RegisterTidy DEF Programs
<1>8. CASE h = "checkAuth"
  BY <1>1, <1>8, ReadersTidy DEF Programs
<1>9. CASE h = "contains"
  BY <1>1, <1>9, ContainsTidy DEF Programs
<1>10. CASE h = "list"
  BY <1>1, <1>10, ReadersTidy DEF Programs
<1>11. CASE h = "listServices"
  BY <1>1, <1>11, ListServicesTidy DEF Programs
<1>12. CASE h = "monitorHistory"
  BY <1>1, <1>12, ReadersTidy DEF Programs
<1>13. CASE h = "withServices"
  BY <1>1, <1>13, ReadersTidy DEF Programs
<1>14. CASE h = "update"
  BY <1>1, <1>2, <1>14, UpdateTidy DEF Programs
<1>15. CASE h = "delete"
  BY <1>1, <1>15, DeleteTidy DEF Programs
<1>16. CASE h = "create"
  <2>1. PICK s \in FreshShards : c \in Create(s)
    BY <1>1, <1>16 DEF Programs
  <2>2. s \in Locks /\ c = <<Await, Write(s), Drop(s)>>
    BY <1>2, <1>4, <2>1 DEF Create
  <2> QED
    BY <2>2, InsertTidy
<1>17. CASE h = "serviceUpdate"
  BY <1>1, <1>3, <1>17, UpdateTidy DEF Programs
<1>18. CASE h = "serviceCheck"
  <2>1. c = <<Await, Write(Services), Drop(Services)>>
    BY <1>1, <1>18 DEF Programs, ServiceCheck
  <2> QED
    BY <1>3, <2>1, InsertTidy
<1>19. CASE h = "push"
  BY <1>1, <1>19, ReadersTidy DEF Programs
<1>20. CASE h = "history"
  <2>1. PICK s \in Shards : c \in History(s)
    BY <1>1, <1>20 DEF Programs
  <2> QED
    BY <2>1, ReadersTidy
<1> QED
  BY <1>5, <1>6, <1>7, <1>8, <1>9, <1>10, <1>11, <1>12, <1>13, <1>14, <1>15,
     <1>16, <1>17, <1>18, <1>19, <1>20 DEF Kinds

LEMMA EmptyIsTidy == Tidy(<<>>) /\ Held(<<>>, 1) = {}
  BY DEF Tidy, Held

-----------------------------------------------------------------------------
(* The states.                                                             *)

\* A task that is on no thread has not begun, or is behind an await.
AtRest(r) ==
  pc[r] = 1 \/ \E k \in 1..Len(code[r]) : pc[r] = k + 1 /\ code[r][k].op = "await"

\* TypeOK, and what is known of tasks that are on no thread.
IInv ==
  /\ TypeOK
  /\ \A r \in Requests :
       /\ at[r] = "new" => code[r] = <<>> /\ pc[r] = 1
       /\ at[r] \in {"queued", "io"} => AtRest(r)
       /\ at[r] = "done" => pc[r] = Len(code[r]) + 1

LEMMA CodeIsTidy ==
  ASSUME TypeOK, NEW r \in Requests
  PROVE  Tidy(code[r]) /\ code[r] \in Seq(Instruction) /\ Len(code[r]) \in Nat
<1>1. code[r] \in AllPrograms \cup {<<>>}
  BY DEF TypeOK
<1>2. Tidy(code[r])
  BY <1>1, ProgramsTidy, EmptyIsTidy
<1> QED
  BY <1>2 DEF Tidy

LEMMA InitOK == Init => IInv
  BY DEF Init, IInv, TypeOK

LEMMA StepOK ==
  ASSUME IInv, [Next]_vars
  PROVE  IInv'
<1> USE DEF IInv, TypeOK, AtRest
<1>1. \A r \in Requests : Len(code[r]) \in Nat
  BY CodeIsTidy
<1>2. ASSUME NEW r \in Requests, Arrive(r)
      PROVE  IInv'
  <2>1. PICK c \in AllPrograms : code' = [code EXCEPT ![r] = c]
    BY <1>2 DEF Arrive
  <2>2. /\ at[r] = "new" /\ at' = [at EXCEPT ![r] = "queued"] /\ pc' = pc
    BY <1>2 DEF Arrive
  <2>3. Len(c) \in Nat /\ pc[r] = 1
    BY <2>2, ProgramsTidy DEF Tidy
  <2> QED
    BY <2>1, <2>2, <2>3
<1>3. ASSUME NEW r \in Requests, Poll(r)
      PROVE  IInv'
  BY <1>3 DEF Poll
<1>4. ASSUME NEW r \in Requests, LockStep(r)
      PROVE  IInv'
  <2>1. /\ at[r] = "running" /\ pc[r] <= Len(code[r])
        /\ pc' = [pc EXCEPT ![r] = @ + 1] /\ code' = code /\ at' = at
    BY <1>4 DEF LockStep
  <2> QED
    BY <1>1, <2>1
<1>5. ASSUME NEW r \in Requests, Suspend(r)
      PROVE  IInv'
  <2>1. /\ at[r] = "running" /\ pc[r] <= Len(code[r])
        /\ pc' = [pc EXCEPT ![r] = @ + 1] /\ code' = code
        /\ at' = [at EXCEPT ![r] = "io"] /\ Next1(r).op = "await"
    BY <1>5 DEF Suspend
  <2>2. pc[r] \in 1..Len(code[r]) /\ code[r][pc[r]].op = "await"
    BY <1>1, <2>1 DEF Next1
  <2>3. TypeOK'
    BY <1>1, <2>1
  <2>4. AtRest(r)'
    BY <2>1, <2>2
  <2>5. ASSUME NEW q \in Requests, q # r
        PROVE  /\ at'[q] = at[q] /\ pc'[q] = pc[q] /\ code'[q] = code[q]
               /\ at'[r] = "io"
    BY <2>1, <2>5
  <2> QED
    BY <2>1, <2>3, <2>4, <2>5
<1>6. ASSUME NEW r \in Requests, Wake(r)
      PROVE  IInv'
  BY <1>6 DEF Wake
<1>9. ASSUME NEW r \in Requests, Abandon(r)
      PROVE  IInv'
  <2>1. /\ at[r] = "running" /\ code' = code
        /\ at' = [at EXCEPT ![r] = "done"]
        /\ pc' = [pc EXCEPT ![r] = Len(code[r]) + 1]
    BY <1>9 DEF Abandon
  <2>2. Len(code[r]) + 1 \in Nat \ {0}
    BY <1>1
  <2> QED
    BY <2>1, <2>2
<1>7. ASSUME NEW r \in Requests, Return(r)
      PROVE  IInv'
  <2>1. /\ at[r] = "running" /\ pc[r] > Len(code[r])
        /\ at' = [at EXCEPT ![r] = "done"] /\ code' = code /\ pc' = pc
    BY <1>7 DEF Return
  <2>2. pc[r] = Len(code[r]) + 1
    BY <1>1, <2>1
  <2> QED
    BY <2>1, <2>2
<1>8. CASE UNCHANGED vars
  BY <1>8 DEF vars
<1> QED
  BY <1>2, <1>3, <1>4, <1>5, <1>6, <1>7, <1>8, <1>9 DEF Next, TaskStep

(* The states are well typed: a task under way is at a step of a lock      *)
(* sequence that some handler runs, or just past its end.                  *)
THEOREM TypeCorrect == Spec => []TypeOK
<1>1. IInv /\ [Next]_vars => IInv'
  BY StepOK
<1>2. IInv => TypeOK
  BY DEF IInv
<1> QED
  BY InitOK, <1>1, <1>2, PTL DEF Spec

-----------------------------------------------------------------------------
(* Taking a step adds at most the step itself to what is held.             *)
LEMMA HeldGrows ==
  ASSUME NEW c, NEW k \in Nat, k >= 1, NEW i \in Held(c, k + 1)
  PROVE  i \in Held(c, k) \/ (i = k /\ c[k].op \in {"read", "write"})
<1>1. i \in 1..k /\ c[i].op \in {"read", "write"} /\ ~Dropped(c, i, k + 1)
  BY DEF Held
<1>2. ~Dropped(c, i, k)
  <2>1. \A j \in (i + 1)..(k - 1) : j \in (i + 1)..((k + 1) - 1)
    BY <1>1
  <2> QED
    BY <1>1, <2>1 DEF Dropped
<1> QED
  BY <1>1, <1>2 DEF Held

(* A task that moves on holds nothing new, but for the lock it takes.      *)
LEMMA HoldsGrows ==
  ASSUME IInv, NEW r \in Requests, NEW op \in {"read", "write"}, NEW s,
         pc'[r] = pc[r] + 1, code'[r] = code[r], Holds(r, op, s)'
  PROVE  Holds(r, op, s) \/ (Next1(r).op = op /\ Next1(r).lock = s)
<1>1. pc[r] \in Nat /\ pc[r] >= 1
  BY DEF IInv, TypeOK
<1>2. PICK i \in Held(code[r], pc[r] + 1) : code[r][i].op = op /\ code[r][i].lock = s
  BY DEF Holds
<1>3. i \in Held(code[r], pc[r]) \/ i = pc[r]
  BY <1>1, HeldGrows
<1> QED
  BY <1>2, <1>3 DEF Holds, Next1

(* Nothing is held by a task that has just come in.                        *)
LEMMA NothingAtFirst ==
  ASSUME NEW c, NEW op, NEW s
  PROVE  ~\E i \in Held(c, 1) : c[i].op = op /\ c[i].lock = s
  BY DEF Held

LEMMA ExclusiveStep ==
  ASSUME IInv, Exclusive, [Next]_vars
  PROVE  Exclusive'
<1>1. SUFFICES ASSUME NEW r \in Requests, NEW q \in Requests, NEW s \in Locks, r # q,
                      Holds(r, "write", s)', Holds(q, "read", s)' \/ Holds(q, "write", s)'
               PROVE  FALSE
  BY DEF Exclusive
<1>2. ~(Holds(r, "write", s) /\ (Holds(q, "read", s) \/ Holds(q, "write", s)))
  BY <1>1 DEF Exclusive
<1> DEFINE Still(p) == code'[p] = code[p] /\ pc'[p] = pc[p]
\* A task that did not move holds what it held.
<1>3. \A p \in Requests, op \in {"read", "write"} :
        Still(p) /\ Holds(p, op, s)' => Holds(p, op, s)
  BY DEF Holds
<1>4. ASSUME NEW p \in Requests, LockStep(p)
      PROVE  FALSE
  <2>1. /\ Available(Next1(p)) /\ pc' = [pc EXCEPT ![p] = @ + 1] /\ code' = code
    BY <1>4 DEF LockStep
  <2>2. pc'[p] = pc[p] + 1 /\ code'[p] = code[p] /\ \A t \in Requests : t # p => Still(t)
    BY <2>1 DEF IInv, TypeOK
  <2>3. CASE p = r
    <3>1. Still(q)
      BY <1>1, <2>2, <2>3
    <3>2. Holds(q, "read", s) \/ Holds(q, "write", s)
      BY <1>1, <1>3, <3>1
    <3>3. Next1(p).op = "write" /\ Next1(p).lock = s
      BY <1>1, <1>2, <2>2, <2>3, <3>2, HoldsGrows
    <3> QED
      BY <2>1, <3>2, <3>3 DEF Available, ReadLocked, WriteLocked
  <2>4. CASE p = q
    <3>1. Still(r)
      BY <1>1, <2>2, <2>4
    <3>2. Holds(r, "write", s)
      BY <1>1, <1>3, <3>1
    <3>3. /\ Next1(p).op \in {"read", "write"} /\ Next1(p).lock = s
      BY <1>1, <1>2, <2>2, <2>4, <3>2, HoldsGrows
    <3> QED
      BY <2>1, <3>2, <3>3 DEF Available, WriteLocked
  <2>5. CASE p # r /\ p # q
    BY <1>1, <1>2, <1>3, <2>2, <2>5
  <2> QED
    BY <2>3, <2>4, <2>5
<1>5. ASSUME NEW p \in Requests, Suspend(p)
      PROVE  FALSE
  <2>1. /\ Next1(p).op = "await" /\ pc' = [pc EXCEPT ![p] = @ + 1] /\ code' = code
    BY <1>5 DEF Suspend
  <2>2. pc'[p] = pc[p] + 1 /\ code'[p] = code[p] /\ \A t \in Requests : t # p => Still(t)
    BY <2>1 DEF IInv, TypeOK
  <2>3. \A op \in {"read", "write"} : Holds(p, op, s)' => Holds(p, op, s)
    BY <2>1, <2>2, HoldsGrows
  <2>4. \A t \in Requests, op \in {"read", "write"} : Holds(t, op, s)' => Holds(t, op, s)
    BY <1>3, <2>2, <2>3
  <2> QED
    BY <1>1, <1>2, <2>4
<1>6. ASSUME NEW p \in Requests, Arrive(p)
      PROVE  FALSE
  <2>1. /\ pc' = pc /\ pc[p] = 1
        /\ \A t \in Requests : t # p => Still(t)
    BY <1>6 DEF Arrive, IInv, TypeOK
  <2>2. \A op : ~Holds(p, op, s)'
    BY <2>1, NothingAtFirst DEF Holds
  <2>3. p # r /\ p # q
    BY <1>1, <2>2
  <2> QED
    BY <1>1, <1>2, <1>3, <2>1, <2>3
<1>7. ASSUME NEW p \in Requests, Abandon(p)
      PROVE  FALSE
  <2>1. /\ pc' = [pc EXCEPT ![p] = Len(code[p]) + 1] /\ code' = code
    BY <1>7 DEF Abandon
  <2>2. pc'[p] = Len(code[p]) + 1 /\ \A t \in Requests : t # p => Still(t)
    BY <2>1 DEF IInv, TypeOK
  <2>3. Held(code[p], Len(code[p]) + 1) = {}
    BY CodeIsTidy DEF IInv, Tidy
  <2>4. \A op : ~Holds(p, op, s)'
    BY <2>1, <2>2, <2>3 DEF Holds
  <2>5. p # r /\ p # q
    BY <1>1, <2>4
  <2> QED
    BY <1>1, <1>2, <1>3, <2>2, <2>5
<1>8. ASSUME UNCHANGED <<code, pc>>
      PROVE  FALSE
  BY <1>1, <1>2, <1>3, <1>8
<1> QED
  BY <1>4, <1>5, <1>6, <1>7, <1>8 DEF Next, TaskStep, Poll, Wake, Return, vars

(* What a shard lock is for: while a task may be changing an entry, on a   *)
(* thread or asleep in an await, no other task holds the entry's shard.    *)
THEOREM LocksAreExclusive == Spec => []Exclusive
<1>1. IInv /\ [Next]_vars => IInv'
  BY StepOK
<1>2. IInv /\ Exclusive /\ [Next]_vars => Exclusive'
  BY ExclusiveStep
<1>3. Init => Exclusive
  <2>1. ASSUME Init, NEW r \in Requests, NEW s \in Locks
        PROVE  ~Holds(r, "write", s)
    BY <2>1, NothingAtFirst DEF Init, Holds
  <2> QED
    BY <2>1 DEF Exclusive
<1> QED
  BY InitOK, <1>1, <1>2, <1>3, PTL DEF Spec

-----------------------------------------------------------------------------
(* A task that is ready and keeps a lock is a report or a registration.    *)
LEMMA ReadyKeepers ==
  ASSUME IInv, NEW q \in Requests, at[q] = "queued", NEW i \in Held(code[q], pc[q])
  PROVE  code[q] \in Keepers
<1>1. Tidy(code[q])
  BY CodeIsTidy DEF IInv
<1>2. AtRest(q)
  BY DEF IInv
<1>3. pc[q] # 1
  BY DEF Held
<1>4. PICK k \in 1..Len(code[q]) : pc[q] = k + 1 /\ code[q][k].op = "await"
  BY <1>2, <1>3 DEF AtRest
<1> QED
  BY <1>1, <1>4 DEF Tidy

(* A task that keeps a lock is ready, waits for the database, or is on a   *)
(* thread.                                                                 *)
LEMMA HoldersAreUnderWay ==
  ASSUME IInv, NEW q \in Requests, NEW i \in Held(code[q], pc[q])
  PROVE  at[q] \in {"queued", "running", "io"}
<1>1. Tidy(code[q])
  BY CodeIsTidy DEF IInv
<1>2. at[q] \in {"new", "queued", "running", "io", "done"}
  BY DEF IInv, TypeOK
<1>3. CASE at[q] = "new"
  <2>1. code[q] = <<>> /\ pc[q] = 1
    BY <1>3 DEF IInv
  <2> QED
    BY <2>1, EmptyIsTidy
<1>4. CASE at[q] = "done"
  <2>1. pc[q] = Len(code[q]) + 1
    BY <1>4 DEF IInv
  <2> QED
    BY <1>1, <2>1 DEF Tidy
<1> QED
  BY <1>2, <1>3, <1>4

(* When no task can go on, each that is on a thread wants a lock that it   *)
(* cannot have.                                                            *)
LEMMA RunnersWait ==
  ASSUME IInv, ~SomeoneMoves, NEW p \in Requests, at[p] = "running"
  PROVE  /\ pc[p] \in 1..Len(code[p]) /\ Next1(p) \in Instruction
         /\ Acquires(Next1(p)) /\ ~Available(Next1(p))
<1>1. code[p] \in Seq(Instruction) /\ Len(code[p]) \in Nat
  BY CodeIsTidy DEF IInv
<1>2. pc[p] \in Nat \ {0}
  BY DEF IInv, TypeOK
<1>3. ~(pc[p] > Len(code[p])) /\ Next1(p).op # "await" /\ ~Available(Next1(p))
  BY DEF SomeoneMoves
<1>4. pc[p] \in 1..Len(code[p])
  BY <1>1, <1>2, <1>3
<1>5. Next1(p) \in Instruction
  BY <1>1, <1>4 DEF Next1
<1>6. Next1(p).op \in {"read", "write", "drop", "await"}
  BY <1>5 DEF Instruction
<1> QED
  BY <1>3, <1>4, <1>5, <1>6 DEF Acquires, Available

(* Who is ready and cannot go on finds every thread taken.                 *)
LEMMA ThreadsTaken ==
  ASSUME IInv, ~SomeoneMoves, NEW q \in Requests, at[q] = "queued"
  PROVE  Cardinality(Running) >= Threads /\ \E p \in Requests : at[p] = "running"
<1>1. IsFiniteSet(Running)
  BY GuardAssumption, FS_Subset DEF Running
<1>2. Cardinality(Running) \in Nat /\ Threads \in Nat /\ Threads # 0
  BY <1>1, GuardAssumption, FS_CardinalityType
<1>3. ~(Cardinality(Running) < Threads)
  BY DEF SomeoneMoves
<1>4. Cardinality(Running) # 0
  BY <1>2, <1>3
<1>5. Running # {}
  BY <1>4, FS_EmptySet
<1> QED
  BY <1>2, <1>3, <1>5 DEF Running

LEMMA OnlyTwoDeadlocks ==
  ASSUME IInv
  PROVE  NoOtherDeadlock
<1>1. SUFFICES ASSUME ~SomeoneMoves, ~WaitsForThread, ~WaitsForItself,
                      NEW r \in Requests, at[r] \in {"queued", "running", "io"}
               PROVE  FALSE
  BY DEF NoOtherDeadlock
<1>2. PICK p \in Requests : at[p] = "running"
  <2>1. at[r] # "io"
    BY <1>1 DEF SomeoneMoves
  <2> QED
    BY <1>1, <2>1, ThreadsTaken
\* Whoever is in the way of a task on a thread is on a thread, and waits too.
<1>3. ASSUME NEW t \in Requests, at[t] = "running", NEW q \in Requests, InTheWay(t, q)
      PROVE  at[q] = "running"
  <2>1. PICK i : i \in Held(code[q], pc[q])
    BY <1>3 DEF InTheWay, Holds
  <2>2. at[q] # "io"
    BY <1>1 DEF SomeoneMoves
  <2>3. at[q] # "queued"
    <3>1. ASSUME at[q] = "queued" PROVE FALSE
      <4>1. code[q] \in Keepers
        BY <2>1, <3>1, ReadyKeepers
      <4>2. Cardinality(Running) >= Threads
        BY <1>1, <3>1, ThreadsTaken
      <4> QED
        BY <1>1, <1>3, <3>1, <4>1, <4>2 DEF WaitsForThread
    <3> QED
      BY <3>1
  <2> QED
    BY <2>1, <2>2, <2>3, HoldersAreUnderWay
\* It has no write lock, as it would want no other lock.
<1>4. ASSUME NEW t \in Requests, at[t] = "running"
      PROVE  ~WriteLocked(Next1(t).lock)
  <2>1. SUFFICES ASSUME NEW q \in Requests, Holds(q, "write", Next1(t).lock)
                 PROVE  FALSE
    BY DEF WriteLocked
  <2>2. InTheWay(t, q)
    BY <1>1, <1>4, <2>1, RunnersWait DEF InTheWay, Acquires
  <2>3. at[q] = "running"
    BY <1>3, <1>4, <2>2
  <2>4. PICK i \in Held(code[q], pc[q]) : code[q][i].op = "write"
    BY <2>1 DEF Holds
  <2>5. pc[q] \in 1..Len(code[q]) /\ Acquires(code[q][pc[q]])
    BY <1>1, <2>3, RunnersWait DEF Next1
  <2>6. code[q][i].op = "read"
    BY <2>4, <2>5, CodeIsTidy DEF Tidy, IInv
  <2> QED
    BY <2>4, <2>6
\* So whoever waits wants to write where somebody reads, who waits as well: a
\* registration that has the last shard.
<1>5. ASSUME NEW t \in Requests, at[t] = "running"
      PROVE  /\ Next1(t).op = "write" /\ Next1(t).lock = Last
             /\ \E q \in Requests : /\ at[q] = "running" /\ code[q] \in Registrations
                                   /\ Holds(q, "read", Last)
  <2>1. Next1(t).op = "write" /\ ReadLocked(Next1(t).lock)
    BY <1>1, <1>4, <1>5, RunnersWait DEF Available, Acquires
  <2>2. PICK q \in Requests : Holds(q, "read", Next1(t).lock)
    BY <2>1 DEF ReadLocked
  <2>3. InTheWay(t, q)
    BY <1>1, <1>5, <2>1, <2>2, RunnersWait DEF InTheWay
  <2>4. at[q] = "running"
    BY <1>3, <1>5, <2>3
  <2>5. pc[q] \in 1..Len(code[q]) /\ code[q][pc[q]].op = "write"
    BY <1>1, <1>4, <2>4, RunnersWait DEF Available, Acquires, Next1
  <2>6. PICK i \in Held(code[q], pc[q]) : code[q][i].lock = Next1(t).lock
    BY <2>2 DEF Holds
  <2>7. code[q][i].lock = Last /\ code[q] \in Registrations
    BY <2>5, <2>6, CodeIsTidy DEF Tidy, IInv
  <2> QED
    BY <2>1, <2>2, <2>4, <2>6, <2>7
\* And it wants the last shard itself.
<1>6. PICK q \in Requests : /\ at[q] = "running" /\ code[q] \in Registrations
                            /\ Holds(q, "read", Last)
  BY <1>2, <1>5
<1>7. Next1(q) \in Instruction /\ Next1(q).op = "write" /\ Next1(q).lock = Last
  BY <1>1, <1>5, <1>6, RunnersWait
<1>8. Next1(q) = Write(Last)
  BY <1>7 DEF Instruction, Write
<1> QED
  BY <1>1, <1>6, <1>8 DEF WaitsForItself

(* While a request is not answered some task can go on, but for the two    *)
(* deadlocks the code has: every thread taken while a report or a          *)
(* registration that one of them waits for is ready with its guard, and a  *)
(* registration that waits for itself.  No other guard, no iteration       *)
(* within an iteration and no dropped handler locks anybody out.           *)
THEOREM NobodyElseStuck == Spec => []NoOtherDeadlock
<1>1. IInv /\ [Next]_vars => IInv'
  BY StepOK
<1>2. IInv => NoOtherDeadlock
  BY OnlyTwoDeadlocks
<1> QED
  BY InitOK, <1>1, <1>2, PTL DEF Spec

=============================================================================
