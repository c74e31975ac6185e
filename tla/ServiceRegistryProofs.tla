-------------------------- MODULE ServiceRegistryProofs --------------------------
(***************************************************************************)
(* Table and memory of the services for any number of requests, services   *)
(* and faults.  Three facts carry the proof: an update whose values are    *)
(* not mixed up writes the form it was given, so only rows in `crossed`    *)
(* hold a value of another type; ids are not used again; and between the   *)
(* two steps of an update the row has the form already, so that the entry, *)
(* with the form laid over it, shows the row, whoever put it there.        *)
(***************************************************************************)
EXTENDS ServiceRegistry, FiniteSetTheorems, TLAPS

Past == 1..(nextId - 1)

(* What is named was inserted: no id is used again.                        *)
IdsPast ==
  /\ DOMAIN table \subseteq Past /\ DOMAIN services \subseteq Past
  /\ load.stage = "insert" => DOMAIN load.rows \subseteq Past
  /\ \A w \in Workers :
       req[w].op \in {"insertMem", "updateRow", "updateMem"} => req[w].id \in Past

Inserting == {w \in Workers : req[w].op = "insertRow"}

(* There is an id for each INSERT under way.                               *)
RoomToInsert == nextId + Cardinality(Inserting) <= MaxId + 1

DownIsIdle == ~up => load.stage = "select" /\ \A w \in Workers : req[w] = Idle

(* What a deletion has removed from memory is a ghost if it is there.      *)
GhostsOfDeletion ==
  \A w \in Workers : req[w].op = "delete" =>
    /\ req[w].left \subseteq req[w].ids
    /\ \A i \in req[w].ids \ req[w].left : i \in DOMAIN services => i \in ghosts

(* Only a row that was mixed up has a value of another type, and its       *)
(* target is one still.                                                    *)
RowsTyped ==
  \A i \in DOMAIN table : table[i]["target"] \in Targets /\ (i \in crossed \/ table[i] \in Entry)

(* The rows load_services has read can be read, and are the table's.       *)
RowsRead ==
  load.stage = "insert" => \A i \in DOMAIN load.rows :
    /\ Readable(load.rows[i]) /\ load.rows[i]["target"] \in Targets
    /\ i \in DOMAIN table => i \in split \/ load.rows[i] = table[i]

(* What create has written is the entry it will put in memory.             *)
EntryWritten ==
  \A w \in Workers : req[w].op = "insertMem" /\ req[w].id \in DOMAIN table =>
    req[w].id \in split \/ table[req[w].id] = req[w].entry

Straight(i) == i \in DOMAIN table /\ i \notin split \cup crossed

(* What update has written is the form it will lay over the entry.         *)
FormWritten ==
  \A w \in Workers : req[w].op = "updateMem" /\ Straight(req[w].id) =>
    /\ \A c \in DOMAIN req[w].form : table[req[w].id][c] = req[w].form[c]
    /\ req[w].id \in DOMAIN services =>
         Shows(Overlay(services[req[w].id], req[w].form), table[req[w].id])

IInv ==
  /\ TypeOK
  /\ IdsPast /\ RoomToInsert /\ DownIsIdle
  /\ RowsTyped /\ RowsRead /\ EntryWritten /\ FormWritten
  /\ GhostsOfDeletion
  /\ SameServices /\ CopiesAgree

-----------------------------------------------------------------------------
(* What an UPDATE writes.                                                  *)

Injects(order) ==
  /\ order \in [Columns -> Int]
  /\ \A c, d \in Columns : order[c] = order[d] => c = d

LEMMA Orders == Injects(SetOrder) /\ Injects(BindOrder)
<1>1. Injects(SetOrder)
  BY DEF Injects, SetOrder, Columns
<1>2. Injects(BindOrder)
  BY DEF Injects, BindOrder, Columns
<1>. QED  BY <1>1, <1>2

LEMMA ColumnsFinite ==
  ASSUME NEW S \in SUBSET Columns
  PROVE  IsFiniteSet(S) /\ Cardinality(S) \in Nat
<1>1. \A T, c : IsFiniteSet(T) => IsFiniteSet(T \cup {c})
  BY FS_AddElement
<1>2. IsFiniteSet(Columns)
  <2>1. IsFiniteSet({"target"})
    BY FS_Singleton
  <2>2. IsFiniteSet({"target"} \cup {"duration"})
    BY <1>1, <2>1
  <2>3. IsFiniteSet({"target"} \cup {"duration"} \cup {"trigger"})
    BY <1>1, <2>2
  <2>4. IsFiniteSet({"target"} \cup {"duration"} \cup {"trigger"} \cup {"skip"})
    BY <1>1, <2>3
  <2>5. Columns = {"target"} \cup {"duration"} \cup {"trigger"} \cup {"skip"}
    BY DEF Columns
  <2>. QED  BY <2>4, <2>5
<1>3. IsFiniteSet(S)
  BY <1>2, FS_Subset
<1>. QED  BY <1>3, FS_CardinalityType

(* Columns of a form keep their order in their ranks.                      *)
LEMMA RankGrows ==
  ASSUME NEW order, Injects(order), NEW form, DOMAIN form \subseteq Columns,
         NEW c \in DOMAIN form, NEW d \in DOMAIN form, order[d] < order[c]
  PROVE  Rank(order, form, d) < Rank(order, form, c)
<1>. DEFINE A == {e \in DOMAIN form : order[e] < order[d]}
            B == {e \in DOMAIN form : order[e] < order[c]}
<1>1. A \subseteq B /\ d \in B /\ d \notin A
  BY DEF Injects
<1>2. /\ A \subseteq Columns /\ B \subseteq Columns
  OBVIOUS
<1>3. Rank(order, form, d) = Cardinality(A) /\ Rank(order, form, c) = Cardinality(B)
  BY DEF Rank
<1>. HIDE DEF A, B
<1>4. IsFiniteSet(B) /\ Cardinality(A) \in Nat /\ Cardinality(B) \in Nat
  BY <1>2, ColumnsFinite
<1>5. Cardinality(A) <= Cardinality(B) /\ (Cardinality(B) = Cardinality(A) => B = A)
  BY <1>1, <1>4, FS_Subset
<1>6. Cardinality(A) # Cardinality(B)
  BY <1>1, <1>5
<1>. QED  BY <1>3, <1>4, <1>5, <1>6

LEMMA RankOnce ==
  ASSUME NEW order, Injects(order), NEW form, DOMAIN form \subseteq Columns,
         NEW c \in DOMAIN form, NEW d \in DOMAIN form,
         Rank(order, form, d) = Rank(order, form, c)
  PROVE  d = c
<1>1. \A e \in DOMAIN form : Rank(order, form, e) \in Nat
  <2>. SUFFICES ASSUME NEW e \in DOMAIN form PROVE Rank(order, form, e) \in Nat
    OBVIOUS
  <2>1. {x \in DOMAIN form : order[x] < order[e]} \in SUBSET Columns
    OBVIOUS
  <2>. QED  BY <2>1, ColumnsFinite DEF Rank
<1>2. CASE order[d] < order[c]
  BY <1>1, <1>2, RankGrows
<1>3. CASE order[c] < order[d]
  BY <1>1, <1>3, RankGrows
<1>4. CASE order[d] = order[c]
  BY <1>4 DEF Injects
<1>5. order[d] \in Int /\ order[c] \in Int
  BY DEF Injects
<1>. QED  BY <1>2, <1>3, <1>4, <1>5

(* Every rank is that of a column of the form.                             *)
LEMMA RankTaken ==
  ASSUME NEW order, Injects(order), NEW other, Injects(other),
         NEW form, DOMAIN form \subseteq Columns, NEW c \in DOMAIN form
  PROVE  \E d \in DOMAIN form : Rank(order, form, d) = Rank(other, form, c)
<1>. DEFINE D == DOMAIN form
            k == Cardinality(D)
            f == [d \in D |-> Rank(order, form, d)]
<1>1. IsFiniteSet(D) /\ k \in Nat
  BY ColumnsFinite
<1>2. ASSUME NEW o, Injects(o), NEW d \in D
      PROVE  Rank(o, form, d) \in 0..(k - 1)
  <2>. DEFINE A == {e \in D : o[e] < o[d]}
  <2>1. A \subseteq D \ {d}
    BY <1>2 DEF Injects
  <2>. HIDE DEF A
  <2>2. IsFiniteSet(D \ {d}) /\ Cardinality(D \ {d}) = k - 1
    BY <1>1, FS_RemoveElement
  <2>3. Cardinality(A) <= k - 1 /\ IsFiniteSet(A)
    BY <2>1, <2>2, FS_Subset
  <2>4. Cardinality(A) \in Nat
    BY <2>3, FS_CardinalityType
  <2>5. Rank(o, form, d) = Cardinality(A)
    BY DEF Rank, A
  <2>. QED  BY <1>1, <2>3, <2>4, <2>5
<1>. HIDE DEF k
<1>3. f \in [D -> 0..(k - 1)]
  BY <1>2
<1>4. f \in Injection(D, 0..(k - 1))
  BY <1>3, RankOnce DEF Injection, IsInjective
<1>5. IsFiniteSet(0..(k - 1)) /\ Cardinality(0..(k - 1)) = k
  BY <1>1, FS_Interval
<1>6. f \in Surjection(D, 0..(k - 1))
  BY <1>1, <1>4, <1>5, FS_Injection DEF k
<1>7. Rank(other, form, c) \in 0..(k - 1)
  BY <1>2
<1>8. PICK d \in D : f[d] = Rank(other, form, c)
  BY <1>6, <1>7 DEF Surjection
<1>. QED  BY <1>8

LEMMA FormParts ==
  ASSUME NEW form \in Forms
  PROVE  /\ DOMAIN form \subseteq Columns
         /\ \A c \in DOMAIN form : form[c] \in Values /\ form[c] \in Typed[c]
  BY ServiceAssumption DEF Form

(* A column has the same rank in both orders: its value is bound to it.    *)
LEMMA BoundStraight ==
  ASSUME NEW form, DOMAIN form \subseteq Columns, NEW c \in DOMAIN form,
         Rank(SetOrder, form, c) = Rank(BindOrder, form, c)
  PROVE  Bound(form)[c] = form[c]
<1>1. \A d \in DOMAIN form : Rank(BindOrder, form, d) = Rank(SetOrder, form, c) => d = c
  BY RankOnce, Orders
<1>2. (CHOOSE d \in DOMAIN form : Rank(BindOrder, form, d) = Rank(SetOrder, form, c)) = c
  BY <1>1
<1>. QED  BY <1>2 DEF Bound

(* The value of some column of the form is bound to each of its columns.   *)
LEMMA BoundTyped ==
  ASSUME NEW form \in Forms
  PROVE  /\ DOMAIN Bound(form) = DOMAIN form
         /\ \A c \in DOMAIN form : Bound(form)[c] \in Values
<1>1. DOMAIN Bound(form) = DOMAIN form
  BY DEF Bound
<1>2. ASSUME NEW c \in DOMAIN form
      PROVE  Bound(form)[c] \in Values
  <2>1. \E d \in DOMAIN form : Rank(BindOrder, form, d) = Rank(SetOrder, form, c)
    BY FormParts, RankTaken, Orders
  <2>2. (CHOOSE d \in DOMAIN form : Rank(BindOrder, form, d) = Rank(SetOrder, form, c))
          \in DOMAIN form
    BY <2>1
  <2>. QED  BY <2>2, FormParts DEF Bound
<1>. QED  BY <1>1, <1>2

(* The target is first in both orders.                                     *)
LEMMA TargetBound ==
  ASSUME NEW form \in Forms, "target" \in DOMAIN form
  PROVE  Bound(form)["target"] = form["target"]
<1>1. DOMAIN form \subseteq Columns
  BY FormParts
<1>2. {d \in DOMAIN form : SetOrder[d] < SetOrder["target"]}
        = {d \in DOMAIN form : BindOrder[d] < BindOrder["target"]}
  BY <1>1 DEF SetOrder, BindOrder, Columns
<1>3. Rank(SetOrder, form, "target") = Rank(BindOrder, form, "target")
  BY <1>2 DEF Rank
<1>. QED  BY <1>1, <1>3, BoundStraight

(* A form without a list, or without a number, is written as it is.        *)
LEMMA BoundIsForm ==
  ASSUME NEW form \in Forms, ~Mixes(form)
  PROVE  \A c \in DOMAIN form : Bound(form)[c] = form[c]
<1>. SUFFICES ASSUME NEW c \in DOMAIN form PROVE Bound(form)[c] = form[c]
  OBVIOUS
<1>1. DOMAIN form \subseteq Columns
  BY FormParts
<1>2. \A d \in DOMAIN form : SetOrder[d] < SetOrder[c] <=> BindOrder[d] < BindOrder[c]
  BY <1>1 DEF SetOrder, BindOrder, Columns, Mixes
<1>3. Rank(SetOrder, form, c) = Rank(BindOrder, form, c)
  <2>1. {d \in DOMAIN form : SetOrder[d] < SetOrder[c]}
          = {d \in DOMAIN form : BindOrder[d] < BindOrder[c]}
    BY <1>2
  <2>. QED  BY <2>1 DEF Rank
<1>. QED  BY <1>1, <1>3, BoundStraight

-----------------------------------------------------------------------------
(* Entries and rows.                                                       *)

LEMMA EntryParts ==
  ASSUME NEW e
  PROVE  e \in Entry => /\ e \in Row /\ e \in [Columns -> Values]
                        /\ e["target"] \in Targets /\ e["duration"] \in Numbers
                        /\ e["trigger"] \in {0, 1} /\ e["skip"] \in Lists
                        /\ e.target = e["target"] /\ e.duration = e["duration"]
                        /\ e.trigger = e["trigger"] /\ e.skip = e["skip"]
  BY DEF Entry, Row, Columns, Values, Numbers

(* A row of an Entry's types is one.                                       *)
LEMMA RowIsEntry ==
  ASSUME NEW r, r = [c \in Columns |-> r[c]],
         r["target"] \in Targets, r["duration"] \in Numbers,
         r["trigger"] \in {0, 1}, r["skip"] \in Lists
  PROVE  r \in Entry
  BY DEF Entry, Columns

LEMMA OverlayParts ==
  ASSUME NEW e, NEW f
  PROVE  /\ Overlay(e, f) = [c \in Columns |-> Overlay(e, f)[c]]
         /\ \A c \in Columns : Overlay(e, f)[c] = IF c \in DOMAIN f THEN f[c] ELSE e[c]
  BY DEF Overlay

LEMMA OverlayEntry ==
  ASSUME NEW e \in Entry, NEW form \in Forms
  PROVE  Overlay(e, form) \in Entry
<1>1. \A c \in Columns : c \in DOMAIN form => form[c] \in Typed[c]
  BY FormParts
<1>2. \A c \in Columns : Overlay(e, form)[c] = IF c \in DOMAIN form THEN form[c] ELSE e[c]
  BY OverlayParts
<1>3. /\ Overlay(e, form)["target"] \in Targets /\ Overlay(e, form)["duration"] \in Numbers
      /\ Overlay(e, form)["trigger"] \in {0, 1} /\ Overlay(e, form)["skip"] \in Lists
  BY <1>1, <1>2, EntryParts DEF Columns, Typed
<1>. QED  BY <1>3, OverlayParts, RowIsEntry

LEMMA OverlayRow ==
  ASSUME NEW r \in Row, NEW form \in Forms
  PROVE  Overlay(r, Bound(form)) \in Row
<1>1. \A c \in Columns : c \in DOMAIN Bound(form) => Bound(form)[c] \in Values
  BY BoundTyped
<1>. QED  BY <1>1 DEF Overlay, Row

LEMMA LoadedEntry ==
  ASSUME NEW r, Readable(r), r["target"] \in Targets
  PROVE  Loaded(r) \in Entry
  BY ServiceAssumption DEF Readable, Loaded, Clamp, Entry, Numbers

LEMMA LoadedShows ==
  ASSUME NEW r \in Entry
  PROVE  Shows(Loaded(r), r)
  BY EntryParts DEF Shows, Loaded

LEMMA EntryShows ==
  ASSUME NEW e \in Entry
  PROVE  Shows(e, e)
  BY EntryParts DEF Shows

(* A form laid over both copies.                                           *)
LEMMA ShowsBoth ==
  ASSUME NEW e, NEW r, NEW f, NEW g, Shows(e, r), DOMAIN g = DOMAIN f,
         \A c \in DOMAIN f : g[c] = f[c]
  PROVE  Shows(Overlay(e, f), Overlay(r, g))
  BY DEF Shows, Overlay, Columns

(* A form the row has already, laid over what shows the row.               *)
LEMMA ShowsOver ==
  ASSUME NEW e, NEW r, NEW f, Shows(e, r), \A c \in DOMAIN f : r[c] = f[c]
  PROVE  Shows(Overlay(e, f), r)
  BY DEF Shows, Overlay, Columns

(* The same below another form.                                            *)
LEMMA ShowsUnder ==
  ASSUME NEW e, NEW r, NEW f, NEW g, Shows(Overlay(e, g), r), \A c \in DOMAIN f : r[c] = f[c]
  PROVE  Shows(Overlay(Overlay(e, f), g), r)
  BY DEF Shows, Overlay, Columns

-----------------------------------------------------------------------------
(* Requests.                                                               *)

LEMMA RequestParts ==
  ASSUME NEW r \in Request
  PROVE  /\ r.op \in {"idle", "insertRow", "insertMem", "updateRow", "updateMem", "delete"}
         /\ r.op = "insertRow" => r.entry \in Entries
         /\ r.op = "insertMem" => r.entry \in Entries /\ r.id \in Ids
         /\ r.op \in {"updateRow", "updateMem"} => r.id \in Ids /\ r.form \in Forms
         /\ r.op = "delete" => r.ids \in SUBSET Ids /\ r.left \in SUBSET Ids
         /\ r.op = "idle" <=> r = Idle
  BY DEF Request, Idle

LEMMA Typing ==
  ASSUME TypeOK
  PROVE  /\ req \in [Workers -> Request] /\ nextId \in 1..(MaxId + 1) /\ MaxId \in Nat
         /\ Past \subseteq Ids
  BY ServiceAssumption DEF TypeOK, Past, Ids

LEMMA RequestSet ==
  ASSUME TypeOK, NEW w \in Workers, NEW r, req' = [req EXCEPT ![w] = r]
  PROVE  /\ req'[w] = r /\ \A v \in Workers : v # w => req'[v] = req[v]
         /\ r \in Request => req' \in [Workers -> Request]
  BY Typing

LEMMA InsertingFinite ==
  IsFiniteSet(Inserting) /\ Cardinality(Inserting) \in Nat
<1>1. IsFiniteSet(Inserting)
  BY ServiceAssumption, FS_Subset DEF Inserting
<1>. QED  BY <1>1, FS_CardinalityType

(* Requests that leave or are not the INSERT of a create.                  *)
LEMMA RoomKept ==
  ASSUME TypeOK, RoomToInsert, Inserting' \subseteq Inserting, UNCHANGED nextId
  PROVE  RoomToInsert'
<1>1. Cardinality(Inserting') <= Cardinality(Inserting) /\ IsFiniteSet(Inserting')
  BY InsertingFinite, FS_Subset
<1>2. Cardinality(Inserting') \in Nat /\ Cardinality(Inserting) \in Nat
  BY <1>1, InsertingFinite, FS_CardinalityType
<1>3. nextId \in Nat /\ MaxId \in Nat
  BY Typing
<1>. DEFINE a == Cardinality(Inserting)  b == Cardinality(Inserting')
<1>4. a \in Nat /\ b \in Nat /\ b <= a /\ nextId + a <= MaxId + 1
  BY <1>1, <1>2 DEF RoomToInsert
<1>. HIDE DEF a, b
<1>5. nextId + b <= MaxId + 1
  BY <1>3, <1>4
<1>. QED  BY <1>5 DEF RoomToInsert, b

(* A request begins or ends and the copies are left alone.                 *)
LEMMA QuietRequest ==
  ASSUME IInv, up, NEW w \in Workers, req[w].op \in {"idle", "insertRow"},
         NEW r \in Request, r.op \in {"idle", "insertRow", "updateRow", "delete"},
         r.op = "updateRow" => r.id \in Past,
         r.op = "delete" => r.left = r.ids,
         req' = [req EXCEPT ![w] = r], RoomToInsert',
         {updates', deletes', faults'} \subseteq Nat,
         UNCHANGED <<table, nextId, services, load, up, crashes,
                     split, crossed, unread, ghosts, stranded>>
  PROVE  IInv'
<1>1. /\ req'[w] = r /\ \A v \in Workers : v # w => req'[v] = req[v]
      /\ req' \in [Workers -> Request]
  BY RequestSet DEF IInv
<1>2. \A v \in Workers : req'[v].op \in {"insertMem", "updateMem"} => req'[v] = req[v]
  BY <1>1
<1>3. TypeOK'
  BY <1>1 DEF IInv, TypeOK
<1>4. IdsPast'
  BY <1>1 DEF IInv, IdsPast, Past
<1>5. DownIsIdle'
  BY DEF DownIsIdle
<1>6. RowsTyped' /\ RowsRead'
  BY DEF IInv, RowsTyped, RowsRead
<1>7. EntryWritten' /\ FormWritten'
  BY <1>2 DEF IInv, EntryWritten, FormWritten, Straight
<1>8. GhostsOfDeletion'
  <2>. SUFFICES ASSUME NEW v \in Workers, req'[v].op = "delete"
                PROVE  /\ req'[v].left \subseteq req'[v].ids
                       /\ \A i \in req'[v].ids \ req'[v].left : i \in DOMAIN services => i \in ghosts
    BY DEF GhostsOfDeletion
  <2>1. CASE v = w
    BY <2>1, <1>1
  <2>2. CASE v # w
    BY <2>2, <1>1 DEF IInv, GhostsOfDeletion
  <2>. QED  BY <2>1, <2>2
<1>9. \A v \in Workers : req[v].op \in {"insertMem", "updateMem", "delete"} => req'[v] = req[v]
  BY <1>1
<1>10. SameServices'
  <2>1. \A i : Accounted(i) => Accounted(i)'
    BY <1>9 DEF Accounted, StillToLoad, StillToInsert
  <2>. QED  BY <2>1 DEF IInv, SameServices
<1>11. CopiesAgree'
  BY <1>9 DEF IInv, CopiesAgree
<1>. QED  BY <1>3, <1>4, <1>5, <1>6, <1>7, <1>8, <1>10, <1>11 DEF IInv

(* A request is under way only while the process runs.                     *)
LEMMA BusyIsUp ==
  ASSUME IInv, NEW w \in Workers, req[w].op # "idle"
  PROVE  up
  BY DEF IInv, DownIsIdle, Idle

LEMMA CreateStep ==
  ASSUME IInv, NEW w \in Workers, NEW e \in Entries, Create(w, e)
  PROVE  IInv'
<1>. DEFINE r == [op |-> "insertRow", entry |-> e]
<1>1. r \in Request /\ r.op = "insertRow"
  BY DEF Request
<1>2. /\ up /\ req[w].op = "idle" /\ req' = [req EXCEPT ![w] = r]
      /\ nextId + Cardinality(Inserting) <= MaxId
      /\ UNCHANGED <<table, nextId, services, load, up, updates, deletes, faults, crashes,
                     split, crossed, unread, ghosts, stranded>>
  BY DEF Create, Idle, Inserting
<1>. HIDE DEF r
<1>3. Inserting' = Inserting \cup {w} /\ w \notin Inserting
  BY <1>1, <1>2, RequestSet DEF IInv, Inserting
<1>4. Cardinality(Inserting') = Cardinality(Inserting) + 1 /\ Cardinality(Inserting) \in Nat
  BY <1>3, InsertingFinite, FS_AddElement
<1>5. nextId \in Nat /\ MaxId \in Nat
  BY Typing DEF IInv
<1>6. RoomToInsert'
  <2>. DEFINE a == Cardinality(Inserting)  b == Cardinality(Inserting')
  <2>1. a \in Nat /\ b = a + 1 /\ nextId + a <= MaxId
    BY <1>2, <1>4
  <2>. HIDE DEF a, b
  <2>2. nextId + b <= MaxId + 1
    BY <2>1, <1>5
  <2>. QED  BY <2>2, <1>2 DEF RoomToInsert, b
<1>7. {updates', deletes', faults'} \subseteq Nat
  BY <1>2 DEF IInv, TypeOK
<1>. QED  BY <1>1, <1>2, <1>6, <1>7, QuietRequest

LEMMA InsertFailsStep ==
  ASSUME IInv, NEW w \in Workers, InsertFails(w)
  PROVE  IInv'
<1>1. /\ req[w].op = "insertRow" /\ req' = [req EXCEPT ![w] = Idle] /\ faults' = faults + 1
      /\ UNCHANGED <<table, nextId, services, load, up, updates, deletes, crashes,
                     split, crossed, unread, ghosts, stranded>>
  BY DEF InsertFails, Mishap, Finish
<1>2. up
  BY <1>1, BusyIsUp
<1>3. Idle \in Request /\ Idle.op = "idle"
  BY DEF Request, Idle
<1>4. Inserting' \subseteq Inserting
  BY <1>1, <1>3, RequestSet DEF IInv, Inserting
<1>5. RoomToInsert'
  BY <1>1, <1>4, RoomKept DEF IInv
<1>6. {updates', deletes', faults'} \subseteq Nat
  BY <1>1 DEF IInv, TypeOK
<1>. QED  BY <1>1, <1>2, <1>3, <1>5, <1>6, QuietRequest

LEMMA UpdateCheckStep ==
  ASSUME IInv, NEW w \in Workers, NEW i \in Ids, NEW f \in Forms, UpdateCheck(w, i, f)
  PROVE  IInv'
<1>. DEFINE r == [op |-> "updateRow", id |-> i, form |-> f]
<1>1. r \in Request /\ r.op = "updateRow" /\ r.id = i
  BY DEF Request
<1>2. /\ up /\ req[w].op = "idle" /\ i \in DOMAIN services /\ updates' = updates + 1
      /\ req' = [req EXCEPT ![w] = r]
      /\ UNCHANGED <<table, nextId, services, load, up, deletes, faults, crashes,
                     split, crossed, unread, ghosts, stranded>>
  BY DEF UpdateCheck, Idle
<1>3. i \in Past
  BY <1>2 DEF IInv, IdsPast
<1>. HIDE DEF r
<1>4. Inserting' \subseteq Inserting
  BY <1>1, <1>2, RequestSet DEF IInv, Inserting
<1>5. RoomToInsert'
  BY <1>2, <1>4, RoomKept DEF IInv
<1>6. {updates', deletes', faults'} \subseteq Nat
  BY <1>2 DEF IInv, TypeOK
<1>. QED  BY <1>1, <1>2, <1>3, <1>5, <1>6, QuietRequest

LEMMA DeleteStartStep ==
  ASSUME IInv, NEW w \in Workers, NEW ids \in SUBSET Shown, DeleteStart(w, ids)
  PROVE  IInv'
<1>. DEFINE r == [op |-> "delete", ids |-> ids, left |-> ids]
<1>1. ids \in SUBSET Ids
  BY Typing DEF IInv, Shown, Past
<1>2. r \in Request /\ r.op = "delete" /\ r.left = r.ids
  BY <1>1 DEF Request
<1>3. /\ up /\ req[w].op = "idle" /\ deletes' = deletes + Cardinality(ids)
      /\ req' = [req EXCEPT ![w] = r]
      /\ UNCHANGED <<table, nextId, services, load, up, updates, faults, crashes,
                     split, crossed, unread, ghosts, stranded>>
  BY DEF DeleteStart, Idle
<1>. HIDE DEF r
<1>4. Inserting' \subseteq Inserting
  BY <1>2, <1>3, RequestSet DEF IInv, Inserting
<1>5. RoomToInsert'
  BY <1>3, <1>4, RoomKept DEF IInv
<1>6. Cardinality(ids) \in Nat
  <2>1. IsFiniteSet(Ids)
    BY ServiceAssumption, FS_Interval DEF Ids
  <2>2. IsFiniteSet(ids)
    BY <1>1, <2>1, FS_Subset
  <2>. QED  BY <2>2, FS_CardinalityType
<1>7. {updates', deletes', faults'} \subseteq Nat
  BY <1>3, <1>6 DEF IInv, TypeOK
<1>. QED  BY <1>2, <1>3, <1>5, <1>7, QuietRequest

(* create has written a row: its id is new to everything else.             *)
LEMMA InsertRowStep ==
  ASSUME IInv, NEW w \in Workers, InsertRow(w)
  PROVE  IInv'
<1>0. PICK i, e : i = nextId /\ e = req[w].entry
  OBVIOUS
<1>. DEFINE r == [op |-> "insertMem", entry |-> e, id |-> i]
<1>1. /\ req[w].op = "insertRow" /\ e \in Entries /\ e \in Entry
  BY <1>0, Typing, RequestParts, ServiceAssumption DEF InsertRow, IInv
<1>2. w \in Inserting /\ up
  BY <1>1, BusyIsUp DEF Inserting
<1>3. /\ table' = Put(table, i, e) /\ nextId' = nextId + 1
      /\ UNCHANGED <<services, load, up, updates, deletes, faults, crashes,
                     split, crossed, unread, ghosts, stranded>>
  BY <1>0 DEF InsertRow
<1>4. req' = [req EXCEPT ![w] = r]
  BY <1>0 DEF InsertRow
<1>. HIDE DEF r
<1>5. /\ req'[w] = r /\ \A v \in Workers : v # w => req'[v] = req[v]
  BY <1>4, RequestSet DEF IInv
<1>6. Inserting' = Inserting \ {w}
  BY <1>1, <1>5 DEF Inserting, r
<1>7. /\ Cardinality(Inserting') = Cardinality(Inserting) - 1
      /\ Cardinality(Inserting) \in Nat /\ Cardinality(Inserting') \in Nat
  BY <1>2, <1>6, InsertingFinite, FS_RemoveElement, FS_CardinalityType
<1>8. nextId \in 1..MaxId /\ RoomToInsert'
  <2>. DEFINE a == Cardinality(Inserting)  b == Cardinality(Inserting')
  <2>1. /\ a \in Nat /\ b \in Nat /\ b = a - 1 /\ nextId + a <= MaxId + 1
        /\ nextId \in 1..(MaxId + 1) /\ MaxId \in Nat
    BY <1>7, Typing DEF IInv, RoomToInsert
  <2>. HIDE DEF a, b
  <2>2. nextId \in 1..MaxId /\ nextId + 1 + b <= MaxId + 1
    BY <2>1
  <2>. QED  BY <2>2, <1>3 DEF RoomToInsert, b
<1>9. i \in Ids /\ i \notin Past /\ Past' = Past \cup {i}
  BY <1>0, <1>3, <1>8 DEF Ids, Past
<1>10. /\ DOMAIN table' = DOMAIN table \cup {i} /\ table'[i] = e
       /\ \A j \in DOMAIN table : j # i /\ table'[j] = table[j]
  BY <1>3, <1>9 DEF Put, IInv, IdsPast
<1>11. r \in Request /\ r.op = "insertMem" /\ r.id = i /\ r.entry = e
  BY <1>1, <1>9 DEF Request, r
<1>12. e \in Row /\ e["target"] \in Targets
  BY <1>1, EntryParts
<1>13. TypeOK'
  <2>1. req' \in [Workers -> Request]
    BY <1>4, <1>11, RequestSet DEF IInv
  <2>2. nextId' \in 1..(MaxId + 1)
    BY <1>3, <1>8, Typing DEF IInv
  <2>3. DOMAIN table' \subseteq Ids /\ \A j \in DOMAIN table' : table'[j] \in Row
    BY <1>9, <1>10, <1>12 DEF IInv, TypeOK
  <2>. QED  BY <1>3, <2>1, <2>2, <2>3 DEF IInv, TypeOK
<1>14. IdsPast'
  BY <1>3, <1>5, <1>9, <1>10, <1>11 DEF IInv, IdsPast
<1>15. DownIsIdle' /\ RowsTyped' /\ RowsRead'
  <2>1. DownIsIdle'
    BY <1>2, <1>3 DEF DownIsIdle
  <2>2. RowsTyped'
    BY <1>1, <1>3, <1>10, <1>12 DEF IInv, RowsTyped
  <2>3. RowsRead'
    BY <1>3, <1>9, <1>10 DEF IInv, RowsRead, IdsPast
  <2>. QED  BY <2>1, <2>2, <2>3
<1>16. EntryWritten'
  <2>. SUFFICES ASSUME NEW v \in Workers, req'[v].op = "insertMem", req'[v].id \in DOMAIN table'
                PROVE  req'[v].id \in split \/ table'[req'[v].id] = req'[v].entry
    BY <1>3 DEF EntryWritten
  <2>1. CASE v = w
    BY <2>1, <1>5, <1>10, <1>11
  <2>2. CASE v # w
    <3>1. req'[v] = req[v] /\ req[v].id \in Past
      BY <2>2, <1>5 DEF IInv, IdsPast
    <3>. QED  BY <3>1, <1>9, <1>10 DEF IInv, EntryWritten
  <2>. QED  BY <2>1, <2>2
<1>17. FormWritten'
  <2>. SUFFICES ASSUME NEW v \in Workers, req'[v].op = "updateMem",
                       req'[v].id \in DOMAIN table', req'[v].id \notin split' \cup crossed'
                PROVE  /\ \A c \in DOMAIN req'[v].form : table'[req'[v].id][c] = req'[v].form[c]
                       /\ req'[v].id \in DOMAIN services' =>
                            Shows(Overlay(services'[req'[v].id], req'[v].form), table'[req'[v].id])
    BY DEF FormWritten, Straight
  <2>1. v # w /\ req'[v] = req[v] /\ req[v].id \in Past
    BY <1>5, <1>11 DEF IInv, IdsPast
  <2>2. Straight(req[v].id) /\ table'[req[v].id] = table[req[v].id]
    BY <2>1, <1>3, <1>9, <1>10 DEF Straight
  <2>. QED  BY <2>1, <2>2, <1>3 DEF IInv, FormWritten
<1>18. GhostsOfDeletion'
  BY <1>3, <1>5, <1>11 DEF IInv, GhostsOfDeletion
<1>19. SameServices'
  <2>1. \A j : Accounted(j) => Accounted(j)'
    <3>1. \A v \in Workers : req[v].op \in {"insertMem", "delete"} => req'[v] = req[v]
      BY <1>1, <1>5
    <3>. QED  BY <1>3, <3>1 DEF Accounted, StillToLoad, StillToInsert
  <2>2. Accounted(i)'
    BY <1>5, <1>11 DEF Accounted, StillToInsert
  <2>. QED  BY <2>1, <2>2, <1>3, <1>10 DEF IInv, SameServices
<1>20. CopiesAgree'
  <2>1. \A v \in Workers : req[v].op = "updateMem" => req'[v] = req[v]
    BY <1>1, <1>5
  <2>2. i \notin DOMAIN services
    BY <1>9 DEF IInv, IdsPast
  <2>. QED  BY <2>1, <2>2, <1>3, <1>10 DEF IInv, CopiesAgree
<1>. QED  BY <1>8, <1>13, <1>14, <1>15, <1>16, <1>17, <1>18, <1>19, <1>20 DEF IInv

(* An entry is put in memory, by create or by load_services, that shows    *)
(* the row as far as the row was not mixed up.                             *)
LEMMA EntryPut ==
  ASSUME IInv, NEW i \in Past, NEW e \in Entry,
         services' = Put(services, i, e), ghosts' = Ghost(i),
         Straight(i) => Shows(e, table[i]),
         NEW R \in SUBSET Workers,
         \A v \in Workers : v \in R \/ (req'[v] = req[v]),
         \A v \in R : req'[v] = Idle,
         UNCHANGED <<table, nextId, split, crossed>>
  PROVE  /\ DOMAIN services' = DOMAIN services \cup {i}
         /\ DOMAIN services' \subseteq Past /\ ghosts' \subseteq ghosts \cup {i}
         /\ \A j \in DOMAIN services' : services'[j] \in Entry
         /\ FormWritten' /\ GhostsOfDeletion' /\ DOMAIN services' \ DOMAIN table \subseteq ghosts'
         /\ (\A v \in R : req[v].op # "updateMem") => CopiesAgree'
<1>1. /\ DOMAIN services' = DOMAIN services \cup {i} /\ services'[i] = e
      /\ \A j \in DOMAIN services : j # i => services'[j] = services[j]
  BY DEF Put
<1>2. ghosts \subseteq ghosts' /\ ghosts' \subseteq ghosts \cup {i}
  BY DEF Ghost
<1>3. \A v \in Workers : req'[v].op # "idle" => req'[v] = req[v]
  BY DEF Idle
<1>4. \A j \in DOMAIN services' : services'[j] \in Entry
  BY <1>1 DEF IInv, TypeOK
<1>5. FormWritten'
  <2>. SUFFICES ASSUME NEW v \in Workers, req'[v].op = "updateMem",
                       Straight(req'[v].id)
                PROVE  /\ \A c \in DOMAIN req'[v].form : table[req'[v].id][c] = req'[v].form[c]
                       /\ req'[v].id \in DOMAIN services' =>
                            Shows(Overlay(services'[req'[v].id], req'[v].form), table[req'[v].id])
    BY DEF FormWritten, Straight
  <2>1. PICK j, f : j = req[v].id /\ f = req[v].form
    OBVIOUS
  <2>2. /\ req'[v] = req[v] /\ Straight(j)
        /\ \A c \in DOMAIN f : table[j][c] = f[c]
        /\ j \in DOMAIN services => Shows(Overlay(services[j], f), table[j])
    BY <1>3, <2>1 DEF IInv, FormWritten
  <2>3. j \in DOMAIN services' => Shows(Overlay(services'[j], f), table[j])
    <3>1. CASE j = i
      BY <3>1, <1>1, <2>2, ShowsOver
    <3>2. CASE j # i
      BY <3>2, <1>1, <2>2
    <3>. QED  BY <3>1, <3>2
  <2>. QED  BY <2>1, <2>2, <2>3
<1>6. GhostsOfDeletion'
  <2>. SUFFICES ASSUME NEW v \in Workers, req'[v].op = "delete"
                PROVE  /\ req'[v].left \subseteq req'[v].ids
                       /\ \A j \in req'[v].ids \ req'[v].left : j \in DOMAIN services' => j \in ghosts'
    BY DEF GhostsOfDeletion
  <2>1. req'[v] = req[v] /\ req[v].op = "delete"
    BY <1>3
  <2>2. ASSUME i \in req[v].ids \ req[v].left PROVE i \in ghosts'
    BY <2>1, <2>2 DEF Ghost, BeingDeleted
  <2>. QED  BY <1>1, <1>2, <2>1, <2>2 DEF IInv, GhostsOfDeletion
<1>7. DOMAIN services' \ DOMAIN table \subseteq ghosts'
  <2>1. i \notin DOMAIN table => i \in ghosts'
    BY DEF Ghost
  <2>. QED  BY <1>1, <1>2, <2>1 DEF IInv, SameServices
<1>8. ASSUME \A v \in R : req[v].op # "updateMem"
      PROVE  CopiesAgree'
  <2>1. \A v \in Workers : req[v].op = "updateMem" => req'[v] = req[v]
    BY <1>8
  <2>. QED  BY <1>1, <2>1 DEF IInv, CopiesAgree, Straight
<1>. QED  BY <1>1, <1>2, <1>4, <1>5, <1>6, <1>7, <1>8 DEF IInv, IdsPast

LEMMA InsertMemStep ==
  ASSUME IInv, NEW w \in Workers, InsertMem(w)
  PROVE  IInv'
<1>1. PICK i, e : i = req[w].id /\ e = req[w].entry
  OBVIOUS
<1>2. /\ req[w].op = "insertMem" /\ services' = Put(services, i, e) /\ ghosts' = Ghost(i)
      /\ req' = [req EXCEPT ![w] = Idle]
      /\ UNCHANGED <<table, nextId, load, up, updates, deletes, faults, crashes,
                     split, crossed, unread, stranded>>
  BY <1>1 DEF InsertMem, Finish
<1>3. /\ req'[w] = Idle /\ \A v \in Workers : v # w => req'[v] = req[v]
      /\ req' \in [Workers -> Request]
  BY <1>2, RequestSet DEF IInv, Request
<1>4. /\ i \in Past /\ i \in Ids /\ e \in Entry
      /\ i \in DOMAIN table => i \in split \/ table[i] = e
  BY <1>1, <1>2, Typing, RequestParts, ServiceAssumption DEF IInv, IdsPast, EntryWritten
<1>5. Straight(i) => Shows(e, table[i])
  BY <1>4, EntryShows DEF Straight
<1>6. /\ DOMAIN services' = DOMAIN services \cup {i}
      /\ DOMAIN services' \subseteq Past /\ ghosts' \subseteq ghosts \cup {i}
      /\ \A j \in DOMAIN services' : services'[j] \in Entry
      /\ FormWritten' /\ GhostsOfDeletion' /\ DOMAIN services' \ DOMAIN table \subseteq ghosts'
      /\ CopiesAgree'
  <2>. DEFINE R == {w}
  <2>1. R \in SUBSET Workers /\ \A v \in R : req'[v] = Idle /\ req[v].op # "updateMem"
    BY <1>2, <1>3
  <2>2. \A v \in Workers : v \in R \/ (req'[v] = req[v])
    BY <1>3
  <2>. HIDE DEF R
  <2>. QED  BY <1>2, <1>4, <1>5, <2>1, <2>2, EntryPut
<1>7. TypeOK'
  BY <1>2, <1>3, <1>4, <1>6 DEF IInv, TypeOK
<1>8. Inserting' \subseteq Inserting /\ Past' = Past
  BY <1>2, <1>3 DEF Inserting, Idle, Past
<1>9. RoomToInsert'
  BY <1>2, <1>8, RoomKept DEF IInv
<1>10. IdsPast' /\ RowsTyped' /\ RowsRead' /\ EntryWritten'
  <2>1. \A v \in Workers : req'[v].op # "idle" => req'[v] = req[v]
    BY <1>3 DEF Idle
  <2>. QED
    BY <1>2, <1>6, <1>8, <2>1 DEF IInv, IdsPast, RowsTyped, RowsRead, EntryWritten
<1>11. DownIsIdle'
  BY <1>2, <1>3 DEF IInv, DownIsIdle
<1>12. SameServices'
  <2>1. \A j : j # i /\ Accounted(j) => Accounted(j)'
    <3>1. \A v \in Workers : req[v].op = "delete" => req'[v] = req[v]
      BY <1>2, <1>3
    <3>2. \A v \in Workers : req[v].op = "insertMem" => v = w \/ req'[v] = req[v]
      BY <1>3
    <3>. QED  BY <1>1, <1>2, <3>1, <3>2 DEF Accounted, StillToLoad, StillToInsert
  <2>. QED  BY <2>1, <1>2, <1>6 DEF IInv, SameServices
<1>. QED  BY <1>6, <1>7, <1>9, <1>10, <1>11, <1>12 DEF IInv

-----------------------------------------------------------------------------
(* update.                                                                 *)

(* An UPDATE has been answered: whatever it did, the memory comes next.    *)
LEMMA UpdateRowStep ==
  ASSUME IInv, NEW w \in Workers, UpdateRow(w)
  PROVE  IInv'
<1>1. PICK i, f : i = req[w].id /\ f = req[w].form
  OBVIOUS
<1>. DEFINE r == [req[w] EXCEPT !.op = "updateMem"]
<1>2. /\ req[w].op = "updateRow" /\ i \in Ids /\ i \in Past /\ f \in Forms
      /\ req[w] \in [op : {"updateRow", "updateMem"}, id : Ids, form : Forms]
  <2>1. req[w] \in Request /\ req[w].op = "updateRow"
    BY Typing DEF UpdateRow, IInv
  <2>2. req[w] \in [op : {"updateRow", "updateMem"}, id : Ids, form : Forms]
    BY <2>1 DEF Request, Idle
  <2>. QED  BY <1>1, <2>1, <2>2 DEF IInv, IdsPast
<1>3. /\ req' = [req EXCEPT ![w] = r]
      /\ UNCHANGED <<nextId, services, load, up, updates, deletes, crashes, unread, ghosts, stranded>>
  BY Typing DEF UpdateRow, IInv
<1>4. r \in Request /\ r.op = "updateMem" /\ r.id = i /\ r.form = f
  BY <1>1, <1>2 DEF Request
<1>. HIDE DEF r
<1>5. /\ req'[w] = r /\ \A v \in Workers : v # w => req'[v] = req[v]
      /\ req' \in [Workers -> Request]
  BY <1>3, <1>4, RequestSet DEF IInv
<1>6. \/ /\ table' = IF i \in DOMAIN table
                       THEN [table EXCEPT ![i] = Overlay(@, Bound(f))] ELSE table
         /\ crossed' = IF i \in DOMAIN table /\ Mixes(f) THEN crossed \cup {i} ELSE crossed
         /\ split' = IF Overtakes(w) \/ StillToLoad(i) \/ StillToInsert(i)
                       THEN split \cup {i} ELSE split
         /\ UNCHANGED faults
      \/ /\ faults' = faults + 1
         /\ split' = split \cup {i}
         /\ UNCHANGED <<table, crossed>>
  BY <1>1 DEF UpdateRow, Mishap
<1>7. /\ DOMAIN table' = DOMAIN table /\ \A j \in DOMAIN table : j # i => table'[j] = table[j]
      /\ split \subseteq split' /\ split' \subseteq split \cup {i}
      /\ crossed \subseteq crossed' /\ crossed' \subseteq crossed \cup {i}
      /\ i \in DOMAIN table =>
           table'[i] = table[i] \/ table'[i] = Overlay(table[i], Bound(f))
  BY <1>6
<1>8. i \in DOMAIN table /\ i \notin split' \cup crossed' =>
        /\ ~Overtakes(w) /\ ~StillToLoad(i) /\ ~StillToInsert(i) /\ ~Mixes(f)
        /\ table'[i] = Overlay(table[i], Bound(f))
  BY <1>6
<1>9. \A j : j # i => (j \in split' \cup crossed' <=> j \in split \cup crossed)
  BY <1>7
<1>10. TypeOK'
  <2>1. \A j \in DOMAIN table' : table'[j] \in Row
    BY <1>2, <1>7, OverlayRow DEF IInv, TypeOK
  <2>2. faults' \in Nat
    BY <1>6 DEF IInv, TypeOK
  <2>3. split' \subseteq Ids /\ crossed' \subseteq Ids
    BY <1>2, <1>7 DEF IInv, TypeOK
  <2>. QED  BY <2>1, <2>2, <2>3, <1>3, <1>5, <1>7 DEF IInv, TypeOK
<1>11. IdsPast' /\ DownIsIdle' /\ RoomToInsert'
  <2>1. Past' = Past /\ up
    BY <1>2, <1>3, BusyIsUp DEF Past
  <2>2. Inserting' \subseteq Inserting
    BY <1>4, <1>5 DEF Inserting
  <2>. QED
    BY <2>1, <2>2, <1>2, <1>3, <1>4, <1>5, <1>7, RoomKept DEF IInv, IdsPast, DownIsIdle
<1>12. RowsTyped'
  <2>. SUFFICES ASSUME NEW j \in DOMAIN table
                PROVE  table'[j]["target"] \in Targets /\ (j \in crossed' \/ table'[j] \in Entry)
    BY <1>7 DEF RowsTyped
  <2>1. table[j]["target"] \in Targets /\ (j \in crossed \/ table[j] \in Entry)
    BY DEF IInv, RowsTyped
  <2>2. CASE table'[j] = table[j]
    BY <2>1, <2>2, <1>7
  <2>3. CASE table'[j] # table[j]
    <3>1. j = i /\ table'[i] = Overlay(table[i], Bound(f))
      BY <2>3, <1>7
    <3>2. table'[i]["target"] \in Targets
      <4>1. table'[i]["target"] =
              IF "target" \in DOMAIN Bound(f) THEN Bound(f)["target"] ELSE table[i]["target"]
        BY <3>1, OverlayParts DEF Columns
      <4>2. "target" \in DOMAIN f => Bound(f)["target"] \in Targets
        BY <1>2, TargetBound, FormParts DEF Typed
      <4>. QED  BY <4>1, <4>2, <3>1, <2>1, <1>2, BoundTyped
    <3>3. ASSUME i \notin crossed' PROVE table'[i] \in Entry
      <4>1. ~Mixes(f) /\ table[i] \in Entry
        BY <3>1, <3>3, <2>1, <2>3, <1>6, <1>7
      <4>2. \A c \in Columns : Overlay(table[i], Bound(f))[c] = Overlay(table[i], f)[c]
        BY <4>1, <1>2, BoundIsForm, BoundTyped, OverlayParts
      <4>3. Overlay(table[i], f) \in Entry
        BY <4>1, <1>2, OverlayEntry
      <4>4. Overlay(table[i], Bound(f)) \in Entry
        BY <4>2, <4>3, EntryParts, OverlayParts, RowIsEntry DEF Columns
      <4>. QED  BY <4>4, <3>1
    <3>. QED  BY <3>1, <3>2, <3>3
  <2>. QED  BY <2>2, <2>3
<1>13. RowsRead'
  <2>1. load.stage = "insert" /\ i \in DOMAIN load.rows /\ i \in DOMAIN table =>
          i \in split' \/ table'[i] = table[i]
    BY <1>6 DEF StillToLoad
  <2>. QED  BY <2>1, <1>3, <1>7 DEF IInv, RowsRead
<1>14. EntryWritten'
  <2>1. \A v \in Workers : req[v].op = "insertMem" /\ req[v].id = i /\ i \in DOMAIN table =>
          i \in split' \/ table'[i] = table[i]
    BY <1>6 DEF StillToInsert
  <2>2. \A v \in Workers : req'[v].op = "insertMem" => req'[v] = req[v]
    BY <1>4, <1>5
  <2>. QED  BY <2>1, <2>2, <1>7 DEF IInv, EntryWritten
<1>15. FormWritten'
  <2>. SUFFICES ASSUME NEW v \in Workers, req'[v].op = "updateMem",
                       req'[v].id \in DOMAIN table, req'[v].id \notin split' \cup crossed'
                PROVE  /\ \A c \in DOMAIN req'[v].form : table'[req'[v].id][c] = req'[v].form[c]
                       /\ req'[v].id \in DOMAIN services =>
                            Shows(Overlay(services[req'[v].id], req'[v].form), table'[req'[v].id])
    BY <1>3, <1>7 DEF FormWritten, Straight
  <2>1. CASE v = w
    <3>1. req'[v].id = i /\ req'[v].form = f
      BY <2>1, <1>4, <1>5
    <3>2. /\ ~Overtakes(w) /\ ~Mixes(f) /\ table'[i] = Overlay(table[i], Bound(f))
          /\ Straight(i) /\ i \in DOMAIN table
      BY <3>1, <1>7, <1>8 DEF Straight
    <3>3. DOMAIN Bound(f) = DOMAIN f /\ \A c \in DOMAIN f : Bound(f)[c] = f[c] /\ c \in Columns
      BY <3>2, <1>2, BoundTyped, BoundIsForm, FormParts
    <3>4. \A c \in DOMAIN f : table'[i][c] = f[c]
      BY <3>2, <3>3, OverlayParts
    <3>5. ASSUME i \in DOMAIN services
          PROVE  Shows(Overlay(services[i], f), table'[i])
      <4>1. Shows(services[i], table[i])
        BY <3>2, <3>5, <1>1, <1>2 DEF IInv, CopiesAgree, Overtakes, Straight
      <4>. QED  BY <4>1, <3>2, <3>3, ShowsBoth
    <3>. QED  BY <3>1, <3>4, <3>5
  <2>2. CASE v # w
    <3>1. req'[v] = req[v]
      BY <2>2, <1>5
    <3>2. req[v].id # i
      <4>. SUFFICES ASSUME req[v].id = i PROVE FALSE
        OBVIOUS
      <4>1. ~Overtakes(w)
        BY <3>1, <1>8
      <4>. QED  BY <4>1, <3>1, <2>2, <1>1 DEF Overtakes
    <3>3. Straight(req[v].id) /\ table'[req[v].id] = table[req[v].id]
      BY <3>1, <3>2, <1>7, <1>9 DEF Straight
    <3>. QED  BY <3>1, <3>3 DEF IInv, FormWritten
  <2>. QED  BY <2>1, <2>2
<1>16. GhostsOfDeletion'
  BY <1>3, <1>4, <1>5 DEF IInv, GhostsOfDeletion
<1>17. SameServices'
  <2>1. \A j : Accounted(j) => Accounted(j)'
    <3>1. \A v \in Workers : req[v].op \in {"insertMem", "delete"} => req'[v] = req[v]
      BY <1>2, <1>5
    <3>. QED  BY <1>3, <3>1 DEF Accounted, StillToLoad, StillToInsert
  <2>. QED  BY <2>1, <1>3, <1>7 DEF IInv, SameServices
<1>18. CopiesAgree'
  <2>. SUFFICES ASSUME NEW j \in DOMAIN services \cap DOMAIN table, j \notin split' \cup crossed',
                       ~ \E v \in Workers : req'[v].op = "updateMem" /\ req'[v].id = j
                PROVE  Shows(services[j], table'[j])
    BY <1>3, <1>7 DEF CopiesAgree
  <2>1. j # i
    BY <1>4, <1>5
  <2>2. ~ \E v \in Workers : req[v].op = "updateMem" /\ req[v].id = j
    BY <1>2, <1>5
  <2>. QED  BY <2>1, <2>2, <1>7, <1>9 DEF IInv, CopiesAgree
<1>. QED  BY <1>10, <1>11, <1>12, <1>13, <1>14, <1>15, <1>16, <1>17, <1>18 DEF IInv

(* The form is laid over the entry, which then shows the row.              *)
LEMMA UpdateMemStep ==
  ASSUME IInv, NEW w \in Workers, UpdateMem(w)
  PROVE  IInv'
<1>1. PICK i, f : i = req[w].id /\ f = req[w].form
  OBVIOUS
<1>2. /\ req[w].op = "updateMem" /\ i \in Ids /\ f \in Forms
      /\ services' = IF i \in DOMAIN services
                       THEN [services EXCEPT ![i] = Overlay(@, f)] ELSE services
      /\ req' = [req EXCEPT ![w] = Idle]
      /\ UNCHANGED <<table, nextId, load, up, updates, deletes, faults, crashes,
                     split, crossed, unread, ghosts, stranded>>
  BY <1>1, Typing, RequestParts DEF UpdateMem, Finish, IInv
<1>3. /\ req'[w] = Idle /\ \A v \in Workers : v # w => req'[v] = req[v]
      /\ req' \in [Workers -> Request]
  BY <1>2, RequestSet DEF IInv, Request
<1>4. \A v \in Workers : req'[v].op # "idle" => req'[v] = req[v]
  BY <1>3 DEF Idle
<1>5. /\ DOMAIN services' = DOMAIN services
      /\ \A j \in DOMAIN services : j # i => services'[j] = services[j]
      /\ i \in DOMAIN services => services'[i] = Overlay(services[i], f)
  BY <1>2
<1>6. TypeOK'
  <2>1. \A j \in DOMAIN services' : services'[j] \in Entry
    BY <1>2, <1>5, OverlayEntry DEF IInv, TypeOK
  <2>. QED  BY <2>1, <1>2, <1>3, <1>5 DEF IInv, TypeOK
<1>7. Inserting' \subseteq Inserting /\ Past' = Past
  BY <1>2, <1>3 DEF Inserting, Idle, Past
<1>8. RoomToInsert'
  BY <1>2, <1>7, RoomKept DEF IInv
<1>9. IdsPast' /\ RowsTyped' /\ RowsRead' /\ EntryWritten'
  BY <1>2, <1>4, <1>5, <1>7 DEF IInv, IdsPast, RowsTyped, RowsRead, EntryWritten
<1>10. DownIsIdle' /\ GhostsOfDeletion'
  BY <1>2, <1>3, <1>4, <1>5 DEF IInv, DownIsIdle, GhostsOfDeletion
<1>11. Straight(i) =>
         /\ \A c \in DOMAIN f : table[i][c] = f[c]
         /\ i \in DOMAIN services => Shows(Overlay(services[i], f), table[i])
  BY <1>1, <1>2 DEF IInv, FormWritten
<1>12. FormWritten'
  <2>. SUFFICES ASSUME NEW v \in Workers, req'[v].op = "updateMem", Straight(req'[v].id)
                PROVE  /\ \A c \in DOMAIN req'[v].form : table[req'[v].id][c] = req'[v].form[c]
                       /\ req'[v].id \in DOMAIN services' =>
                            Shows(Overlay(services'[req'[v].id], req'[v].form), table[req'[v].id])
    BY <1>2 DEF FormWritten, Straight
  <2>1. PICK j, g : j = req[v].id /\ g = req[v].form
    OBVIOUS
  <2>2. /\ req'[v] = req[v] /\ Straight(j)
        /\ \A c \in DOMAIN g : table[j][c] = g[c]
        /\ j \in DOMAIN services => Shows(Overlay(services[j], g), table[j])
    BY <1>4, <2>1 DEF IInv, FormWritten
  <2>3. j \in DOMAIN services' => Shows(Overlay(services'[j], g), table[j])
    <3>1. CASE j = i
      BY <3>1, <1>5, <1>11, <2>2, ShowsUnder
    <3>2. CASE j # i
      BY <3>2, <1>5, <2>2
    <3>. QED  BY <3>1, <3>2
  <2>. QED  BY <2>1, <2>2, <2>3
<1>13. SameServices'
  <2>1. \A j : Accounted(j) => Accounted(j)'
    <3>1. \A v \in Workers : req[v].op \in {"insertMem", "delete"} => req'[v] = req[v]
      BY <1>2, <1>3
    <3>. QED  BY <1>2, <3>1 DEF Accounted, StillToLoad, StillToInsert
  <2>. QED  BY <2>1, <1>2, <1>5 DEF IInv, SameServices
<1>14. CopiesAgree'
  <2>. SUFFICES ASSUME NEW j \in DOMAIN services \cap DOMAIN table, j \notin split \cup crossed,
                       ~ \E v \in Workers : req'[v].op = "updateMem" /\ req'[v].id = j
                PROVE  Shows(services'[j], table[j])
    BY <1>2, <1>5 DEF CopiesAgree
  <2>1. CASE j = i
    BY <2>1, <1>5, <1>11 DEF Straight
  <2>2. CASE j # i
    <3>1. ~ \E v \in Workers : req[v].op = "updateMem" /\ req[v].id = j
      BY <2>2, <1>1, <1>3
    <3>. QED  BY <2>2, <3>1, <1>5 DEF IInv, CopiesAgree
  <2>. QED  BY <2>1, <2>2
<1>. QED  BY <1>6, <1>8, <1>9, <1>10, <1>12, <1>13, <1>14 DEF IInv

-----------------------------------------------------------------------------
(* batch_delete.                                                           *)

LEMMA DeleteMemStep ==
  ASSUME IInv, NEW w \in Workers, NEW i \in Ids, DeleteMem(w, i)
  PROVE  IInv'
<1>. DEFINE r == [req[w] EXCEPT !.left = @ \ {i}]
<1>1. /\ req[w].op = "delete" /\ i \in req[w].left
      /\ req[w] \in [op : {"delete"}, ids : SUBSET Ids, left : SUBSET Ids]
      /\ req[w].left \subseteq req[w].ids
  <2>1. req[w] \in Request /\ req[w].op = "delete" /\ i \in req[w].left
    BY Typing DEF DeleteMem, IInv
  <2>. QED  BY <2>1 DEF Request, Idle, IInv, GhostsOfDeletion
<1>2. /\ services' = Without(services, {i}) /\ req' = [req EXCEPT ![w] = r]
      /\ UNCHANGED <<table, nextId, load, up, updates, deletes, faults, crashes,
                     split, crossed, unread, ghosts, stranded>>
  BY Typing DEF DeleteMem, IInv
<1>3. /\ r \in Request /\ r.op = "delete" /\ r.ids = req[w].ids /\ r.left = req[w].left \ {i}
  BY <1>1 DEF Request
<1>. HIDE DEF r
<1>4. /\ req'[w] = r /\ \A v \in Workers : v # w => req'[v] = req[v]
      /\ req' \in [Workers -> Request]
  BY <1>2, <1>3, RequestSet DEF IInv
<1>5. \A v \in Workers : req'[v].op # "delete" => req'[v] = req[v]
  BY <1>3, <1>4
<1>6. /\ DOMAIN services' = DOMAIN services \ {i}
      /\ \A j \in DOMAIN services' : services'[j] = services[j]
  BY <1>2 DEF Without
<1>7. TypeOK'
  BY <1>2, <1>4, <1>6 DEF IInv, TypeOK
<1>8. Inserting' \subseteq Inserting /\ Past' = Past /\ up
  BY <1>1, <1>2, <1>3, <1>4, BusyIsUp DEF Inserting, Past
<1>9. RoomToInsert' /\ DownIsIdle'
  BY <1>2, <1>8, RoomKept DEF IInv, DownIsIdle
<1>10. IdsPast' /\ RowsTyped' /\ RowsRead' /\ EntryWritten'
  <2>1. \A v \in Workers : req'[v].op \in {"insertMem", "updateRow", "updateMem"} => req'[v] = req[v]
    BY <1>5
  <2>2. IdsPast'
    <3>1. DOMAIN table' \subseteq Past /\ DOMAIN services' \subseteq Past
      BY <1>2, <1>6 DEF IInv, IdsPast
    <3>2. load.stage = "insert" => DOMAIN load.rows \subseteq Past
      BY DEF IInv, IdsPast
    <3>3. \A v \in Workers :
            req'[v].op \in {"insertMem", "updateRow", "updateMem"} => req'[v].id \in Past
      BY <2>1 DEF IInv, IdsPast
    <3>. QED  BY <3>1, <3>2, <3>3, <1>2, <1>8 DEF IdsPast
  <2>. QED  BY <1>2, <2>1, <2>2 DEF IInv, RowsTyped, RowsRead, EntryWritten
<1>11. FormWritten'
  <2>1. \A v \in Workers : req'[v].op = "updateMem" => req'[v] = req[v]
    BY <1>5
  <2>. SUFFICES ASSUME NEW v \in Workers, req'[v].op = "updateMem", Straight(req'[v].id)
                PROVE  /\ \A c \in DOMAIN req'[v].form : table[req'[v].id][c] = req'[v].form[c]
                       /\ req'[v].id \in DOMAIN services' =>
                            Shows(Overlay(services'[req'[v].id], req'[v].form), table[req'[v].id])
    BY <1>2 DEF FormWritten, Straight
  <2>2. PICK j, g : j = req[v].id /\ g = req[v].form
    OBVIOUS
  <2>3. /\ req'[v] = req[v] /\ \A c \in DOMAIN g : table[j][c] = g[c]
        /\ j \in DOMAIN services => Shows(Overlay(services[j], g), table[j])
    BY <2>1, <2>2 DEF IInv, FormWritten
  <2>4. j \in DOMAIN services' => j \in DOMAIN services /\ services'[j] = services[j]
    BY <1>6
  <2>. QED  BY <2>2, <2>3, <2>4
<1>12. GhostsOfDeletion'
  <2>. SUFFICES ASSUME NEW v \in Workers, req'[v].op = "delete"
                PROVE  /\ req'[v].left \subseteq req'[v].ids
                       /\ \A j \in req'[v].ids \ req'[v].left : j \in DOMAIN services' => j \in ghosts
    BY <1>2 DEF GhostsOfDeletion
  <2>1. CASE v = w
    BY <2>1, <1>1, <1>3, <1>4, <1>6 DEF IInv, GhostsOfDeletion
  <2>2. CASE v # w
    BY <2>2, <1>4, <1>6 DEF IInv, GhostsOfDeletion
  <2>. QED  BY <2>1, <2>2
<1>13. SameServices'
  <2>1. \A j : Accounted(j) => Accounted(j)'
    <3>1. \A v \in Workers : /\ req[v].op = "insertMem" => req'[v] = req[v]
                             /\ req[v].op = "delete" => /\ req'[v].op = "delete"
                                                        /\ req'[v].ids = req[v].ids
      BY <1>1, <1>3, <1>4
    <3>. QED  BY <1>2, <3>1 DEF Accounted, StillToLoad, StillToInsert
  <2>2. Accounted(i)'
    BY <1>1, <1>3, <1>4 DEF Accounted
  <2>. QED  BY <2>1, <2>2, <1>2, <1>6 DEF IInv, SameServices
<1>14. CopiesAgree'
  <2>1. \A v \in Workers : req[v].op = "updateMem" => req'[v] = req[v]
    BY <1>1, <1>4
  <2>. QED  BY <2>1, <1>2, <1>6 DEF IInv, CopiesAgree
<1>. QED  BY <1>7, <1>9, <1>10, <1>11, <1>12, <1>13, <1>14 DEF IInv

(* The DELETE takes the rows, or fails and leaves them all.                *)
LEMMA DeleteRowsStep ==
  ASSUME IInv, NEW w \in Workers, DeleteRows(w)
  PROVE  IInv'
<1>1. PICK ids : ids = req[w].ids
  OBVIOUS
<1>2. /\ req[w].op = "delete" /\ ids \in SUBSET Ids
      /\ \A i \in ids : i \in DOMAIN services => i \in ghosts
  BY <1>1, Typing, RequestParts DEF DeleteRows, IInv, GhostsOfDeletion
<1>3. /\ req' = [req EXCEPT ![w] = Idle]
      /\ UNCHANGED <<nextId, services, load, up, updates, deletes, crashes,
                     split, crossed, unread, ghosts>>
  BY DEF DeleteRows, Finish
<1>4. \/ table' = Without(table, ids) /\ UNCHANGED <<faults, stranded>>
      \/ faults' = faults + 1 /\ stranded' = stranded \cup ids /\ UNCHANGED table
  BY <1>1 DEF DeleteRows, Mishap
<1>5. /\ req'[w] = Idle /\ \A v \in Workers : v # w => req'[v] = req[v]
      /\ req' \in [Workers -> Request]
  BY <1>3, RequestSet DEF IInv, Request
<1>6. \A v \in Workers : req'[v].op # "idle" => req'[v] = req[v]
  BY <1>5 DEF Idle
<1>7. /\ DOMAIN table' \subseteq DOMAIN table /\ DOMAIN table \ DOMAIN table' \subseteq ids
      /\ \A j \in DOMAIN table' : table'[j] = table[j]
      /\ stranded \subseteq stranded' /\ stranded' \subseteq stranded \cup ids
      /\ \A i \in ids : i \in DOMAIN table' => i \in stranded'
  BY <1>4 DEF Without
<1>8. TypeOK'
  <2>1. faults' \in Nat /\ stranded' \subseteq Ids
    BY <1>2, <1>4 DEF IInv, TypeOK
  <2>. QED  BY <2>1, <1>3, <1>5, <1>7 DEF IInv, TypeOK
<1>9. Inserting' \subseteq Inserting /\ Past' = Past
  BY <1>3, <1>5 DEF Inserting, Idle, Past
<1>10. RoomToInsert' /\ DownIsIdle'
  BY <1>3, <1>5, <1>9, RoomKept DEF IInv, DownIsIdle
<1>11. IdsPast' /\ RowsTyped' /\ RowsRead' /\ EntryWritten'
  BY <1>3, <1>6, <1>7, <1>9 DEF IInv, IdsPast, RowsTyped, RowsRead, EntryWritten
<1>12. FormWritten' /\ GhostsOfDeletion'
  BY <1>3, <1>6, <1>7 DEF IInv, FormWritten, Straight, GhostsOfDeletion
<1>13. SameServices'
  <2>1. \A j : j \notin ids /\ Accounted(j) => Accounted(j)'
    <3>1. \A v \in Workers : req[v].op \in {"insertMem", "delete"} => v = w \/ req'[v] = req[v]
      BY <1>5
    <3>. QED  BY <1>1, <1>2, <1>3, <1>7, <3>1 DEF Accounted, StillToLoad, StillToInsert
  <2>2. \A j \in ids : j \in DOMAIN table' => Accounted(j)'
    BY <1>7 DEF Accounted
  <2>3. up' /\ load'.stage # "select" =>
          \A j \in DOMAIN table' \ DOMAIN services' : Accounted(j)'
    BY <2>1, <2>2, <1>3, <1>7 DEF IInv, SameServices
  <2>4. DOMAIN services' \ DOMAIN table' \subseteq ghosts'
    BY <1>2, <1>3, <1>7 DEF IInv, SameServices
  <2>. QED  BY <2>3, <2>4 DEF SameServices
<1>14. CopiesAgree'
  <2>1. \A v \in Workers : req[v].op = "updateMem" => req'[v] = req[v]
    BY <1>2, <1>5
  <2>. QED  BY <2>1, <1>3, <1>7 DEF IInv, CopiesAgree
<1>. QED  BY <1>8, <1>10, <1>11, <1>12, <1>13, <1>14 DEF IInv

-----------------------------------------------------------------------------
(* A client that goes away.                                                *)

(* The handler leaves both copies as they are, and the history says what   *)
(* it has not come to do.                                                  *)
LEMMA DropStep ==
  ASSUME IInv, NEW w \in Workers, Drop(w)
  PROVE  IInv'
<1>1. /\ req' = [req EXCEPT ![w] = Idle] /\ faults' = faults + 1
      /\ UNCHANGED <<table, nextId, services, load, up, updates, deletes, crashes,
                     crossed, unread, ghosts>>
  BY DEF Drop, Finish, Mishap
<1>2. /\ req'[w] = Idle /\ \A v \in Workers : v # w => req'[v] = req[v]
      /\ req' \in [Workers -> Request]
  BY <1>1, RequestSet DEF IInv, Request
<1>3. \A v \in Workers : req'[v].op # "idle" => req'[v] = req[v]
  BY <1>2 DEF Idle
<1>4. /\ req[w] \in Request
      /\ req[w].op = "insertMem" => req[w].id \in Ids
      /\ req[w].op = "updateMem" => req[w].id \in Ids
      /\ req[w].op = "delete" => req[w].ids \in SUBSET Ids
  BY Typing, RequestParts DEF IInv
<1>5. /\ stranded \subseteq stranded' /\ split \subseteq split'
      /\ req[w].op = "insertMem" => req[w].id \in stranded'
      /\ req[w].op = "delete" => req[w].ids \subseteq stranded'
      /\ req[w].op = "updateMem" => req[w].id \in split'
  BY DEF Drop
<1>6. TypeOK'
  <2>1. stranded' \subseteq Ids /\ split' \subseteq Ids
    BY <1>4 DEF Drop, IInv, TypeOK
  <2>2. faults' \in Nat
    BY <1>1 DEF IInv, TypeOK
  <2>. QED  BY <2>1, <2>2, <1>1, <1>2 DEF IInv, TypeOK
<1>7. Inserting' \subseteq Inserting /\ Past' = Past
  BY <1>1, <1>2 DEF Inserting, Idle, Past
<1>8. RoomToInsert' /\ DownIsIdle'
  BY <1>1, <1>2, <1>7, RoomKept DEF IInv, DownIsIdle
<1>9. IdsPast' /\ RowsTyped' /\ RowsRead' /\ EntryWritten'
  BY <1>1, <1>3, <1>5, <1>7 DEF IInv, IdsPast, RowsTyped, RowsRead, EntryWritten
<1>10. FormWritten' /\ GhostsOfDeletion'
  BY <1>1, <1>3, <1>5 DEF IInv, FormWritten, Straight, GhostsOfDeletion
<1>11. SameServices'
  <2>1. \A j : Accounted(j) => Accounted(j)'
    <3>1. \A v \in Workers : v = w \/ req'[v] = req[v]
      BY <1>2
    <3>. QED  BY <1>1, <1>5, <3>1 DEF Accounted, StillToLoad, StillToInsert
  <2>. QED  BY <2>1, <1>1 DEF IInv, SameServices
<1>12. CopiesAgree'
  <2>. SUFFICES ASSUME NEW j \in DOMAIN services \cap DOMAIN table,
                       j \notin split' \cup crossed, ~ Shows(services[j], table[j])
                PROVE  \E v \in Workers : req'[v].op = "updateMem" /\ req'[v].id = j
    BY <1>1 DEF CopiesAgree
  <2>1. PICK v \in Workers : req[v].op = "updateMem" /\ req[v].id = j
    BY <1>5 DEF IInv, CopiesAgree
  <2>2. v # w
    BY <1>5, <2>1
  <2>. QED  BY <1>2, <2>1, <2>2
<1>. QED  BY <1>6, <1>8, <1>9, <1>10, <1>11, <1>12 DEF IInv

-----------------------------------------------------------------------------
(* load_services.                                                          *)

(* The SELECT gives every row, or none: for a fault, for its bool columns, *)
(* or for a row that cannot be read, and such a row was mixed up.          *)
LEMMA LoadSelectStep ==
  ASSUME IInv, LoadSelect
  PROVE  IInv'
<1>1. /\ up /\ load.stage = "select"
      /\ UNCHANGED <<table, nextId, services, req, up, updates, deletes, crashes,
                     split, crossed, ghosts, stranded>>
  BY DEF LoadSelect
<1>2. \/ /\ \A i \in DOMAIN table : Readable(table[i])
         /\ load' = [stage |-> "insert", rows |-> table] /\ UNCHANGED <<unread, faults>>
      \/ load' = [stage |-> "done"] /\ unread' = DOMAIN table /\ faults' \in Nat
  <2>1. \A i \in DOMAIN table : ~Readable(table[i]) => i \in crossed
    BY EntryParts DEF IInv, RowsTyped, Readable
  <2>2. faults \in Nat
    BY DEF IInv, TypeOK
  <2>3. CASE load' = [stage |-> "done"] /\ UNCHANGED faults
             /\ unread' = IF \A i \in DOMAIN table : ~Readable(table[i]) => i \in crossed
                            THEN DOMAIN table ELSE {}
    <3>1. unread' = DOMAIN table
      BY <2>1, <2>3
    <3>. QED  BY <2>2, <2>3, <3>1
  <2>4. CASE /\ faults' = faults + 1 \/ faults' = faults
             /\ load' = [stage |-> "done"] /\ unread' = DOMAIN table
    <3>1. faults' \in Nat
      BY <2>2, <2>4
    <3>. QED  BY <2>4, <3>1, Zenon
  <2>5. CASE /\ \A i \in DOMAIN table : Readable(table[i])
             /\ load' = [stage |-> "insert", rows |-> table] /\ UNCHANGED <<unread, faults>>
    BY <2>5
  <2>. QED  BY <2>3, <2>4, <2>5, Zenon DEF LoadSelect, Mishap
<1>3. \/ /\ \A i \in DOMAIN table : Readable(table[i])
         /\ load'.stage = "insert" /\ load'.rows = table /\ UNCHANGED <<unread, faults>>
      \/ load'.stage = "done" /\ unread' = DOMAIN table /\ faults' \in Nat
  BY <1>2
<1>4. TypeOK'
  BY <1>1, <1>3 DEF IInv, TypeOK
<1>5. Inserting' \subseteq Inserting /\ Past' = Past
  BY <1>1 DEF Inserting, Past
<1>6. RoomToInsert' /\ DownIsIdle'
  BY <1>1, <1>5, RoomKept DEF IInv, DownIsIdle
<1>7. IdsPast' /\ RowsTyped' /\ EntryWritten' /\ FormWritten' /\ GhostsOfDeletion'
  BY <1>1, <1>3, <1>5
     DEF IInv, IdsPast, RowsTyped, EntryWritten, FormWritten, Straight, GhostsOfDeletion
<1>8. RowsRead'
  BY <1>1, <1>3 DEF IInv, RowsRead, RowsTyped
<1>9. SameServices'
  <2>1. \A i \in DOMAIN table : Accounted(i)'
    BY <1>3 DEF Accounted, StillToLoad
  <2>. QED  BY <2>1, <1>1 DEF IInv, SameServices
<1>10. CopiesAgree'
  BY <1>1 DEF IInv, CopiesAgree
<1>. QED  BY <1>4, <1>6, <1>7, <1>8, <1>9, <1>10 DEF IInv

LEMMA LoadRowStep ==
  ASSUME IInv, NEW i \in Ids, LoadRow(i)
  PROVE  IInv'
<1>1. PICK e : e = Loaded(load.rows[i])
  OBVIOUS
<1>2. /\ load.stage = "insert" /\ i \in DOMAIN load.rows
      /\ services' = Put(services, i, e) /\ ghosts' = Ghost(i)
      /\ load' = [load EXCEPT !.rows = Without(@, {i})]
      /\ UNCHANGED <<table, nextId, req, up, updates, deletes, faults, crashes,
                     split, crossed, unread, stranded>>
  BY <1>1 DEF LoadRow
<1>3. /\ i \in Past /\ e \in Entry
      /\ i \in DOMAIN table => i \in split \/ load.rows[i] = table[i]
  BY <1>1, <1>2, LoadedEntry DEF IInv, IdsPast, RowsRead
<1>4. Straight(i) => Shows(e, table[i])
  BY <1>1, <1>3, LoadedShows DEF Straight, IInv, RowsTyped
<1>5. /\ DOMAIN services' = DOMAIN services \cup {i}
      /\ DOMAIN services' \subseteq Past /\ ghosts' \subseteq ghosts \cup {i}
      /\ \A j \in DOMAIN services' : services'[j] \in Entry
      /\ FormWritten' /\ GhostsOfDeletion' /\ DOMAIN services' \ DOMAIN table \subseteq ghosts'
      /\ CopiesAgree'
  <2>. DEFINE R == {}
  <2>1. /\ R \in SUBSET Workers /\ \A v \in R : req'[v] = Idle /\ req[v].op # "updateMem"
        /\ \A v \in Workers : v \in R \/ (req'[v] = req[v])
    BY <1>2
  <2>. HIDE DEF R
  <2>. QED  BY <1>2, <1>3, <1>4, <2>1, EntryPut
<1>6. /\ load'.stage = load.stage
      /\ load.stage = "insert" => /\ DOMAIN load'.rows = DOMAIN load.rows \ {i}
                                  /\ \A j \in DOMAIN load'.rows : load'.rows[j] = load.rows[j]
  BY <1>2 DEF Without
<1>7. TypeOK'
  BY <1>2, <1>5, <1>6 DEF IInv, TypeOK
<1>8. Inserting' \subseteq Inserting /\ Past' = Past
  BY <1>2 DEF Inserting, Past
<1>9. RoomToInsert' /\ DownIsIdle'
  BY <1>2, <1>6, <1>8, RoomKept DEF IInv, DownIsIdle
<1>10. IdsPast' /\ RowsTyped' /\ RowsRead' /\ EntryWritten'
  BY <1>2, <1>5, <1>6, <1>8 DEF IInv, IdsPast, RowsTyped, RowsRead, EntryWritten
<1>11. SameServices'
  <2>1. \A j : j # i /\ Accounted(j) => Accounted(j)'
    BY <1>2, <1>6 DEF Accounted, StillToLoad, StillToInsert
  <2>. QED  BY <2>1, <1>2, <1>5, <1>6 DEF IInv, SameServices
<1>. QED  BY <1>5, <1>7, <1>9, <1>10, <1>11 DEF IInv

LEMMA LoadEndsStep ==
  ASSUME IInv, LoadEnds
  PROVE  IInv'
<1>1. /\ load.stage = "insert" /\ DOMAIN load.rows = {} /\ load'.stage = "done"
      /\ UNCHANGED <<table, nextId, services, req, up, updates, deletes, faults, crashes,
                     split, crossed, unread, ghosts, stranded>>
  BY DEF LoadEnds
<1>2. TypeOK' /\ CopiesAgree' /\ RowsTyped' /\ RowsRead' /\ EntryWritten'
      /\ GhostsOfDeletion' /\ FormWritten'
  BY <1>1 DEF IInv, TypeOK, CopiesAgree, RowsTyped, RowsRead, EntryWritten,
              GhostsOfDeletion, FormWritten, Straight
<1>3. Inserting' \subseteq Inserting /\ Past' = Past
  BY <1>1 DEF Inserting, Past
<1>4. IdsPast' /\ RoomToInsert' /\ DownIsIdle'
  BY <1>1, <1>3, RoomKept DEF IInv, IdsPast, DownIsIdle
<1>5. SameServices'
  <2>1. \A j : Accounted(j) => Accounted(j)'
    BY <1>1 DEF Accounted, StillToLoad, StillToInsert
  <2>. QED  BY <2>1, <1>1 DEF IInv, SameServices
<1>. QED  BY <1>2, <1>4, <1>5 DEF IInv

-----------------------------------------------------------------------------
LEMMA CrashStep ==
  ASSUME IInv, Crash
  PROVE  IInv'
<1>1. /\ up' = FALSE /\ DOMAIN services' = {} /\ load'.stage = "select"
      /\ req' = [w \in Workers |-> Idle] /\ crashes' = crashes + 1
      /\ split' = {} /\ unread' = {} /\ ghosts' = {} /\ stranded' = {}
      /\ UNCHANGED <<table, nextId, updates, deletes, faults, crossed>>
  BY DEF Crash, Without
<1>2. \A w \in Workers : req'[w] = Idle /\ req'[w].op = "idle"
  BY <1>1 DEF Idle
<1>3. TypeOK'
  <2>1. req' \in [Workers -> Request]
    BY <1>1 DEF Request
  <2>2. DOMAIN table' \subseteq Ids /\ \A i \in DOMAIN table' : table'[i] \in Row
    BY <1>1 DEF IInv, TypeOK
  <2>3. DOMAIN services' \subseteq Ids /\ \A i \in DOMAIN services' : services'[i] \in Entry
    BY <1>1
  <2>4. split' \cup crossed' \cup unread' \cup ghosts' \cup stranded' \subseteq Ids
    BY <1>1 DEF IInv, TypeOK
  <2>5. /\ nextId' \in 1..(MaxId + 1) /\ crashes \in Nat
        /\ updates' \in Nat /\ deletes' \in Nat /\ faults' \in Nat
    BY <1>1 DEF IInv, TypeOK
  <2>6. up' \in BOOLEAN
    BY <1>1, Zenon
  <2>7. crashes' \in Nat
    BY <1>1, <2>5
  <2>. QED  BY <2>1, <2>2, <2>3, <2>4, <2>5, <2>6, <2>7, <1>1 DEF TypeOK
<1>4. Inserting' \subseteq Inserting /\ Past' = Past
  BY <1>1, <1>2 DEF Inserting, Past
<1>5. IdsPast' /\ RoomToInsert' /\ DownIsIdle'
  BY <1>1, <1>2, <1>4, RoomKept DEF IInv, IdsPast, DownIsIdle
<1>6. RowsTyped' /\ RowsRead' /\ EntryWritten' /\ FormWritten' /\ GhostsOfDeletion'
  BY <1>1, <1>2 DEF IInv, RowsTyped, RowsRead, EntryWritten, FormWritten, GhostsOfDeletion
<1>7. SameServices' /\ CopiesAgree'
  BY <1>1 DEF SameServices, CopiesAgree
<1>. QED  BY <1>3, <1>5, <1>6, <1>7 DEF IInv

LEMMA RestartStep ==
  ASSUME IInv, Restart
  PROVE  IInv'
<1>1. /\ ~up /\ up' = TRUE
      /\ UNCHANGED <<table, nextId, services, req, load, updates, deletes, faults, crashes,
                     split, crossed, unread, ghosts, stranded>>
  BY DEF Restart
<1>2. load.stage = "select"
  BY <1>1 DEF IInv, DownIsIdle
<1>3. TypeOK' /\ CopiesAgree' /\ RowsTyped' /\ RowsRead' /\ EntryWritten'
      /\ GhostsOfDeletion' /\ FormWritten' /\ DownIsIdle'
  BY <1>1 DEF IInv, TypeOK, CopiesAgree, RowsTyped, RowsRead, EntryWritten,
              GhostsOfDeletion, FormWritten, Straight, DownIsIdle
<1>4. Inserting' \subseteq Inserting /\ Past' = Past
  BY <1>1 DEF Inserting, Past
<1>5. IdsPast' /\ RoomToInsert'
  BY <1>1, <1>4, RoomKept DEF IInv, IdsPast
<1>6. SameServices'
  BY <1>1, <1>2 DEF IInv, SameServices
<1>. QED  BY <1>3, <1>5, <1>6 DEF IInv

-----------------------------------------------------------------------------
LEMMA InitInvariant == Init => IInv
<1>. SUFFICES ASSUME Init PROVE IInv
  OBVIOUS
<1>. USE ServiceAssumption
<1>1. /\ DOMAIN table = {} /\ nextId = 1 /\ DOMAIN services = {} /\ load.stage = "select"
      /\ up = TRUE /\ req = [w \in Workers |-> Idle]
      /\ \A w \in Workers : req[w] = Idle /\ req[w].op = "idle"
      /\ updates = 0 /\ deletes = 0 /\ faults = 0 /\ crashes = 0
      /\ split = {} /\ crossed = {} /\ unread = {} /\ ghosts = {} /\ stranded = {}
  BY DEF Init, Idle
<1>2. TypeOK
  <2>1. req \in [Workers -> Request]
    BY <1>1 DEF Request
  <2>2. nextId \in 1..(MaxId + 1)
    BY <1>1
  <2>3. split \cup crossed \cup ghosts \cup stranded \subseteq Ids
    BY <1>1
  <2>. QED  BY <1>1, <2>1, <2>2, <2>3 DEF TypeOK
<1>3. RoomToInsert
  <2>1. Inserting = {} /\ MaxId \in Nat
    BY <1>1 DEF Inserting
  <2>2. Cardinality(Inserting) = 0
    BY <2>1, FS_EmptySet
  <2>. QED  BY <1>1, <2>1, <2>2 DEF RoomToInsert
<1>4. IdsPast /\ DownIsIdle /\ RowsTyped /\ RowsRead /\ EntryWritten /\ FormWritten
      /\ GhostsOfDeletion /\ SameServices /\ CopiesAgree
  BY <1>1 DEF IdsPast, DownIsIdle, RowsTyped, RowsRead, EntryWritten, FormWritten,
              GhostsOfDeletion, SameServices, CopiesAgree
<1>. QED  BY <1>2, <1>3, <1>4 DEF IInv

LEMMA Stutter ==
  ASSUME IInv, UNCHANGED vars
  PROVE  IInv'
<1>1. UNCHANGED <<table, nextId, services, req, load, up, updates, deletes, faults, crashes,
                  split, crossed, unread, ghosts, stranded>>
  BY DEF vars
<1>2. TypeOK' /\ CopiesAgree' /\ RowsTyped' /\ RowsRead' /\ EntryWritten'
      /\ GhostsOfDeletion' /\ FormWritten' /\ DownIsIdle'
  BY <1>1 DEF IInv, TypeOK, CopiesAgree, RowsTyped, RowsRead, EntryWritten,
              GhostsOfDeletion, FormWritten, Straight, DownIsIdle
<1>3. Inserting' \subseteq Inserting /\ Past' = Past
  BY <1>1 DEF Inserting, Past
<1>4. IdsPast' /\ RoomToInsert'
  BY <1>1, <1>3, RoomKept DEF IInv, IdsPast
<1>5. SameServices'
  <2>1. \A j : Accounted(j) => Accounted(j)'
    BY <1>1 DEF Accounted, StillToLoad, StillToInsert
  <2>. QED  BY <1>1, <2>1 DEF IInv, SameServices
<1>. QED  BY <1>2, <1>4, <1>5 DEF IInv

LEMMA StepInvariant == IInv /\ [Next]_vars => IInv'
<1>. SUFFICES ASSUME IInv, [Next]_vars PROVE IInv'
  OBVIOUS
<1>1. ASSUME NEW w \in Workers, HandlerStep(w)
      PROVE  IInv'
  BY <1>1, InsertRowStep, InsertFailsStep, InsertMemStep, UpdateRowStep, UpdateMemStep,
     DeleteMemStep, DeleteRowsStep DEF HandlerStep
<1>5. ASSUME NEW w \in Workers, Drop(w)
      PROVE  IInv'
  BY <1>5, DropStep
<1>2. ASSUME NEW w \in Workers, AdminRequest(w)
      PROVE  IInv'
  <2>1. CASE UpdateRefused(w)
    BY <2>1, Stutter DEF UpdateRefused
  <2>. QED  BY <1>2, <2>1, CreateStep, UpdateCheckStep, DeleteStartStep DEF AdminRequest
<1>3. CASE LoadSelect \/ (\E i \in Ids : LoadRow(i)) \/ LoadEnds
  BY <1>3, LoadSelectStep, LoadRowStep, LoadEndsStep
<1>4. CASE Crash \/ Restart
  BY <1>4, CrashStep, RestartStep
<1>. QED  BY <1>1, <1>2, <1>3, <1>4, <1>5, Stutter DEF Next

LEMMA Invariant == Spec => []IInv
  BY InitInvariant, StepInvariant, PTL DEF Spec

(* Every variable has its type: whatever an update has mixed up in the     *)
(* table, an entry in memory has a value of its type in every field.       *)
THEOREM TypeCorrect == Spec => []TypeOK
<1>1. IInv => TypeOK
  BY DEF IInv
<1>. QED  BY <1>1, Invariant, PTL

(* A row without an entry, and an entry without a row, are those that a    *)
(* create, a deletion, a handler that was dropped half way, a fault or a   *)
(* row that was mixed up accounts for.                                     *)
THEOREM TableAndMemoryHaveSameServices == Spec => []SameServices
<1>1. IInv => SameServices
  BY DEF IInv
<1>. QED  BY <1>1, Invariant, PTL

(* But for an update that was mixed up, that failed, that met another one, *)
(* that was dropped between the two copies, or that came before the row    *)
(* was in memory, an entry shows its row outside the window of an update.  *)
THEOREM EntriesShowTheirRows == Spec => []CopiesAgree
<1>1. IInv => CopiesAgree
  BY DEF IInv
<1>. QED  BY <1>1, Invariant, PTL
=============================================================================
