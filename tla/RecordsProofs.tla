--------------------------- MODULE RecordsProofs ---------------------------
(***************************************************************************)
(* Proofs about Records, for any iterator, stores of any size and links of    *)
(* any kind.                                                               *)
(***************************************************************************)
EXTENDS Records, Lemmas

-----------------------------------------------------------------------------
(* The stores, and the rows of an anchor query.                             *)

WorldInv == \E w \in Worlds : iterator = w.iterator /\ stores = w.stores

LEMMA WorldFacts ==
  ASSUME WorldInv
  PROVE  /\ iterator \in Iterators
         /\ iterator \notin {"Reminders", "Lists"} => Len(stores) = 1
         /\ Len(stores) \in Nat \ {0} /\ DOMAIN stores = 1 .. Len(stores)
         /\ \A k \in 1 .. Len(stores) : IsAnchor(iterator, stores[k]) /\ HasTables(iterator, stores[k])
<1>1. PICK w \in Worlds : iterator = w.iterator /\ stores = w.stores
  BY DEF WorldInv
<1> DEFINE T == {stores[k] : k \in DOMAIN stores}
<1>2. stores \in Seq(T) /\ stores # <<>>
  BY <1>1, RecordsAssumption
<1> HIDE DEF T
<1>3. Len(stores) \in Nat /\ DOMAIN stores = 1 .. Len(stores) /\ Len(stores) # 0
  BY <1>2
<1> QED
  BY <1>1, <1>3, RecordsAssumption

(* Messages are read by date and ROWID, NULL dates first.                   *)
LEMMA EarlierOrders ==
  ASSUME NEW S, \A r \in S : r.id \in Int /\ r.date \in Int \cup {Null},
         \A r, s \in S : r.id = s.id => r = s
  PROVE  /\ \A r \in S : ~Earlier(r, r)
         /\ \A r, s, t \in S : Earlier(r, s) /\ Earlier(s, t) => Earlier(r, t)
         /\ \A r, s \in S : r # s => Earlier(r, s) \/ Earlier(s, r)
<1>1. Null \notin Int
  BY RecordsAssumption
<1>2. \A r \in S : r.id \in Int /\ (r.date \in Int \/ r.date = Null)
  OBVIOUS
<1>3. \A r, s \in S : r # s => r.id # s.id
  OBVIOUS
<1>4. \A r \in S : ~Earlier(r, r)
  BY <1>1, <1>2 DEF Earlier, DateBelow
<1>5. \A r, s, t \in S : Earlier(r, s) /\ Earlier(s, t) => Earlier(r, t)
  BY <1>1, <1>2 DEF Earlier, DateBelow
<1>6. \A r, s \in S : r # s => Earlier(r, s) \/ Earlier(s, r)
  BY <1>1, <1>2, <1>3 DEF Earlier, DateBelow
<1> QED
  BY <1>4, <1>5, <1>6

Order(db) == {p \in Anchored(db) \X Anchored(db) : Before(p[1], p[2])}

(* Every anchor query's order tells its rows apart.                         *)
LEMMA AnchorOrdered ==
  ASSUME NEW db, IsAnchor(iterator, db)
  PROVE  OrderOn(Order(db), Anchored(db)) /\ Anchored(db) \subseteq db.rows
<1> DEFINE A == Anchored(db)
<1>1. A \subseteq db.rows
  BY DEF Anchored
<1>2. IsFiniteSet(A)
  BY <1>1, FS_Subset DEF IsAnchor
<1>3. /\ \A r \in A : r.id \in Int
      /\ iterator \in {"Messages", "ChatMessages"} => \A r \in A : r.date \in Int \cup {Null}
      /\ \A r, s \in A : r.id = s.id => r = s
  BY <1>1 DEF IsAnchor
<1>4. \A r, s \in A : <<r, s>> \in Order(db) <=> Before(r, s)
  BY DEF Order
<1> HIDE DEF A
<1>5. /\ \A r \in A : ~Before(r, r)
      /\ \A r, s, t \in A : Before(r, s) /\ Before(s, t) => Before(r, t)
      /\ \A r, s \in A : r # s => Before(r, s) \/ Before(s, r)
  <2>1. CASE iterator \in {"Messages", "ChatMessages"}
    <3>1. /\ \A r \in A : ~Earlier(r, r)
          /\ \A r, s, t \in A : Earlier(r, s) /\ Earlier(s, t) => Earlier(r, t)
          /\ \A r, s \in A : r # s => Earlier(r, s) \/ Earlier(s, r)
      BY <1>3, <2>1, EarlierOrders
    <3>2. CASE iterator = "Messages"
      <4>1. \A r, s : Before(r, s) <=> Earlier(r, s)
        BY <3>2 DEF Before
      <4> QED
        BY <3>1, <4>1
    <3>3. CASE iterator = "ChatMessages"
      <4>1. \A r, s : Before(r, s) <=> Earlier(s, r)
        BY <3>3 DEF Before
      <4> QED
        BY <3>1, <4>1
    <3> QED
      BY <2>1, <3>2, <3>3
  <2>2. CASE iterator \notin {"Messages", "ChatMessages"}
    <3>1. \A r, s : Before(r, s) <=> r.id < s.id
      BY <2>2 DEF Before
    <3> QED
      BY <1>3, <3>1
  <2> QED
    BY <2>1, <2>2
<1> QED
  BY <1>1, <1>2, <1>4, <1>5 DEF OrderOn, A

(* What the query gives: each of its rows once.                            *)
LEMMA ResultLists ==
  ASSUME NEW db, IsAnchor(iterator, db)
  PROVE  /\ Result(db) \in Seq(db.rows) /\ Len(Result(db)) \in Nat
         /\ \A k \in 1 .. Len(Result(db)) : Result(db)[k] \in db.rows
<1>1. OrderOn(Order(db), Anchored(db)) /\ Anchored(db) \subseteq db.rows
  BY AnchorOrdered
<1>2. Result(db) = Listed(Anchored(db), Order(db))
  BY DEF Result, Order
<1>3. Result(db) \in Seq(Anchored(db))
  BY <1>1, <1>2, ListedInOrder
<1>4. Result(db) \in Seq(db.rows)
  BY <1>1, <1>3
<1> QED
  BY <1>4

-----------------------------------------------------------------------------
(* Everything a complete range is to give.                                  *)

Places == Nat \X Int

LEMMA NumbersAre ==
  ASSUME WorldInv, NEW k \in 1 .. Len(stores)
  PROVE  /\ Numbers(k) \in Seq(Places) /\ Len(Numbers(k)) = Len(Result(stores[k]))
         /\ \A j \in 1 .. Len(Numbers(k)) : Numbers(k)[j] = <<k, Result(stores[k])[j].id>>
<1> DEFINE rows == Result(stores[k])
<1>1. k \in Nat /\ IsAnchor(iterator, stores[k])
  BY WorldFacts
<1>2. Len(rows) \in Nat /\ \A j \in 1 .. Len(rows) : rows[j] \in stores[k].rows
  BY <1>1, ResultLists
<1>3. \A j \in 1 .. Len(rows) : rows[j].id \in Int
  BY <1>1, <1>2 DEF IsAnchor
<1>4. Numbers(k) = [j \in 1 .. Len(rows) |-> <<k, rows[j].id>>]
  BY DEF Numbers
<1> HIDE DEF rows
<1>5. Numbers(k) \in Seq(Places) /\ Len(Numbers(k)) = Len(rows)
  BY <1>1, <1>2, <1>3, <1>4 DEF Places
<1> QED
  BY <1>2, <1>4, <1>5 DEF rows

LEMMA AllSteps ==
  ASSUME WorldInv
  PROVE  /\ All(0) = <<>>
         /\ \A n \in 0 .. Len(stores) : All(n) \in Seq(Places)
         /\ \A n \in 1 .. Len(stores) : All(n) = All(n - 1) \o Numbers(n)
<1> DEFINE N == Len(stores)
           s == [k \in 1 .. N |-> Numbers(k)]
           F(n) == FlattenSeq([k \in 1 .. n |-> s[k]])
<1>1. N \in Nat
  BY WorldFacts
<1>2. s \in Seq(Seq(Places)) /\ Len(s) = N
  <2>1. \A k \in 1 .. N : Numbers(k) \in Seq(Places)
    BY NumbersAre
  <2> QED
    BY <1>1, <2>1
<1>3. \A n \in 0 .. N : F(n) = All(n)
  <2>1. \A n \in 0 .. N : [k \in 1 .. n |-> s[k]] = [k \in 1 .. n |-> Numbers(k)]
    BY <1>1
  <2> QED
    BY <2>1 DEF All
<1>4. \A n \in 1 .. N : s[n] = Numbers(n) /\ n \in 0 .. N /\ n - 1 \in 0 .. N
  BY <1>1
<1>5. 0 \in 0 .. N
  BY <1>1
<1> HIDE DEF s
<1>6. /\ F(0) = <<>>
      /\ \A n \in 0 .. N : F(n) \in Seq(Places)
      /\ \A n \in 1 .. N : F(n) = F(n - 1) \o s[n]
  BY <1>2, FlattenBySteps
<1> HIDE DEF F
<1>7. ASSUME NEW n \in 1 .. N PROVE All(n) = All(n - 1) \o Numbers(n)
  <2>1. F(n) = All(n) /\ F(n - 1) = All(n - 1) /\ s[n] = Numbers(n)
    BY <1>3, <1>4
  <2>2. F(n) = F(n - 1) \o s[n]
    BY <1>6
  <2> QED
    BY <2>1, <2>2
<1> QED
  BY <1>3, <1>5, <1>6, <1>7

(* Whole stores and a part of the next one begin it.                        *)
LEMMA PartBegins ==
  ASSUME WorldInv, NEW n \in 1 .. Len(stores), NEW j \in 0 .. Len(Result(stores[n]))
  PROVE  LET part == All(n - 1) \o SubSeq(Numbers(n), 1, j) IN
         part \in Seq(Places) /\ IsPrefix(part, All(Len(stores)))
<1> DEFINE N == Len(stores)
           x == All(n - 1)
           p == SubSeq(Numbers(n), 1, j)
           q == SubSeq(Numbers(n), j + 1, Len(Numbers(n)))
           G == [k \in 0 .. N |-> All(k)]
           s == [k \in 1 .. N |-> Numbers(k)]
<1>1. N \in Nat /\ n - 1 \in 0 .. N /\ n \in 0 .. N /\ N \in n .. N
  BY WorldFacts
<1>2. Numbers(n) \in Seq(Places) /\ j \in 0 .. Len(Numbers(n)) /\ Len(Numbers(n)) \in Nat
  BY NumbersAre
<1>3. x \in Seq(Places) /\ p \in Seq(Places) /\ q \in Seq(Places)
  BY <1>1, <1>2, AllSteps
<1>4. Numbers(n) = p \o q
  BY <1>2, TwoParts
<1>5. PICK u \in Seq(Places) : All(N) = All(n) \o u
  <2>1. \A k \in 0 .. N : G[k] \in Seq(Places)
    BY AllSteps
  <2>2. ASSUME NEW k \in 1 .. N PROVE s[k] \in Seq(Places) /\ G[k] = G[k - 1] \o s[k]
    <3>1. k \in 0 .. N /\ k - 1 \in 0 .. N
      BY <1>1
    <3>2. All(k) = All(k - 1) \o Numbers(k) /\ Numbers(k) \in Seq(Places)
      BY AllSteps, NumbersAre
    <3>3. G[k] = All(k) /\ G[k - 1] = All(k - 1) /\ s[k] = Numbers(k)
      BY <3>1
    <3> HIDE DEF G, s
    <3> QED
      BY <3>2, <3>3
  <2>3. Sums(G, s, N, Places)
    BY <2>1, <2>2 DEF Sums
  <2>4. G[n] = All(n) /\ G[N] = All(N)
    BY <1>1
  <2> HIDE DEF G, s
  <2>5. Extends(G[n], G[N], Places)
    BY <1>1, <2>3, SumsGrow
  <2> QED
    BY <2>4, <2>5 DEF Extends
<1>6. All(n) = x \o Numbers(n)
  BY AllSteps
<1> HIDE DEF x, p, q
<1>7. All(N) = Middle(x, p, q, u)
  BY <1>4, <1>5, <1>6, Zenon DEF Middle
<1>8. Middle(x, p, q, u) = Halves(x, p, q, u)
  BY <1>3, FourParts
<1> DEFINE part == x \o p
           rest == q \o u
<1>9. part \in Seq(Places) /\ rest \in Seq(Places)
  BY <1>3, <1>5
<1>10. All(N) = part \o rest
  BY <1>7, <1>8, Zenon DEF Halves
<1> HIDE DEF part, rest
<1>11. IsPrefix(part, part \o rest)
  BY <1>9, Begins
<1> QED
  BY <1>9, <1>10, <1>11, Zenon DEF part, x, p

-----------------------------------------------------------------------------
(* Scanning a row.                                                         *)

Has(columns, f) == \E k \in DOMAIN columns : columns[k] = f
Scans(columns, row) == \A k \in DOMAIN columns : columns[k] # row.bad

ColumnNames ==
  {"id", "plain", "optional", "date", "handle", "attachments", "calendar", "location", "organizer",
   "store", "account", "folder", "list"}

(* A SELECT list with the id in front.                                     *)
StartsWithId(columns) ==
  columns \in Seq(ColumnNames) /\ Len(columns) \in Nat \ {0} /\ columns[1] = "id"

LEMMA LongerList ==
  ASSUME NEW x, NEW y \in Seq(ColumnNames), StartsWithId(x)
  PROVE  /\ StartsWithId(x \o y)
         /\ \A f : Has(x \o y, f) <=> Has(x, f) \/ Has(y, f)
<1> DEFINE z == x \o y
<1>1. x \in Seq(ColumnNames) /\ Len(x) \in Nat \ {0} /\ x[1] = "id" /\ Len(y) \in Nat
  BY DEF StartsWithId
<1>2. /\ z \in Seq(ColumnNames) /\ Len(z) = Len(x) + Len(y)
      /\ \A k \in 1 .. Len(x) : z[k] = x[k]
      /\ \A k \in 1 .. Len(y) : z[Len(x) + k] = y[k]
  BY <1>1, ConcatProperties
<1>3. DOMAIN x = 1 .. Len(x) /\ DOMAIN y = 1 .. Len(y) /\ DOMAIN z = 1 .. Len(z)
  BY <1>1, <1>2
<1> HIDE DEF z
<1>4. StartsWithId(z)
  BY <1>1, <1>2 DEF StartsWithId
<1>5. ASSUME NEW f, Has(x, f) PROVE Has(z, f)
  <2>1. PICK k \in 1 .. Len(x) : x[k] = f
    BY <1>3, <1>5 DEF Has
  <2>2. k \in 1 .. Len(z) /\ z[k] = f
    BY <1>1, <1>2, <2>1
  <2> QED
    BY <1>3, <2>2 DEF Has
<1>6. ASSUME NEW f, Has(y, f) PROVE Has(z, f)
  <2>1. PICK k \in 1 .. Len(y) : y[k] = f
    BY <1>3, <1>6 DEF Has
  <2>2. Len(x) + k \in 1 .. Len(z) /\ z[Len(x) + k] = f
    BY <1>1, <1>2, <2>1
  <2> QED
    BY <1>3, <2>2 DEF Has
<1>7. ASSUME NEW f, Has(z, f) PROVE Has(x, f) \/ Has(y, f)
  <2>1. PICK k \in 1 .. Len(z) : z[k] = f
    BY <1>3, <1>7 DEF Has
  <2>2. CASE k \in 1 .. Len(x)
    BY <1>2, <1>3, <2>1, <2>2 DEF Has
  <2>3. CASE k \notin 1 .. Len(x)
    <3>1. k - Len(x) \in 1 .. Len(y) /\ Len(x) + (k - Len(x)) = k
      BY <1>1, <1>2, <2>1, <2>3
    <3>2. y[k - Len(x)] = f
      BY <1>2, <2>1, <3>1
    <3> QED
      BY <1>3, <3>1, <3>2 DEF Has
  <2> QED
    BY <2>2, <2>3
<1> QED
  BY <1>4, <1>5, <1>6, <1>7 DEF z

LEMMA LongerByUnit ==
  ASSUME NEW x, NEW db, NEW unit, NEW column \in ColumnNames, StartsWithId(x)
  PROVE  /\ StartsWithId(x \o Col(db, unit, column))
         /\ \A f : Has(x \o Col(db, unit, column), f)
                     <=> Has(x, f) \/ (unit \notin db.absent /\ f = column)
<1> DEFINE y == Col(db, unit, column)
<1>1. y \in Seq(ColumnNames)
  <2>1. <<column>> \in Seq(ColumnNames) /\ <<>> \in Seq(ColumnNames)
    OBVIOUS
  <2> QED
    BY <2>1 DEF Col
<1>2. \A f : Has(y, f) <=> unit \notin db.absent /\ f = column
  BY DEF Col, Has
<1> HIDE DEF y
<1>3. /\ StartsWithId(x \o y)
      /\ \A f : Has(x \o y, f) <=> Has(x, f) \/ Has(y, f)
  BY <1>1, LongerList
<1> QED
  BY <1>2, <1>3 DEF y

LEMMA ShortLists ==
  /\ \A a \in ColumnNames : StartsWithId(<<"id", a>>)
       /\ \A f : Has(<<"id", a>>, f) <=> f \in {"id", a}
  /\ \A a, b \in ColumnNames : StartsWithId(<<"id", a, b>>)
       /\ \A f : Has(<<"id", a, b>>, f) <=> f \in {"id", a, b}
  /\ \A a, b, c \in ColumnNames : StartsWithId(<<"id", a, b, c>>)
       /\ \A f : Has(<<"id", a, b, c>>, f) <=> f \in {"id", a, b, c}
<1>1. ASSUME NEW a \in ColumnNames
      PROVE  StartsWithId(<<"id", a>>) /\ \A f : Has(<<"id", a>>, f) <=> f \in {"id", a}
  <2> DEFINE s == <<"id", a>>
  <2>1. s \in Seq(ColumnNames) /\ Len(s) = 2 /\ s[1] = "id" /\ s[2] = a
    <3>1. "id" \in ColumnNames
      BY DEF ColumnNames
    <3> QED
      BY <3>1
  <2> HIDE DEF s
  <2>2. \A k : k \in DOMAIN s <=> k \in {1, 2}
    BY <2>1
  <2>3. StartsWithId(s)
    BY <2>1 DEF StartsWithId
  <2>4. \A f : Has(s, f) <=> f \in {"id", a}
    BY <2>1, <2>2 DEF Has
  <2> QED
    BY <2>3, <2>4 DEF s
<1>2. ASSUME NEW a \in ColumnNames, NEW b \in ColumnNames
      PROVE  StartsWithId(<<"id", a, b>>) /\ \A f : Has(<<"id", a, b>>, f) <=> f \in {"id", a, b}
  <2> DEFINE s == <<"id", a, b>>
  <2>1. s \in Seq(ColumnNames) /\ Len(s) = 3 /\ s[1] = "id" /\ s[2] = a /\ s[3] = b
    <3>1. "id" \in ColumnNames
      BY DEF ColumnNames
    <3> QED
      BY <3>1
  <2> HIDE DEF s
  <2>2. \A k : k \in DOMAIN s <=> k \in {1, 2, 3}
    BY <2>1
  <2>3. StartsWithId(s)
    BY <2>1 DEF StartsWithId
  <2>4. \A f : Has(s, f) <=> f \in {"id", a, b}
    BY <2>1, <2>2 DEF Has
  <2> QED
    BY <2>3, <2>4 DEF s
<1>3. ASSUME NEW a \in ColumnNames, NEW b \in ColumnNames, NEW c \in ColumnNames
      PROVE  /\ StartsWithId(<<"id", a, b, c>>)
             /\ \A f : Has(<<"id", a, b, c>>, f) <=> f \in {"id", a, b, c}
  <2> DEFINE s == <<"id", a, b, c>>
  <2>1. s \in Seq(ColumnNames) /\ Len(s) = 4 /\ s[1] = "id" /\ s[2] = a /\ s[3] = b /\ s[4] = c
    <3>1. "id" \in ColumnNames
      BY DEF ColumnNames
    <3> QED
      BY <3>1
  <2> HIDE DEF s
  <2>2. \A k : k \in DOMAIN s <=> k \in {1, 2, 3, 4}
    BY <2>1
  <2>3. StartsWithId(s)
    BY <2>1 DEF StartsWithId
  <2>4. \A f : Has(s, f) <=> f \in {"id", a, b, c}
    BY <2>1, <2>2 DEF Has
  <2> QED
    BY <2>3, <2>4 DEF s
<1> QED
  BY <1>1, <1>2, <1>3

(* Which columns each iterator selects of a store.                         *)
LEMMA ColumnsAre ==
  ASSUME NEW db
  PROVE  /\ StartsWithId(EventColumns(db))
         /\ \A f : Has(EventColumns(db), f) <=>
              \/ f \in {"id", "plain", "calendar"}
              \/ "optional" \notin db.absent /\ f = "optional"
              \/ "location" \notin db.absent /\ f = "location"
              \/ "attendees" \notin db.absent /\ f = "organizer"
         /\ StartsWithId(NoteColumns(db))
         /\ \A f : Has(NoteColumns(db), f) <=>
              \/ f \in {"id", "plain"}
              \/ "optional" \notin db.absent /\ f = "optional"
              \/ "folders" \notin db.absent /\ f = "folder"
              \/ "account" \notin db.absent /\ f = "account"
         /\ StartsWithId(FolderColumns(db))
         /\ \A f : Has(FolderColumns(db), f) <=>
              \/ f \in {"id", "plain"}
              \/ "account" \notin db.absent /\ f = "account"
         /\ StartsWithId(ReminderColumns(db))
         /\ \A f : Has(ReminderColumns(db), f) <=>
              \/ f \in {"id", "plain"}
              \/ "optional" \notin db.absent /\ f = "optional"
              \/ "list_link" \notin db.absent /\ f = "list"
              \/ "account" \notin db.absent /\ f = "account"
         /\ StartsWithId(MessageColumns(db))
         /\ \A f : Has(MessageColumns(db), f) <=>
              \/ f \in {"id", "plain", "date", "handle"}
              \/ "optional" \notin db.absent /\ f = "optional"
              \/ "attachments" \notin db.absent /\ f = "attachments"
         /\ StartsWithId(CallColumns(db))
         /\ \A f : Has(CallColumns(db), f) <=>
              \/ f \in {"id", "plain"}
              \/ "optional" \notin db.absent /\ f = "optional"
         /\ StartsWithId(PersonColumns(db))
         /\ \A f : Has(PersonColumns(db), f) <=>
              \/ f \in {"id", "plain"}
              \/ "optional" \notin db.absent /\ f = "optional"
              \/ "account" \notin db.absent /\ f = "store"
<1>1. /\ StartsWithId(EventColumns(db))
      /\ \A f : Has(EventColumns(db), f) <=>
           \/ f \in {"id", "plain", "calendar"}
           \/ "optional" \notin db.absent /\ f = "optional"
           \/ "location" \notin db.absent /\ f = "location"
           \/ "attendees" \notin db.absent /\ f = "organizer"
  <2> DEFINE x0 == <<"id", "plain", "calendar">>
             x1 == x0 \o Col(db, "optional", "optional")
             x2 == x1 \o Col(db, "location", "location")
             x3 == x2 \o Col(db, "attendees", "organizer")
  <2>1. StartsWithId(x0) /\ \A f : Has(x0, f) <=> f \in {"id", "plain", "calendar"}
    <3>1. "plain" \in ColumnNames /\ "calendar" \in ColumnNames
      BY DEF ColumnNames
    <3> QED
      BY <3>1, ShortLists
  <2>2. EventColumns(db) = x3
    BY DEF EventColumns
  <2> HIDE DEF x0
  <2>3. /\ StartsWithId(x1)
        /\ \A f : Has(x1, f) <=> Has(x0, f) \/ ("optional" \notin db.absent /\ f = "optional")
    <3>1. "optional" \in ColumnNames
      BY DEF ColumnNames
    <3> QED
      BY <2>1, <3>1, LongerByUnit
  <2> HIDE DEF x1
  <2>4. /\ StartsWithId(x2)
        /\ \A f : Has(x2, f) <=> Has(x1, f) \/ ("location" \notin db.absent /\ f = "location")
    <3>1. "location" \in ColumnNames
      BY DEF ColumnNames
    <3> QED
      BY <2>3, <3>1, LongerByUnit
  <2> HIDE DEF x2
  <2>5. /\ StartsWithId(x3)
        /\ \A f : Has(x3, f) <=> Has(x2, f) \/ ("attendees" \notin db.absent /\ f = "organizer")
    <3>1. "organizer" \in ColumnNames
      BY DEF ColumnNames
    <3> QED
      BY <2>4, <3>1, LongerByUnit
  <2> HIDE DEF x3
  <2> QED
    BY <2>1, <2>2, <2>3, <2>4, <2>5
<1>2. /\ StartsWithId(NoteColumns(db))
      /\ \A f : Has(NoteColumns(db), f) <=>
           \/ f \in {"id", "plain"}
           \/ "optional" \notin db.absent /\ f = "optional"
           \/ "folders" \notin db.absent /\ f = "folder"
           \/ "account" \notin db.absent /\ f = "account"
  <2> DEFINE x0 == <<"id", "plain">>
             x1 == x0 \o Col(db, "optional", "optional")
             x2 == x1 \o Col(db, "folders", "folder")
             x3 == x2 \o Col(db, "account", "account")
  <2>1. StartsWithId(x0) /\ \A f : Has(x0, f) <=> f \in {"id", "plain"}
    <3>1. "plain" \in ColumnNames
      BY DEF ColumnNames
    <3> QED
      BY <3>1, ShortLists
  <2>2. NoteColumns(db) = x3
    BY DEF NoteColumns
  <2> HIDE DEF x0
  <2>3. /\ StartsWithId(x1)
        /\ \A f : Has(x1, f) <=> Has(x0, f) \/ ("optional" \notin db.absent /\ f = "optional")
    <3>1. "optional" \in ColumnNames
      BY DEF ColumnNames
    <3> QED
      BY <2>1, <3>1, LongerByUnit
  <2> HIDE DEF x1
  <2>4. /\ StartsWithId(x2)
        /\ \A f : Has(x2, f) <=> Has(x1, f) \/ ("folders" \notin db.absent /\ f = "folder")
    <3>1. "folder" \in ColumnNames
      BY DEF ColumnNames
    <3> QED
      BY <2>3, <3>1, LongerByUnit
  <2> HIDE DEF x2
  <2>5. /\ StartsWithId(x3)
        /\ \A f : Has(x3, f) <=> Has(x2, f) \/ ("account" \notin db.absent /\ f = "account")
    <3>1. "account" \in ColumnNames
      BY DEF ColumnNames
    <3> QED
      BY <2>4, <3>1, LongerByUnit
  <2> HIDE DEF x3
  <2> QED
    BY <2>1, <2>2, <2>3, <2>4, <2>5
<1>3. /\ StartsWithId(FolderColumns(db))
      /\ \A f : Has(FolderColumns(db), f) <=>
           \/ f \in {"id", "plain"}
           \/ "account" \notin db.absent /\ f = "account"
  <2> DEFINE x0 == <<"id", "plain">>
             x1 == x0 \o Col(db, "account", "account")
  <2>1. StartsWithId(x0) /\ \A f : Has(x0, f) <=> f \in {"id", "plain"}
    <3>1. "plain" \in ColumnNames
      BY DEF ColumnNames
    <3> QED
      BY <3>1, ShortLists
  <2>2. FolderColumns(db) = x1
    BY DEF FolderColumns
  <2> HIDE DEF x0
  <2>3. /\ StartsWithId(x1)
        /\ \A f : Has(x1, f) <=> Has(x0, f) \/ ("account" \notin db.absent /\ f = "account")
    <3>1. "account" \in ColumnNames
      BY DEF ColumnNames
    <3> QED
      BY <2>1, <3>1, LongerByUnit
  <2> HIDE DEF x1
  <2> QED
    BY <2>1, <2>2, <2>3
<1>4. /\ StartsWithId(ReminderColumns(db))
      /\ \A f : Has(ReminderColumns(db), f) <=>
           \/ f \in {"id", "plain"}
           \/ "optional" \notin db.absent /\ f = "optional"
           \/ "list_link" \notin db.absent /\ f = "list"
           \/ "account" \notin db.absent /\ f = "account"
  <2> DEFINE x0 == <<"id", "plain">>
             x1 == x0 \o Col(db, "optional", "optional")
             x2 == x1 \o Col(db, "list_link", "list")
             x3 == x2 \o Col(db, "account", "account")
  <2>1. StartsWithId(x0) /\ \A f : Has(x0, f) <=> f \in {"id", "plain"}
    <3>1. "plain" \in ColumnNames
      BY DEF ColumnNames
    <3> QED
      BY <3>1, ShortLists
  <2>2. ReminderColumns(db) = x3
    BY DEF ReminderColumns
  <2> HIDE DEF x0
  <2>3. /\ StartsWithId(x1)
        /\ \A f : Has(x1, f) <=> Has(x0, f) \/ ("optional" \notin db.absent /\ f = "optional")
    <3>1. "optional" \in ColumnNames
      BY DEF ColumnNames
    <3> QED
      BY <2>1, <3>1, LongerByUnit
  <2> HIDE DEF x1
  <2>4. /\ StartsWithId(x2)
        /\ \A f : Has(x2, f) <=> Has(x1, f) \/ ("list_link" \notin db.absent /\ f = "list")
    <3>1. "list" \in ColumnNames
      BY DEF ColumnNames
    <3> QED
      BY <2>3, <3>1, LongerByUnit
  <2> HIDE DEF x2
  <2>5. /\ StartsWithId(x3)
        /\ \A f : Has(x3, f) <=> Has(x2, f) \/ ("account" \notin db.absent /\ f = "account")
    <3>1. "account" \in ColumnNames
      BY DEF ColumnNames
    <3> QED
      BY <2>4, <3>1, LongerByUnit
  <2> HIDE DEF x3
  <2> QED
    BY <2>1, <2>2, <2>3, <2>4, <2>5
<1>5. /\ StartsWithId(MessageColumns(db))
      /\ \A f : Has(MessageColumns(db), f) <=>
           \/ f \in {"id", "plain", "date", "handle"}
           \/ "optional" \notin db.absent /\ f = "optional"
           \/ "attachments" \notin db.absent /\ f = "attachments"
  <2> DEFINE x0 == <<"id", "plain", "date", "handle">>
             x1 == x0 \o Col(db, "optional", "optional")
             x2 == x1 \o Col(db, "attachments", "attachments")
  <2>1. StartsWithId(x0) /\ \A f : Has(x0, f) <=> f \in {"id", "plain", "date", "handle"}
    <3>1. "plain" \in ColumnNames /\ "date" \in ColumnNames /\ "handle" \in ColumnNames
      BY DEF ColumnNames
    <3> QED
      BY <3>1, ShortLists
  <2>2. MessageColumns(db) = x2
    BY DEF MessageColumns
  <2> HIDE DEF x0
  <2>3. /\ StartsWithId(x1)
        /\ \A f : Has(x1, f) <=> Has(x0, f) \/ ("optional" \notin db.absent /\ f = "optional")
    <3>1. "optional" \in ColumnNames
      BY DEF ColumnNames
    <3> QED
      BY <2>1, <3>1, LongerByUnit
  <2> HIDE DEF x1
  <2>4. /\ StartsWithId(x2)
        /\ \A f : Has(x2, f) <=> Has(x1, f) \/ ("attachments" \notin db.absent /\ f = "attachments")
    <3>1. "attachments" \in ColumnNames
      BY DEF ColumnNames
    <3> QED
      BY <2>3, <3>1, LongerByUnit
  <2> HIDE DEF x2
  <2> QED
    BY <2>1, <2>2, <2>3, <2>4
<1>6. /\ StartsWithId(CallColumns(db))
      /\ \A f : Has(CallColumns(db), f) <=>
           \/ f \in {"id", "plain"}
           \/ "optional" \notin db.absent /\ f = "optional"
  <2> DEFINE x0 == <<"id", "plain">>
             x1 == x0 \o Col(db, "optional", "optional")
  <2>1. StartsWithId(x0) /\ \A f : Has(x0, f) <=> f \in {"id", "plain"}
    <3>1. "plain" \in ColumnNames
      BY DEF ColumnNames
    <3> QED
      BY <3>1, ShortLists
  <2>2. CallColumns(db) = x1
    BY DEF CallColumns
  <2> HIDE DEF x0
  <2>3. /\ StartsWithId(x1)
        /\ \A f : Has(x1, f) <=> Has(x0, f) \/ ("optional" \notin db.absent /\ f = "optional")
    <3>1. "optional" \in ColumnNames
      BY DEF ColumnNames
    <3> QED
      BY <2>1, <3>1, LongerByUnit
  <2> HIDE DEF x1
  <2> QED
    BY <2>1, <2>2, <2>3
<1>7. /\ StartsWithId(PersonColumns(db))
      /\ \A f : Has(PersonColumns(db), f) <=>
           \/ f \in {"id", "plain"}
           \/ "optional" \notin db.absent /\ f = "optional"
           \/ "account" \notin db.absent /\ f = "store"
  <2> DEFINE x0 == <<"id", "plain">>
             x1 == x0 \o Col(db, "optional", "optional")
             x2 == x1 \o Col(db, "account", "store")
  <2>1. StartsWithId(x0) /\ \A f : Has(x0, f) <=> f \in {"id", "plain"}
    <3>1. "plain" \in ColumnNames
      BY DEF ColumnNames
    <3> QED
      BY <3>1, ShortLists
  <2>2. PersonColumns(db) = x2
    BY DEF PersonColumns
  <2> HIDE DEF x0
  <2>3. /\ StartsWithId(x1)
        /\ \A f : Has(x1, f) <=> Has(x0, f) \/ ("optional" \notin db.absent /\ f = "optional")
    <3>1. "optional" \in ColumnNames
      BY DEF ColumnNames
    <3> QED
      BY <2>1, <3>1, LongerByUnit
  <2> HIDE DEF x1
  <2>4. /\ StartsWithId(x2)
        /\ \A f : Has(x2, f) <=> Has(x1, f) \/ ("account" \notin db.absent /\ f = "store")
    <3>1. "store" \in ColumnNames
      BY DEF ColumnNames
    <3> QED
      BY <2>3, <3>1, LongerByUnit
  <2> HIDE DEF x2
  <2> QED
    BY <2>1, <2>2, <2>3, <2>4
<1> QED
  BY <1>1, <1>2, <1>3, <1>4, <1>5, <1>6, <1>7

LEMMA IdComesFirst ==
  ASSUME NEW db, iterator \in Iterators
  PROVE  StartsWithId(ColumnsOf(iterator, db))
<1> "plain" \in ColumnNames /\ "store" \in ColumnNames /\ "account" \in ColumnNames
  BY DEF ColumnNames
<1>1. StartsWithId(<<"id", "plain">>)
  BY ShortLists
<1>2. StartsWithId(<<"id", "store", "plain">>) /\ StartsWithId(<<"id", "plain", "account">>)
  BY ShortLists
<1>3. /\ StartsWithId(CalendarColumns) /\ StartsWithId(ListColumns)
      /\ StartsWithId(ChatColumns) /\ StartsWithId(GroupColumns)
  BY <1>1, <1>2 DEF CalendarColumns, ListColumns, ChatColumns, GroupColumns
<1>4. /\ StartsWithId(EventColumns(db)) /\ StartsWithId(NoteColumns(db))
      /\ StartsWithId(FolderColumns(db)) /\ StartsWithId(ReminderColumns(db))
      /\ StartsWithId(MessageColumns(db)) /\ StartsWithId(CallColumns(db))
      /\ StartsWithId(PersonColumns(db))
  BY ColumnsAre
<1> QED
  BY <1>3, <1>4 DEF ColumnsOf, Iterators

(* A row has whatever the widest SELECT names; a narrower one names less.     *)
LEMMA ColumnsThere ==
  ASSUME NEW db, iterator \in Iterators, IsAnchor(iterator, db), NEW row \in db.rows
  PROVE  /\ row.bad # "id"
         /\ \A k \in DOMAIN ColumnsOf(iterator, db) : ColumnsOf(iterator, db)[k] \in DOMAIN row \ {"bad"}
         /\ \A f : Has(ColumnsOf(iterator, [absent |-> {}]), f) => f \in DOMAIN row \ {"bad"}
<1> DEFINE all == [absent |-> {}]
<1>1. row.bad # "id" /\ \A k \in DOMAIN ColumnsOf(iterator, all) : ColumnsOf(iterator, all)[k] \in DOMAIN row \ {"bad"}
  BY DEF IsAnchor
<1>2. \A f : Has(ColumnsOf(iterator, all), f) => f \in DOMAIN row \ {"bad"}
  BY <1>1 DEF Has
<1>3. all.absent = {}
  OBVIOUS
<1> HIDE DEF all
<1>4. ASSUME NEW f, Has(ColumnsOf(iterator, db), f) PROVE Has(ColumnsOf(iterator, all), f)
  <2>1. CASE iterator \in {"Calendars", "Lists", "Chats", "Groups"}
    BY <1>4, <2>1 DEF ColumnsOf
  <2>2. CASE iterator = "Events"
    BY <1>3, <1>4, <2>2, ColumnsAre DEF ColumnsOf
  <2>3. CASE iterator = "Notes"
    BY <1>3, <1>4, <2>3, ColumnsAre DEF ColumnsOf
  <2>4. CASE iterator = "Folders"
    BY <1>3, <1>4, <2>4, ColumnsAre DEF ColumnsOf
  <2>5. CASE iterator = "Reminders"
    BY <1>3, <1>4, <2>5, ColumnsAre DEF ColumnsOf
  <2>6. CASE iterator \in {"Messages", "ChatMessages"}
    BY <1>3, <1>4, <2>6, ColumnsAre DEF ColumnsOf
  <2>7. CASE iterator = "Calls"
    BY <1>3, <1>4, <2>7, ColumnsAre DEF ColumnsOf
  <2>8. CASE iterator = "People"
    BY <1>3, <1>4, <2>8, ColumnsAre DEF ColumnsOf
  <2> QED
    BY <2>1, <2>2, <2>3, <2>4, <2>5, <2>6, <2>7, <2>8 DEF Iterators
<1>5. \A k \in DOMAIN ColumnsOf(iterator, db) : Has(ColumnsOf(iterator, db), ColumnsOf(iterator, db)[k])
  BY DEF Has
<1> QED
  BY <1>1, <1>2, <1>4, <1>5 DEF all

(* What is scanned of a row is the row's: its id in any case, and all that is *)
(* selected when every column can be scanned.                              *)
LEMMA ScannedIsOfTheRow ==
  ASSUME NEW columns, StartsWithId(columns), NEW row, row.bad # "id",
         \A k \in DOMAIN columns : columns[k] \in DOMAIN row \ {"bad"}
  PROVE  /\ Scanned(columns, row).id = row.id
         /\ Scans(columns, row) =>
              \A f \in DOMAIN row \ {"bad"} :
                Scanned(columns, row)[f] = IF Has(columns, f) THEN row[f] ELSE Null
<1> DEFINE upto == IF \E k \in DOMAIN columns : columns[k] = row.bad
                   THEN CHOOSE k \in DOMAIN columns : columns[k] = row.bad ELSE Len(columns) + 1
<1>1. DOMAIN columns = 1 .. Len(columns) /\ Len(columns) \in Nat \ {0} /\ columns[1] = "id"
  BY DEF StartsWithId
<1>2. Scanned(columns, row) =
        [f \in DOMAIN row \ {"bad"} |->
           IF \E k \in 1 .. upto - 1 : columns[k] = f THEN row[f] ELSE Null]
  BY DEF Scanned
<1>3. upto \in 2 .. Len(columns) + 1
  <2>1. CASE \E k \in DOMAIN columns : columns[k] = row.bad
    <3>1. upto \in DOMAIN columns /\ columns[upto] = row.bad
      BY <2>1
    <3>2. upto # 1
      BY <1>1, <3>1
    <3> HIDE DEF upto
    <3> QED
      BY <1>1, <3>1, <3>2
  <2>2. CASE ~\E k \in DOMAIN columns : columns[k] = row.bad
    <3>1. upto = Len(columns) + 1
      BY <2>2
    <3> QED
      BY <1>1, <3>1
  <2> QED
    BY <2>1, <2>2
<1>4. Scans(columns, row) => upto = Len(columns) + 1
  BY DEF Scans
<1> HIDE DEF upto
<1>5. 1 \in 1 .. upto - 1 /\ "id" \in DOMAIN row \ {"bad"}
  BY <1>1, <1>3
<1>6. Scanned(columns, row)["id"] = row["id"]
  BY <1>1, <1>2, <1>5
<1>7. ASSUME Scans(columns, row), NEW f \in DOMAIN row \ {"bad"}
      PROVE  Scanned(columns, row)[f] = IF Has(columns, f) THEN row[f] ELSE Null
  <2>1. 1 .. upto - 1 = DOMAIN columns
    BY <1>1, <1>4, <1>7
  <2> QED
    BY <1>2, <2>1 DEF Has
<1> QED
  BY <1>6, <1>7

-----------------------------------------------------------------------------
(* Types                                                                   *)

IsList(s) == s \in Seq({s[k] : k \in DOMAIN s})

LEMMA Lists ==
  ASSUME NEW T, NEW s \in Seq(T)
  PROVE  IsList(s) /\ Len(s) \in Nat /\ DOMAIN s = 1 .. Len(s)
  BY DEF IsList

LEMMA Appended ==
  ASSUME NEW s, IsList(s), NEW g
  PROVE  LET t == Append(s, g) IN
         /\ IsList(t) /\ Len(s) \in Nat /\ Len(t) = Len(s) + 1
         /\ DOMAIN s = 1 .. Len(s) /\ DOMAIN t = 1 .. Len(s) + 1
         /\ \A k \in DOMAIN s : t[k] = s[k]
         /\ t[Len(s) + 1] = g
<1> DEFINE T == {s[k] : k \in DOMAIN s} \cup {g}
           t == Append(s, g)
<1>1. s \in Seq(T) /\ g \in T
  BY DEF IsList
<1> HIDE DEF T
<1>2. t \in Seq(T) /\ Len(t) = Len(s) + 1 /\ Len(s) \in Nat
  BY <1>1
<1>3. (\A k \in 1 .. Len(s) : t[k] = s[k]) /\ t[Len(s) + 1] = g
  BY <1>1
<1> HIDE DEF t
<1>4. IsList(t) /\ DOMAIN t = 1 .. Len(t) /\ DOMAIN s = 1 .. Len(s)
  BY <1>1, <1>2, Lists
<1> QED
  BY <1>2, <1>3, <1>4 DEF t

Within == 1 .. Len(stores)

TypeInv ==
  /\ WorldInv /\ TypeOK /\ IsList(given)
  /\ at \in [store : 0 .. Len(stores), row : Nat]
  /\ pc # "outside" => at.store \in Within /\ ending = "none"
  /\ pc = "load" => at.row = 0
  /\ pc = "rows" => at.row <= Len(Result(stores[at.store]))

(* What the row that is next turns into.                                   *)
RowAtHand == Result(stores[at.store])[at.row + 1]
ColumnsAtHand == ColumnsOf(iterator, stores[at.store])
RecordsFrom(db, row) ==
  IF Scans(ColumnsOf(iterator, db), row)
  THEN RecordOf(db, Scanned(ColumnsOf(iterator, db), row)) ELSE {}

(* A row is given under its own number, as what it turns into.              *)
RowGiven(g) ==
  /\ given' = Append(given, g)
  /\ g.kind \in {"record", "RowError"} /\ g.store = at.store /\ g.id = RowAtHand.id
  /\ g.kind = "RowError" <=> RecordsFrom(stores[at.store], RowAtHand) = {}
  /\ g.kind = "record" => g.record \in RecordsFrom(stores[at.store], RowAtHand)
  /\ \/ children' = children /\ wrote' = wrote
     \/ children' = Spoiled(g.record) /\ wrote' = TRUE /\ g.kind = "record"

LEMMA OneRowGiven ==
  ASSUME TypeInv, NextRow
  PROVE  /\ at.store \in Within /\ at.row + 1 \in 1 .. Len(Result(stores[at.store]))
         /\ RowAtHand \in stores[at.store].rows /\ RowAtHand.id \in Int
         /\ \E g : RowGiven(g)
         /\ at' = [at EXCEPT !.row = at.row + 1]
         /\ (pc' = "rows" /\ ending' = "none") \/ (pc' = "outside" /\ ending' = "stopped")
         /\ UNCHANGED <<iterator, stores, ranges>>
<1> DEFINE db == stores[at.store]
           row == RowAtHand
           columns == ColumnsAtHand
<1>1. pc = "rows" /\ at.row < Len(Result(db)) /\ at.store \in Within /\ at.row \in Nat /\ ending = "none"
  BY DEF NextRow, TypeInv, TypeOK
<1>2. iterator \in Iterators /\ IsAnchor(iterator, db)
  BY <1>1, WorldFacts DEF TypeInv, Within
<1>3. Len(Result(db)) \in Nat /\ \A k \in 1 .. Len(Result(db)) : Result(db)[k] \in db.rows
  BY <1>2, ResultLists
<1>4. at.row + 1 \in 1 .. Len(Result(db))
  BY <1>1, <1>3
<1>5. row \in db.rows
  BY <1>3, <1>4 DEF RowAtHand
<1>6. row.id \in Int /\ row.bad # "id" /\ \A k \in DOMAIN columns : columns[k] \in DOMAIN row \ {"bad"}
  BY <1>2, <1>5, ColumnsThere DEF IsAnchor, ColumnsAtHand
<1>7. StartsWithId(columns)
  BY <1>2, IdComesFirst DEF ColumnsAtHand
<1>8. buffer' = Scanned(columns, row)
  BY DEF NextRow, ColumnsAtHand, RowAtHand
<1>9. buffer'.id = row.id /\ row.id # Null
  BY <1>6, <1>7, <1>8, ScannedIsOfTheRow, RecordsAssumption
<1> DEFINE records == RecordsFrom(db, row)
           entry(kind, record) == [kind |-> kind, store |-> at.store, id |-> row.id, record |-> record]
<1>10. records = IF \A k \in DOMAIN columns : columns[k] # row.bad
                 THEN RecordOf(db, buffer') ELSE {}
  BY <1>8 DEF RecordsFrom, Scans, ColumnsAtHand
<1>11. \/ \E record \in records :
            /\ given' = Append(given, entry("record", record))
            /\ \/ children' = children /\ wrote' = wrote
               \/ children' = Spoiled(record) /\ wrote' = TRUE
       \/ /\ records = {}
          /\ given' = Append(given, entry("RowError", Null))
          /\ children' = children /\ wrote' = wrote
  <2> HIDE DEF records
  <2> QED
    BY <1>9, <1>10 DEF NextRow, Give, RowAtHand, ColumnsAtHand
<1>12. \E g : RowGiven(g)
  <2>1. ASSUME NEW record \in records,
               given' = Append(given, entry("record", record)),
               \/ children' = children /\ wrote' = wrote
               \/ children' = Spoiled(record) /\ wrote' = TRUE
        PROVE  RowGiven(entry("record", record))
    <3> DEFINE g == entry("record", record)
    <3>1. g.kind = "record" /\ g.store = at.store /\ g.id = row.id /\ g.record = record
      OBVIOUS
    <3>2. given' = Append(given, g)
      BY <2>1
    <3> HIDE DEF g
    <3> QED
      BY <2>1, <3>1, <3>2 DEF RowGiven, g
  <2>2. ASSUME records = {}, given' = Append(given, entry("RowError", Null)),
               children' = children, wrote' = wrote
        PROVE  RowGiven(entry("RowError", Null))
    <3> DEFINE g == entry("RowError", Null)
    <3>1. g.kind = "RowError" /\ g.store = at.store /\ g.id = row.id
      OBVIOUS
    <3>2. given' = Append(given, g)
      BY <2>2
    <3> HIDE DEF g
    <3> QED
      BY <2>2, <3>1, <3>2 DEF RowGiven, g
  <2> HIDE DEF records, entry
  <2> QED
    BY <1>11, <2>1, <2>2
<1>13. (pc' = "rows" /\ ending' = "none") \/ (pc' = "outside" /\ ending' = "stopped")
  BY <1>1 DEF NextRow, GoesOn, Leave
<1>14. at' = [at EXCEPT !.row = at.row + 1] /\ UNCHANGED <<iterator, stores, ranges>>
  BY DEF NextRow
<1> QED
  BY <1>1, <1>4, <1>5, <1>6, <1>12, <1>13, <1>14

LEMMA Unmoved ==
  ASSUME UNCHANGED <<iterator, stores>>
  PROVE  /\ WorldInv' <=> WorldInv
         /\ \A k : Result(stores[k])' = Result(stores[k])
         /\ \A k : Numbers(k)' = Numbers(k)
         /\ \A n : All(n)' = All(n)
         /\ \A k : Unreadable(stores[k])' <=> Unreadable(stores[k])
         /\ Refused' <=> Refused
<1>1. WorldInv' <=> WorldInv
  BY DEF WorldInv
<1>2. ASSUME NEW k PROVE Result(stores[k])' = Result(stores[k])
  BY DEF Result, Anchored, Before
<1>3. ASSUME NEW k PROVE Numbers(k)' = Numbers(k)
  BY DEF Numbers, Result, Anchored, Before
<1>4. ASSUME NEW n PROVE All(n)' = All(n)
  BY DEF All, Numbers, Result, Anchored, Before
<1>5. ASSUME NEW k PROVE Unreadable(stores[k])' <=> Unreadable(stores[k])
  BY DEF Unreadable, TablesOf
<1>6. Refused' <=> Refused
  BY DEF Refused, UnitOf
<1> QED
  BY <1>1, <1>2, <1>3, <1>4, <1>5, <1>6

LEMMA TypeInit == Init => TypeInv
<1> SUFFICES ASSUME Init PROVE TypeInv
  OBVIOUS
<1>1. WorldInv
  BY DEF Init, WorldInv
<1>2. Len(stores) \in Nat
  BY <1>1, WorldFacts
<1>3. IsList(given) /\ DOMAIN given = {}
  BY DEF Init, IsList
<1>4. TypeOK
  <2>1. at.store \in 0 .. Len(stores) /\ at.row \in Nat
    BY <1>2 DEF Init
  <2>2. ranges \in 0 .. MaxRanges
    BY RecordsAssumption DEF Init
  <2>3. wrote \in BOOLEAN
    BY DEF Init
  <2>4. pc \in {"outside", "load", "rows"}
    BY DEF Init
  <2>5. ending \in {"none", "complete", "stopped", "error", "unavailable"}
    BY DEF Init
  <2> QED
    BY <1>3, <2>1, <2>2, <2>3, <2>4, <2>5 DEF TypeOK
<1> QED
  BY <1>1, <1>2, <1>3, <1>4 DEF Init, TypeInv

LEMMA TypeStep == TypeInv /\ [Next]_vars => TypeInv'
<1> SUFFICES ASSUME TypeInv, [Next]_vars PROVE TypeInv'
  OBVIOUS
<1>1. WorldInv /\ Len(stores) \in Nat \ {0} /\ MaxRanges \in Nat
  BY WorldFacts, RecordsAssumption DEF TypeInv
<1>2. UNCHANGED <<iterator, stores>>
  BY DEF Next, Begin, Load, NextRow, EndOfRows, vars
<1>3. WorldInv' /\ Len(stores') = Len(stores) /\ Within' = Within
  BY <1>1, <1>2, Unmoved DEF Within
<1>4. TypeOK
  BY DEF TypeInv
<1>5. CASE UNCHANGED vars
  <2>1. Result(stores[at.store])' = Result(stores[at.store])
    BY <1>5 DEF Result, Anchored, Before, vars
  <2>2. TypeOK'
    BY <1>4, <1>5 DEF TypeOK, vars
  <2> QED
    BY <1>3, <1>5, <2>1, <2>2 DEF TypeInv, IsList, vars
<1>6. CASE Begin
  <2>1. /\ given' = <<>> /\ wrote' = FALSE /\ ranges' = ranges + 1 /\ ranges < MaxRanges
        /\ at' = [store |-> 1, row |-> 0]
        /\ pc' \in {"outside", "load"} /\ ending' \in {"none", "unavailable"}
        /\ pc' # "outside" => ending' = "none"
    BY <1>6 DEF Begin, Leave
  <2>2. DOMAIN given' = {} /\ IsList(given')
    BY <2>1 DEF IsList
  <2>3. TypeOK'
    <3>1. at'.store = 1 /\ at'.row = 0 /\ 1 \in 0 .. Len(stores) /\ ranges + 1 \in 0 .. MaxRanges
      BY <1>1, <1>4, <2>1 DEF TypeOK
    <3> QED
      BY <1>3, <2>1, <2>2, <3>1 DEF TypeOK
  <2>4. at' \in [store : 0 .. Len(stores), row : Nat] /\ at'.store \in Within
    BY <1>1, <2>1 DEF Within
  <2> QED
    BY <1>3, <2>1, <2>2, <2>3, <2>4 DEF TypeInv, IsList
<1>7. CASE Load
  <2>1. /\ UNCHANGED <<at, given, wrote, ranges>> /\ pc = "load"
        /\ \/ pc' = "outside" /\ ending' = "error"
           \/ pc' = "rows" /\ ending' = ending
    BY <1>7 DEF Load, Leave
  <2>2. TypeOK'
    BY <1>3, <1>4, <2>1 DEF TypeOK
  <2>3. at'.row = 0 /\ Len(Result(stores[at.store]))' \in Nat
    <3>1. at.store \in Within /\ at.row = 0
      BY <2>1 DEF TypeInv
    <3>2. IsAnchor(iterator, stores[at.store])
      BY <1>1, <3>1, WorldFacts DEF Within
    <3>3. Result(stores[at.store])' = Result(stores[at.store])
      BY <1>2, <2>1 DEF Result, Anchored, Before
    <3> QED
      BY <2>1, <3>1, <3>2, <3>3, ResultLists
  <2> QED
    BY <1>3, <2>1, <2>2, <2>3 DEF TypeInv, IsList
<1>8. CASE NextRow
  <2>1. PICK g : RowGiven(g)
    BY <1>8, OneRowGiven
  <2>2. /\ at.store \in Within /\ at.row + 1 \in 1 .. Len(Result(stores[at.store]))
        /\ RowAtHand.id \in Int /\ ranges' = ranges
        /\ at' = [at EXCEPT !.row = at.row + 1]
        /\ (pc' = "rows" /\ ending' = "none") \/ (pc' = "outside" /\ ending' = "stopped")
    BY <1>8, OneRowGiven
  <2>3. /\ given' = Append(given, g)
        /\ g.kind \in {"record", "RowError"} /\ g.store = at.store /\ g.id = RowAtHand.id
        /\ wrote' \in {wrote, TRUE}
    BY <2>1 DEF RowGiven
  <2>4. /\ IsList(given') /\ Len(given) \in Nat /\ DOMAIN given = 1 .. Len(given)
        /\ DOMAIN given' = 1 .. Len(given) + 1
        /\ \A k \in DOMAIN given : given'[k] = given[k]
        /\ given'[Len(given) + 1] = g
    <3>1. IsList(given)
      BY DEF TypeInv
    <3> QED
      BY <2>3, <3>1, Appended
  <2>5. at' \in [store : 0 .. Len(stores), row : Nat] /\ at'.store = at.store /\ at'.row = at.row + 1
    BY <2>2 DEF TypeInv
  <2>6. ASSUME NEW k \in DOMAIN given'
        PROVE  /\ given'[k].kind \in {"record", "RowError"} /\ given'[k].id \in Int
               /\ given'[k].store \in 1 .. at'.store
    <3>1. CASE k \in DOMAIN given
      BY <1>4, <2>4, <2>5, <3>1 DEF TypeOK
    <3>2. CASE k = Len(given) + 1
      BY <2>2, <2>3, <2>4, <2>5, <3>2 DEF Within
    <3> QED
      BY <2>4, <3>1, <3>2
  <2>7. TypeOK'
    BY <1>3, <1>4, <2>2, <2>3, <2>5, <2>6 DEF TypeOK
  <2>8. Result(stores[at.store])' = Result(stores[at.store])
    BY <1>2, <2>5 DEF Result, Anchored, Before
  <2>9. at'.row <= Len(Result(stores[at.store]))'
    BY <2>2, <2>5, <2>8
  <2> QED
    BY <1>3, <2>2, <2>4, <2>5, <2>7, <2>9 DEF TypeInv, IsList
<1>9. CASE EndOfRows
  <2>1. /\ pc = "rows" /\ UNCHANGED <<given, wrote, ranges>>
        /\ \/ /\ at.store < Len(stores) /\ at' = [store |-> at.store + 1, row |-> 0]
              /\ pc' = "load" /\ ending' = ending
           \/ pc' = "outside" /\ ending' = "complete" /\ at' = at
    BY <1>9 DEF EndOfRows, More, Leave
  <2>2. at.store \in Within /\ ending = "none" /\ at \in [store : 0 .. Len(stores), row : Nat]
    BY <2>1 DEF TypeInv
  <2>3. at' \in [store : 0 .. Len(stores), row : Nat] /\ at'.store >= at.store
    BY <1>1, <2>1, <2>2 DEF Within
  <2>4. pc' # "outside" => at'.store \in Within
    BY <1>1, <2>1, <2>2 DEF Within
  <2>5. TypeOK'
    <3>1. \A k \in DOMAIN given : given[k].store \in 1 .. at'.store
      BY <1>4, <2>2, <2>3 DEF TypeOK, Within
    <3> QED
      BY <1>3, <1>4, <2>1, <2>2, <2>3, <3>1 DEF TypeOK
  <2> QED
    BY <1>3, <2>1, <2>2, <2>3, <2>4, <2>5 DEF TypeInv, IsList
<1> QED
  BY <1>5, <1>6, <1>7, <1>8, <1>9 DEF Next

(* The types of a range: where it is, how it ended, and that what it gave     *)
(* came from stores it has reached, under ids that are numbers.              *)
THEOREM Typing == Spec => []TypeOK
<1>1. TypeInv => TypeOK
  BY DEF TypeInv
<1> QED
  BY <1>1, TypeInit, TypeStep, PTL DEF Spec

-----------------------------------------------------------------------------
(* Order                                                                   *)

(* While rows are read, just what was read before them has been given.       *)
PlaceInv ==
  /\ RowsInOrder
  /\ pc = "load" => Seen = All(at.store - 1)
  /\ pc = "rows" => Seen = All(at.store - 1) \o SubSeq(Numbers(at.store), 1, at.row)

LEMMA SeenIsList ==
  ASSUME TypeInv
  PROVE  Seen \in Seq(Places) /\ Len(Seen) = Len(given) /\ Len(given) \in Nat
<1>1. Len(given) \in Nat /\ DOMAIN given = 1 .. Len(given)
  BY DEF TypeInv, IsList
<1>2. Len(stores) \in Nat
  BY WorldFacts DEF TypeInv
<1>3. \A k \in 1 .. Len(given) : given[k].store \in Nat /\ given[k].id \in Int
  BY <1>1, <1>2 DEF TypeInv, TypeOK
<1> QED
  BY <1>1, <1>3 DEF Seen, Places

LEMMA SeenGrows ==
  ASSUME TypeInv, NEW g, RowGiven(g)
  PROVE  Seen' = Append(Seen, <<g.store, g.id>>)
<1>1. /\ Len(given) \in Nat /\ Len(given') = Len(given) + 1 /\ DOMAIN given = 1 .. Len(given)
      /\ \A k \in DOMAIN given : given'[k] = given[k]
      /\ given'[Len(given) + 1] = g
  BY Appended DEF TypeInv, RowGiven
<1>2. Seen' = [k \in 1 .. Len(given) + 1 |->
                 IF k = Len(given) + 1 THEN <<g.store, g.id>> ELSE <<given[k].store, given[k].id>>]
  <2>1. Seen' = [k \in 1 .. Len(given) + 1 |-> <<given'[k].store, given'[k].id>>]
    BY <1>1 DEF Seen
  <2>2. ASSUME NEW k \in 1 .. Len(given) + 1
        PROVE  <<given'[k].store, given'[k].id>> =
                 IF k = Len(given) + 1 THEN <<g.store, g.id>> ELSE <<given[k].store, given[k].id>>
    <3>1. CASE k = Len(given) + 1
      BY <1>1, <3>1
    <3>2. CASE k \in DOMAIN given
      <4>1. k # Len(given) + 1 /\ given'[k] = given[k]
        BY <1>1, <3>2
      <4> QED
        BY <4>1
    <3> QED
      BY <1>1, <3>1, <3>2
  <2> QED
    BY <2>1, <2>2
<1>3. /\ Seen \in Seq(Places) /\ Len(Seen) = Len(given)
      /\ \A k \in 1 .. Len(given) : Seen[k] = <<given[k].store, given[k].id>>
  BY SeenIsList DEF Seen
<1> DEFINE x == <<g.store, g.id>>
           s == Seen
<1>4. s \in Seq(Places) /\ Len(s) = Len(given)
  BY <1>3
<1>5. Append(s, x) = [k \in 1 .. Len(s) + 1 |-> IF k = Len(s) + 1 THEN x ELSE s[k]]
  <2> DEFINE T == Places \cup {x}
             t == Append(s, x)
  <2>1. s \in Seq(T) /\ x \in T /\ Len(s) \in Nat
    BY <1>4
  <2> HIDE DEF s, x, T
  <2>2. t \in Seq(T) /\ Len(t) = Len(s) + 1
    BY <2>1
  <2>3. \A k \in 1 .. Len(s) + 1 : t[k] = IF k = Len(s) + 1 THEN x ELSE s[k]
    BY <2>1
  <2> HIDE DEF t
  <2>4. t = [k \in 1 .. Len(s) + 1 |-> t[k]]
    BY <2>2
  <2> QED
    BY <2>3, <2>4 DEF t
<1>6. \A k \in 1 .. Len(given) + 1 : k # Len(given) + 1 => s[k] = <<given[k].store, given[k].id>>
  BY <1>1, <1>3
<1> HIDE DEF s
<1> QED
  BY <1>2, <1>4, <1>5, <1>6 DEF s

LEMMA OneMore ==
  ASSUME NEW T, NEW x \in Seq(T), NEW y \in Seq(T), NEW j \in Nat, j < Len(y)
  PROVE  Append(x \o SubSeq(y, 1, j), y[j + 1]) = x \o SubSeq(y, 1, j + 1)
<1> DEFINE p == SubSeq(y, 1, j)
           q == SubSeq(y, 1, j + 1)
           e == y[j + 1]
<1>1. Len(y) \in Nat /\ Len(x) \in Nat /\ e \in T
  OBVIOUS
<1>2. p \in Seq(T) /\ Len(p) = j /\ \A k \in 1 .. j : p[k] = y[k]
  BY <1>1
<1>3. q \in Seq(T) /\ Len(q) = j + 1 /\ \A k \in 1 .. j + 1 : q[k] = y[k]
  BY <1>1
<1> HIDE DEF p, q, e
<1>4. q = Append(p, e)
  <2>1. Append(p, e) \in Seq(T) /\ Len(Append(p, e)) = j + 1
    BY <1>1, <1>2
  <2>2. \A k \in 1 .. j + 1 : q[k] = Append(p, e)[k]
    BY <1>2, <1>3 DEF e
  <2> QED
    BY <1>3, <2>1, <2>2
<1>5. x \o Append(p, e) = Append(x \o p, e)
  BY <1>1, <1>2
<1> QED
  BY <1>4, <1>5 DEF p, q, e

(* What has been given begins what there is to give.                        *)
LEMMA StoresBegin ==
  ASSUME WorldInv, NEW n \in 0 .. Len(stores)
  PROVE  IsPrefix(All(n), All(Len(stores)))
<1>1. Len(stores) \in Nat \ {0}
  BY WorldFacts
<1>2. CASE n < Len(stores)
  <2>1. n + 1 \in 1 .. Len(stores) /\ (n + 1) - 1 = n
    BY <1>1, <1>2
  <2>2. IsAnchor(iterator, stores[n + 1])
    BY <2>1, WorldFacts
  <2>3. 0 \in 0 .. Len(Result(stores[n + 1]))
    BY <2>2, ResultLists
  <2>4. IsPrefix(All(n) \o SubSeq(Numbers(n + 1), 1, 0), All(Len(stores)))
    BY <2>1, <2>3, PartBegins
  <2>5. All(n) \in Seq(Places) /\ Numbers(n + 1) \in Seq(Places)
    BY <2>1, AllSteps, NumbersAre
  <2>6. All(n) \o SubSeq(Numbers(n + 1), 1, 0) = All(n)
    <3> DEFINE x == All(n)
               y == Numbers(n + 1)
    <3>1. x \in Seq(Places) /\ y \in Seq(Places)
      BY <2>5
    <3> HIDE DEF x, y
    <3>2. SubSeq(y, 1, 0) = <<>>
      BY <3>1
    <3>3. x \o <<>> = x
      BY <3>1, ConcatEmptySeq
    <3> QED
      BY <3>2, <3>3 DEF x, y
  <2> QED
    BY <2>4, <2>6
<1>3. CASE n = Len(stores)
  <2>1. Len(stores) \in 1 .. Len(stores)
    BY <1>1
  <2>2. IsAnchor(iterator, stores[Len(stores)])
    BY <2>1, WorldFacts
  <2> DEFINE N == Len(stores)
             y == Numbers(N)
             j == Len(Result(stores[N]))
  <2>3. j \in 0 .. j /\ y \in Seq(Places) /\ Len(y) = j
    BY <2>1, <2>2, ResultLists, NumbersAre
  <2>4. IsPrefix(All(N - 1) \o SubSeq(y, 1, j), All(N))
    BY <2>1, <2>3, PartBegins
  <2>5. All(N) = All(N - 1) \o y
    BY <2>1, AllSteps
  <2> HIDE DEF y, j
  <2>6. SubSeq(y, 1, j) = y
    BY <2>3
  <2> QED
    BY <1>3, <2>4, <2>5, <2>6
<1> QED
  BY <1>1, <1>2, <1>3

LEMMA PlaceInit == Init => PlaceInv
<1> SUFFICES ASSUME Init PROVE PlaceInv
  OBVIOUS
<1>1. TypeInv
  BY TypeInit
<1>2. Seen = <<>> /\ pc = "outside" /\ ending = "none"
  BY DEF Init, Seen
<1>3. All(0) = <<>> /\ 0 \in 0 .. Len(stores) /\ WorldInv
  BY <1>1, AllSteps, WorldFacts DEF TypeInv
<1>4. IsPrefix(All(0), All(Len(stores)))
  BY <1>3, StoresBegin
<1> QED
  BY <1>2, <1>3, <1>4 DEF PlaceInv, RowsInOrder

LEMMA PlaceStep == TypeInv /\ PlaceInv /\ [Next]_vars => PlaceInv'
<1> SUFFICES ASSUME TypeInv, PlaceInv, [Next]_vars PROVE PlaceInv'
  OBVIOUS
<1>1. WorldInv /\ Len(stores) \in Nat \ {0}
  BY WorldFacts DEF TypeInv
<1>2. UNCHANGED <<iterator, stores>>
  BY DEF Next, Begin, Load, NextRow, EndOfRows, vars
<1>3. /\ \A n : All(n)' = All(n)
      /\ \A k : Numbers(k)' = Numbers(k)
      /\ Refused' <=> Refused
  BY <1>2, Unmoved
<1>4. All(Len(stores))' = All(Len(stores))
  BY <1>2 DEF All, Numbers, Result, Anchored, Before
<1>5. CASE UNCHANGED vars
  <2>1. /\ Seen' = Seen /\ All(at.store - 1)' = All(at.store - 1)
        /\ Numbers(at.store)' = Numbers(at.store)
        /\ Unreadable(stores[at.store])' <=> Unreadable(stores[at.store])
    BY <1>5 DEF vars, Seen, All, Numbers, Result, Anchored, Before, Unreadable, TablesOf
  <2> QED
    BY <1>3, <1>4, <1>5, <2>1 DEF PlaceInv, RowsInOrder, vars
<1>6. CASE Begin
  <2>1. Seen' = <<>>
    BY <1>6 DEF Begin, Seen
  <2>2. /\ \/ pc' = "outside" /\ ending' = "unavailable" /\ Refused
           \/ pc' = "load" /\ ending' = "none"
        /\ at'.store = 1
    BY <1>6 DEF Begin, Leave
  <2>3. All(0) = <<>> /\ 0 \in 0 .. Len(stores)
    BY <1>1, AllSteps
  <2>4. IsPrefix(All(0), All(Len(stores)))
    BY <1>1, <2>3, StoresBegin
  <2>5. All(at.store - 1)' = All(0)
    <3>1. at'.store - 1 = 0
      BY <2>2
    <3>2. All(at.store - 1)' = FlattenSeq([k \in 1 .. at'.store - 1 |-> Numbers(k)'])
      BY DEF All
    <3>3. [k \in 1 .. 0 |-> Numbers(k)'] = [k \in 1 .. 0 |-> Numbers(k)]
      BY <1>3
    <3> QED
      BY <3>1, <3>2, <3>3, Zenon DEF All
  <2>6. RowsInOrder'
    BY <1>3, <1>4, <2>1, <2>2, <2>3, <2>4 DEF RowsInOrder
  <2> QED
    BY <2>1, <2>2, <2>3, <2>5, <2>6 DEF PlaceInv
<1>7. CASE Load
  <2>1. /\ UNCHANGED <<at, given>> /\ pc = "load"
        /\ \/ pc' = "outside" /\ ending' = "error" /\ Unreadable(stores[at.store])
           \/ pc' = "rows" /\ ending' = ending
    BY <1>7 DEF Load, Leave
  <2>2. at.store \in Within /\ at.row = 0 /\ ending = "none"
    BY <2>1 DEF TypeInv
  <2>3. Seen' = Seen /\ Seen = All(at.store - 1)
    BY <2>1 DEF Seen, PlaceInv
  <2>4. at.store - 1 \in 0 .. Len(stores)
    BY <1>1, <2>2 DEF Within
  <2>5. IsPrefix(Seen, All(Len(stores)))
    BY <1>1, <2>3, <2>4, StoresBegin
  <2>6. /\ All(at.store - 1)' = All(at.store - 1) /\ Numbers(at.store)' = Numbers(at.store)
        /\ Unreadable(stores[at.store])' <=> Unreadable(stores[at.store])
    BY <1>2, <2>1 DEF All, Numbers, Result, Anchored, Before, Unreadable, TablesOf
  <2>7. RowsInOrder'
    BY <1>4, <2>1, <2>2, <2>3, <2>5, <2>6 DEF RowsInOrder
  <2>8. All(at.store - 1) \o SubSeq(Numbers(at.store), 1, 0) = All(at.store - 1)
    <3> DEFINE x == All(at.store - 1)
               y == Numbers(at.store)
    <3>1. x \in Seq(Places) /\ y \in Seq(Places)
      BY <1>1, <2>2, <2>4, AllSteps, NumbersAre DEF Within
    <3> HIDE DEF x, y
    <3>2. SubSeq(y, 1, 0) = <<>>
      BY <3>1
    <3>3. x \o <<>> = x
      BY <3>1, ConcatEmptySeq
    <3> QED
      BY <3>2, <3>3 DEF x, y
  <2>9. pc' = "rows" => (Seen = All(at.store - 1) \o SubSeq(Numbers(at.store), 1, at.row))'
    BY <2>1, <2>2, <2>3, <2>6, <2>8
  <2>10. pc' # "load"
    BY <2>1
  <2> QED
    BY <2>7, <2>9, <2>10 DEF PlaceInv
<1>8. CASE NextRow
  <2>1. PICK g : RowGiven(g)
    BY <1>8, OneRowGiven
  <2>2. /\ at.store \in Within /\ at.row + 1 \in 1 .. Len(Result(stores[at.store]))
        /\ at' = [at EXCEPT !.row = at.row + 1]
        /\ (pc' = "rows" /\ ending' = "none") \/ (pc' = "outside" /\ ending' = "stopped")
    BY <1>8, OneRowGiven
  <2>3. at'.store = at.store /\ at'.row = at.row + 1 /\ at.row \in Nat /\ pc = "rows"
    BY <1>8, <2>2 DEF TypeInv, NextRow
  <2> DEFINE x == All(at.store - 1)
             y == Numbers(at.store)
             j == at.row
  <2>4. /\ y \in Seq(Places) /\ Len(y) = Len(Result(stores[at.store]))
        /\ \A i \in 1 .. Len(y) : y[i] = <<at.store, Result(stores[at.store])[i].id>>
    BY <1>1, <2>2, NumbersAre DEF Within
  <2>5. at.store - 1 \in 0 .. Len(stores)
    BY <1>1, <2>2 DEF Within
  <2>6. x \in Seq(Places)
    BY <1>1, <2>5, AllSteps
  <2>7. Seen' = Append(Seen, y[j + 1])
    <3>1. Seen' = Append(Seen, <<g.store, g.id>>)
      BY <2>1, SeenGrows
    <3>2. y[j + 1] = <<at.store, RowAtHand.id>>
      BY <2>2, <2>4 DEF RowAtHand
    <3>3. g.store = at.store /\ g.id = RowAtHand.id
      BY <2>1 DEF RowGiven
    <3> HIDE DEF y
    <3> QED
      BY <3>1, <3>2, <3>3
  <2>8. Seen = x \o SubSeq(y, 1, j)
    BY <2>3 DEF PlaceInv
  <2>9. j \in Nat /\ j < Len(y)
    BY <2>2, <2>3, <2>4
  <2>10. Append(x \o SubSeq(y, 1, j), y[j + 1]) = x \o SubSeq(y, 1, j + 1)
    <3> HIDE DEF x, y, j
    <3> QED
      BY <2>4, <2>6, <2>9, OneMore
  <2>11. Seen' = x \o SubSeq(y, 1, j + 1)
    BY <2>7, <2>8, <2>10, Zenon
  <2>12. IsPrefix(Seen', All(Len(stores)))
    <3>1. IsPrefix(x \o SubSeq(y, 1, at.row + 1), All(Len(stores)))
      <4>1. at.row + 1 \in 0 .. Len(Result(stores[at.store]))
        BY <2>2, <2>3
      <4> QED
        BY <1>1, <2>2, <4>1, PartBegins DEF Within
    <3> QED
      BY <2>11, <3>1
  <2>13. RowsInOrder'
    BY <1>4, <2>2, <2>12 DEF RowsInOrder
  <2>14. All(at.store - 1)' = x /\ Numbers(at.store)' = y
    BY <1>2, <2>3 DEF All, Numbers, Result, Anchored, Before
  <2>15. (Seen = All(at.store - 1) \o SubSeq(Numbers(at.store), 1, at.row))'
    <3> HIDE DEF x, y
    <3> QED
      BY <2>3, <2>11, <2>14
  <2>16. pc' # "load"
    BY <2>2
  <2> QED
    BY <2>13, <2>15, <2>16 DEF PlaceInv
<1>9. CASE EndOfRows
  <2>1. /\ pc = "rows" /\ at.row = Len(Result(stores[at.store])) /\ given' = given
        /\ \/ /\ at.store < Len(stores) /\ at' = [store |-> at.store + 1, row |-> 0]
              /\ pc' = "load" /\ ending' = ending
           \/ /\ ~(at.store < Len(stores))
              /\ pc' = "outside" /\ ending' = "complete" /\ at' = at
    BY <1>9 DEF EndOfRows, More, Leave
  <2>2. at.store \in Within /\ ending = "none"
    BY <2>1 DEF TypeInv
  <2>3. at.store \in Nat /\ at.store <= Len(stores) /\ at.store \in 0 .. Len(stores)
    BY <1>1, <2>2 DEF Within
  <2>4. Seen' = Seen
    BY <2>1 DEF Seen
  <2>5. Seen = All(at.store)
    <3> DEFINE y == Numbers(at.store)
    <3>1. y \in Seq(Places) /\ Len(y) = at.row
      BY <1>1, <2>1, <2>2, NumbersAre DEF Within
    <3>2. All(at.store) = All(at.store - 1) \o y
      BY <1>1, <2>2, AllSteps DEF Within
    <3>3. Seen = All(at.store - 1) \o SubSeq(y, 1, at.row)
      BY <2>1 DEF PlaceInv
    <3> HIDE DEF y
    <3>4. SubSeq(y, 1, at.row) = y
      BY <3>1
    <3> QED
      BY <3>2, <3>3, <3>4
  <2>6. IsPrefix(Seen, All(Len(stores)))
    BY <1>1, <2>3, <2>5, StoresBegin
  <2>7. ending' = "complete" => Seen = All(Len(stores))
    <3>1. ending' = "complete" => at.store = Len(stores)
      BY <1>1, <2>1, <2>2, <2>3
    <3> QED
      BY <2>5, <3>1
  <2>8. RowsInOrder'
    BY <1>4, <2>1, <2>2, <2>4, <2>6, <2>7 DEF RowsInOrder
  <2>9. ASSUME pc' = "load" PROVE All(at.store - 1)' = All(at.store)
    <3>1. at'.store - 1 = at.store
      BY <2>1, <2>3, <2>9
    <3>2. All(at.store - 1)' = FlattenSeq([k \in 1 .. at'.store - 1 |-> Numbers(k)'])
      BY DEF All
    <3>3. [k \in 1 .. at.store |-> Numbers(k)'] = [k \in 1 .. at.store |-> Numbers(k)]
      BY <1>3
    <3> QED
      BY <3>1, <3>2, <3>3, Zenon DEF All
  <2>10. pc' # "rows"
    BY <2>1
  <2> QED
    BY <2>4, <2>5, <2>8, <2>9, <2>10 DEF PlaceInv
<1> QED
  BY <1>5, <1>6, <1>7, <1>8, <1>9 DEF Next

(* Rows are given in the anchor's order, store after store, none left out or   *)
(* twice; and an ending means what RowsInOrder says of it.                   *)
THEOREM RowsComeInOrder == Spec => []RowsInOrder
<1>1. PlaceInv => RowsInOrder
  BY DEF PlaceInv
<1> QED
  BY <1>1, TypeInit, TypeStep, PlaceInit, PlaceStep, PTL DEF Spec

-----------------------------------------------------------------------------
(* Rows withheld                                                           *)

(* The iterators whose records lead a consumer into the reference tables.     *)
Sharing == {"Events", "Notes", "Reminders"}

(* While rows are read, their store could be read; and the tables of an       *)
(* iterator that shares none are as they were loaded.                       *)
LoadedInv ==
  pc = "rows" => /\ ~Unreadable(stores[at.store])
                 /\ iterator \notin Sharing => children \in ChildrenOf(stores[at.store])

LEMMA LoadedInit == Init => LoadedInv
  BY DEF Init, LoadedInv

LEMMA LoadedStep == TypeInv /\ LoadedInv /\ [Next]_vars => LoadedInv'
<1> SUFFICES ASSUME TypeInv, LoadedInv, [Next]_vars PROVE LoadedInv'
  OBVIOUS
<1>1. UNCHANGED <<iterator, stores>>
  BY DEF Next, Begin, Load, NextRow, EndOfRows, vars
<1>2. CASE UNCHANGED vars
  BY <1>2 DEF vars, LoadedInv, Unreadable, TablesOf, ChildrenOf
<1>3. CASE Begin
  BY <1>3 DEF Begin, Leave, LoadedInv
<1>4. CASE Load
  <2>1. at' = at /\ (pc' = "rows" => ~Unreadable(stores[at.store]) /\ children' \in ChildrenOf(stores[at.store]))
    BY <1>4 DEF Load, Leave, LoadedFor
  <2> QED
    BY <1>1, <2>1 DEF LoadedInv, Unreadable, TablesOf, ChildrenOf
<1>5. CASE NextRow
  <2>1. PICK g : RowGiven(g)
    BY <1>5, OneRowGiven
  <2>2. at'.store = at.store /\ pc = "rows"
    BY <1>5 DEF NextRow, TypeInv
  <2>3. iterator \notin Sharing => children' = children
    BY <2>1 DEF RowGiven, Spoiled, Sharing
  <2> QED
    BY <1>1, <2>2, <2>3 DEF LoadedInv, Unreadable, TablesOf, ChildrenOf
<1>6. CASE EndOfRows
  BY <1>6 DEF EndOfRows, Leave, LoadedInv
<1> QED
  BY <1>2, <1>3, <1>4, <1>5, <1>6 DEF Next

(* A store's reference table of a unit that it has.                         *)
LEMMA HandlesAre ==
  ASSUME NEW db, NEW unit, NEW rows
  PROVE  Loaded(db, unit) => DOMAIN Unless(db, unit, ById(rows)) = Ids(rows)
  BY DEF Unless, Loaded, ById

Unscannable(db, row) == \E c \in DOMAIN ColumnsOf(iterator, db) : ColumnsOf(iterator, db)[c] = row.bad

(* A row whose columns can be scanned has a record unless it is defective:    *)
(* messages, which refer to a handle, to chats and to attachments.           *)
LEMMA MessageDefects ==
  ASSUME NEW db, NEW row, iterator \in {"Messages", "ChatMessages"}, IsAnchor(iterator, db),
         row \in db.rows, ~Unreadable(db), children \in ChildrenOf(db),
         Scans(ColumnsOf(iterator, db), row), iterator = "ChatMessages" => Loaded(db, "chats")
  PROVE  RecordOf(db, Scanned(ColumnsOf(iterator, db), row)) = {} <=> MessageDefect(db, row)
<1> DEFINE columns == MessageColumns(db)
           read == Scanned(columns, row)
<1>1. ColumnsOf(iterator, db) = columns
  BY DEF ColumnsOf
<1>2. StartsWithId(columns) /\ Has(columns, "handle") /\ ("attachments" \notin db.absent => Has(columns, "attachments"))
  BY ColumnsAre
<1>3. row.bad # "id" /\ \A k \in DOMAIN columns : columns[k] \in DOMAIN row \ {"bad"}
  BY <1>1, ColumnsThere DEF Iterators
<1>4. read.id = row.id /\ \A f \in DOMAIN row \ {"bad"} : read[f] = IF Has(columns, f) THEN row[f] ELSE Null
  BY <1>1, <1>2, <1>3, ScannedIsOfTheRow
<1>5. \A f : Has(columns, f) => f \in DOMAIN row \ {"bad"}
  BY <1>3 DEF Has
<1>6. read.handle = row.handle /\ ("attachments" \notin db.absent => read.attachments = row.attachments)
  BY <1>2, <1>4, <1>5
<1>7. Loaded(db, "handles") => DOMAIN children.handles = Ids(db.Handle)
  BY HandlesAre DEF ChildrenOf, MessageChildren, ChatMessageChildren, loadHandles
<1> HIDE DEF read, columns
<1> DEFINE dangling == Loaded(db, "handles") /\ row.handle \notin {Null, 0} /\ row.handle \notin Ids(db.Handle)
           bad == Loaded(db, "chats") /\ \E j \in db.ChatMessageJoin : j.message = row.id /\ j.bad # Null
           joins == {j \in db.AttachmentJoin : j.message = row.id}
           attached == Loaded(db, "attachments") /\ row.attachments \notin {Null, 0}
           lost == attached /\ ~\A j \in joins : \E a \in db.Attachment : a.id = j.attachment /\ a.bad = Null
<1>8. MessageDefect(db, row) <=> dangling \/ bad \/ lost
  <2>1. MessageDefect(db, row) <=>
          dangling \/ bad \/ ~Attached(db, row) \subseteq Ids({a \in db.Attachment : a.bad = Null})
    BY DEF MessageDefect, Known, Loaded, Sent, Memberships
  <2>2. ~Attached(db, row) \subseteq Ids({a \in db.Attachment : a.bad = Null}) <=> lost
    BY DEF Attached, Known, Loaded, Ids
  <2> QED
    BY <2>1, <2>2
<1>9. ASSUME NEW chats
      PROVE  enrich(db, children, read, chats) = {} <=> dangling \/ lost \/ chats = {}
  <2> DEFINE attachments == IF ~Loaded(db, "attachments") \/ read.attachments \in {Null, 0} THEN {<<>>}
                            ELSE fillAttachments(db, read.id)
             records == [id : {read.id}, plain : {read.plain}, optional : {read.optional}, date : {read.date},
                         handle : {At(children.handles, read.handle)}, chats : chats, attachments : attachments]
  <2>1. enrich(db, children, read, chats) = IF dangling THEN {} ELSE records
    BY <1>6, <1>7 DEF enrich
  <2>2. attachments = {} <=> lost
    <3>1. fillAttachments(db, row.id) = {} <=> ~\A j \in joins : \E a \in db.Attachment : a.id = j.attachment /\ a.bad = Null
      BY DEF fillAttachments
    <3> QED
      BY <1>4, <1>6, <3>1 DEF Loaded
  <2>3. records = {} <=> chats = {} \/ attachments = {}
    <3> HIDE DEF attachments
    <3>1. ASSUME NEW x \in chats, NEW y \in attachments PROVE records # {}
      <4>1. [id |-> read.id, plain |-> read.plain, optional |-> read.optional, date |-> read.date,
             handle |-> At(children.handles, read.handle), chats |-> x, attachments |-> y] \in records
        OBVIOUS
      <4> QED
        BY <4>1
    <3>2. ASSUME NEW r \in records PROVE r.chats \in chats /\ r.attachments \in attachments
      OBVIOUS
    <3> QED
      BY <3>1, <3>2
  <2> HIDE DEF records, attachments, dangling, lost
  <2> QED
    BY <2>1, <2>2, <2>3
<1>10. CASE iterator = "Messages"
  <2>1. ~bad
    BY <1>10 DEF Unreadable, TablesOf, MessageTables, Loaded
  <2>2. RecordOf(db, read) =
          enrich(db, children, read, {IF ~Loaded(db, "chats") THEN <<>> ELSE ListAt(children.chatIDs, read.id)})
    BY <1>10 DEF RecordOf, Message
  <2> HIDE DEF dangling, bad, lost
  <2> QED
    BY <1>1, <1>8, <1>9, <2>1, <2>2 DEF read
<1>11. CASE iterator = "ChatMessages"
  <2>1. fillChatIDs(db, read.id) = {} <=> bad
    BY <1>4, <1>11 DEF fillChatIDs
  <2>2. RecordOf(db, read) = enrich(db, children, read, fillChatIDs(db, read.id))
    BY <1>11 DEF RecordOf, ChatMessage
  <2> HIDE DEF dangling, bad, lost
  <2> QED
    BY <1>1, <1>8, <1>9, <2>1, <2>2 DEF read
<1> QED
  BY <1>10, <1>11

(* Chats and calls, which refer to handles.                                 *)
LEMMA JoinDefects ==
  ASSUME NEW db, NEW row, iterator \in {"Chats", "Calls"}, IsAnchor(iterator, db),
         row \in db.rows, children \in ChildrenOf(db), Scans(ColumnsOf(iterator, db), row)
  PROVE  RecordOf(db, Scanned(ColumnsOf(iterator, db), row)) = {} <=> Defective(iterator, db, row)
<1> DEFINE columns == ColumnsOf(iterator, db)
           read == Scanned(columns, row)
           unit == IF iterator = "Chats" THEN "handles" ELSE "participants"
           joins == {j \in db.HandleJoin : j.owner = row.id}
           handles == children.handles
           dangling == ~\A j \in joins : j.bad = Null /\ j.handle \in DOMAIN handles
           participants == IF ~Loaded(db, unit) THEN {<<>>}
                           ELSE IF dangling THEN {} ELSE {Sorted({j.handle : j \in joins})}
<1>1. read.id = row.id
  <2>1. iterator \in Iterators
    BY DEF Iterators
  <2>2. row.bad # "id" /\ \A k \in DOMAIN columns : columns[k] \in DOMAIN row \ {"bad"}
    BY <2>1, ColumnsThere
  <2> QED
    BY <2>1, <2>2, IdComesFirst, ScannedIsOfTheRow
<1> HIDE DEF columns, read
<1>2. Loaded(db, unit) => DOMAIN handles = Ids(db.Handle)
  BY HandlesAre DEF ChildrenOf, ChatChildren, CallChildren, loadHandles, loadCallHandles
<1>3. Defective(iterator, db, row) <=> Loaded(db, unit) /\ dangling
  <2>1. BadJoins(db, unit, row) <=> Loaded(db, unit) /\ dangling
    BY <1>2 DEF BadJoins, Known, Loaded, JoinsOf
  <2> HIDE DEF dangling
  <2> QED
    BY <2>1 DEF Defective
<1>4. participants = {} <=> Loaded(db, unit) /\ dangling
  <2> HIDE DEF dangling, unit
  <2> QED
    OBVIOUS
<1>5. CASE iterator = "Chats"
  <2>1. RecordOf(db, read) = [id : {read.id}, plain : {read.plain}, participants : participants]
    BY <1>1, <1>5 DEF RecordOf, Chat, fillParticipants
  <2> HIDE DEF participants
  <2>2. RecordOf(db, read) = {} <=> participants = {}
    <3>1. ASSUME NEW x \in participants PROVE RecordOf(db, read) # {}
      <4>1. [id |-> read.id, plain |-> read.plain, participants |-> x] \in RecordOf(db, read)
        BY <2>1
      <4> QED
        BY <4>1
    <3>2. ASSUME NEW r \in RecordOf(db, read) PROVE r.participants \in participants
      BY <2>1
    <3> QED
      BY <3>1, <3>2
  <2> QED
    BY <1>3, <1>4, <2>2 DEF read, columns
<1>6. CASE iterator = "Calls"
  <2>1. RecordOf(db, read) =
          [id : {read.id}, plain : {read.plain}, optional : {read.optional}, participants : participants]
    BY <1>1, <1>6 DEF RecordOf, Call, fillCallParticipants
  <2> HIDE DEF participants
  <2>2. RecordOf(db, read) = {} <=> participants = {}
    <3>1. ASSUME NEW x \in participants PROVE RecordOf(db, read) # {}
      <4>1. [id |-> read.id, plain |-> read.plain, optional |-> read.optional, participants |-> x]
              \in RecordOf(db, read)
        BY <2>1
      <4> QED
        BY <4>1
    <3>2. ASSUME NEW r \in RecordOf(db, read) PROVE r.participants \in participants
      BY <2>1
    <3> QED
      BY <3>1, <3>2
  <2> QED
    BY <1>3, <1>4, <2>2 DEF read, columns
<1> QED
  BY <1>5, <1>6

(* People, whose values refer to labels and whose addresses to entry keys;    *)
(* and groups, whose members need not exist.                                *)
LEMMA ContactDefects ==
  ASSUME NEW db, NEW row, iterator \in {"People", "Groups"}, IsAnchor(iterator, db),
         row \in db.rows, children \in ChildrenOf(db), Scans(ColumnsOf(iterator, db), row)
  PROVE  RecordOf(db, Scanned(ColumnsOf(iterator, db), row)) = {} <=> Defective(iterator, db, row)
<1> DEFINE columns == ColumnsOf(iterator, db)
           read == Scanned(columns, row)
<1>1. read.id = row.id
  <2>1. iterator \in Iterators
    BY DEF Iterators
  <2>2. row.bad # "id" /\ \A k \in DOMAIN columns : columns[k] \in DOMAIN row \ {"bad"}
    BY <2>1, ColumnsThere
  <2> QED
    BY <2>1, <2>2, IdComesFirst, ScannedIsOfTheRow
<1> HIDE DEF columns, read
<1>2. CASE iterator = "Groups"
  BY <1>1, <1>2 DEF RecordOf, Group, Defective, Members, read, columns
<1>3. CASE iterator = "People"
  <2>1. children = loadLookups(db)
    BY <1>3 DEF ChildrenOf
  <2>2. DOMAIN children.labels = Ids(db.Label)
    BY <2>1 DEF loadLookups, ById
  <2>3. Loaded(db, "addresses") => DOMAIN children.entryKeys = Ids(db.EntryKey)
    BY <2>1, HandlesAre DEF loadLookups
  <2>4. ASSUME NEW v
        PROVE  addressComponents(db, v.id, children.entryKeys) = {} <=>
                 \E e \in db.Entry : e.parent = v.id /\ (e.bad # Null \/ e.key \notin DOMAIN children.entryKeys)
    BY DEF addressComponents
  <2>5. fillMultiValues(db, children, row.id) = {} <=> PersonDefect(db, row)
    <3> DEFINE values == {v \in db.MultiValue : v.owner = row.id}
               addresses == IF ~Loaded(db, "addresses") THEN {} ELSE {v \in values : v.property = "address"}
    <3>1. fillMultiValues(db, children, row.id) = {} <=>
            \/ \E v \in values : v.bad # Null \/ v.label \notin {Null} \cup DOMAIN children.labels
            \/ \E v \in addresses : addressComponents(db, v.id, children.entryKeys) = {}
      BY DEF fillMultiValues
    <3>2. PersonDefect(db, row) <=>
            \/ \E v \in values : v.bad # Null \/ v.label \notin {Null} \cup Ids(db.Label)
            \/ \E v \in addresses :
                 \E e \in db.Entry : e.parent = v.id /\ (e.bad # Null \/ e.key \notin Ids(db.EntryKey))
      BY DEF PersonDefect, Known, Loaded, ValuesOf, EntriesOf
    <3>3. \A v \in addresses :
            addressComponents(db, v.id, children.entryKeys) = {} <=>
              \E e \in db.Entry : e.parent = v.id /\ (e.bad # Null \/ e.key \notin Ids(db.EntryKey))
      BY <2>3, <2>4
    <3> HIDE DEF values, addresses
    <3> QED
      BY <2>2, <3>1, <3>2, <3>3
  <2>6. RecordOf(db, read) = {} <=> fillMultiValues(db, children, row.id) = {}
    BY <1>1, <1>3 DEF RecordOf, Person
  <2> QED
    BY <1>3, <2>5, <2>6 DEF Defective, read, columns
<1> QED
  BY <1>2, <1>3

LEMMA JustDefects ==
  ASSUME NEW db, NEW row, iterator \in Iterators, IsAnchor(iterator, db), row \in db.rows,
         ~Unreadable(db), iterator \notin Sharing => children \in ChildrenOf(db),
         iterator = "ChatMessages" => Loaded(db, "chats")
  PROVE  RecordsFrom(db, row) = {} <=> Unscannable(db, row) \/ Defective(iterator, db, row)
<1>1. Unscannable(db, row) <=> ~Scans(ColumnsOf(iterator, db), row)
  BY DEF Unscannable, Scans
<1>2. CASE Unscannable(db, row)
  BY <1>1, <1>2 DEF RecordsFrom
<1>3. CASE ~Unscannable(db, row)
  <2> DEFINE read == Scanned(ColumnsOf(iterator, db), row)
  <2>1. Scans(ColumnsOf(iterator, db), row) /\ RecordsFrom(db, row) = RecordOf(db, read)
    BY <1>1, <1>3 DEF RecordsFrom
  <2>2. CASE iterator \in {"Messages", "ChatMessages"}
    <3>1. children \in ChildrenOf(db)
      BY <2>2 DEF Sharing
    <3>2. RecordOf(db, read) = {} <=> MessageDefect(db, row)
      BY <2>1, <2>2, <3>1, MessageDefects
    <3> QED
      BY <1>3, <2>1, <2>2, <3>2 DEF Defective
  <2>3. CASE iterator \in {"Chats", "Calls"}
    <3>1. children \in ChildrenOf(db)
      BY <2>3 DEF Sharing
    <3> QED
      BY <1>3, <2>1, <2>3, <3>1, JoinDefects
  <2>4. CASE iterator \in {"People", "Groups"}
    <3>1. children \in ChildrenOf(db)
      BY <2>4 DEF Sharing
    <3> QED
      BY <1>3, <2>1, <2>4, <3>1, ContactDefects
  <2>5. CASE iterator \in {"Events", "Calendars", "Notes", "Folders", "Reminders", "Lists"}
    <3>1. ~Defective(iterator, db, row)
      BY <2>5 DEF Defective
    <3>2. RecordOf(db, read) # {}
      BY <2>5 DEF RecordOf
    <3> QED
      BY <1>3, <2>1, <3>1, <3>2
  <2> QED
    BY <2>2, <2>3, <2>4, <2>5 DEF Iterators
<1> QED
  BY <1>2, <1>3

(* What OnlyDefectsWithheld says of one thing given.                        *)
RightlyGiven(g) ==
  LET db == stores[g.store]
      row == RowOf(db.rows, g.id)
  IN  g.kind = "RowError" <=> Unscannable(db, row) \/ Defective(iterator, db, row)

WithheldInv ==
  /\ pc # "outside" => ~Refused
  /\ \A k \in DOMAIN given : RightlyGiven(given[k])

LEMMA WithheldStep == TypeInv /\ LoadedInv /\ WithheldInv /\ [Next]_vars => WithheldInv'
<1> SUFFICES ASSUME TypeInv, LoadedInv, WithheldInv, [Next]_vars PROVE WithheldInv'
  OBVIOUS
<1>1. UNCHANGED <<iterator, stores>>
  BY DEF Next, Begin, Load, NextRow, EndOfRows, vars
<1>2. (Refused' <=> Refused) /\ WorldInv
  BY <1>1, Unmoved DEF TypeInv
<1>3. \A g : RightlyGiven(g)' <=> RightlyGiven(g)
  BY <1>1 DEF RightlyGiven, Unscannable
<1>4. CASE given' = given /\ (pc' # "outside" => pc # "outside" \/ ~Refused)
  <2>1. ASSUME NEW k \in DOMAIN given' PROVE RightlyGiven(given[k])'
    <3>1. RightlyGiven(given[k])
      BY <1>4, <2>1 DEF WithheldInv
    <3> QED
      BY <1>1, <1>4, <3>1 DEF RightlyGiven, Unscannable
  <2> QED
    BY <1>2, <1>4, <2>1 DEF WithheldInv
<1>5. CASE UNCHANGED vars
  BY <1>4, <1>5 DEF vars
<1>6. CASE Begin
  <2>1. given' = <<>> /\ (pc' # "outside" => ~Refused)
    BY <1>6 DEF Begin, Leave
  <2>2. DOMAIN given' = {}
    BY <2>1
  <2> QED
    BY <1>2, <2>1, <2>2 DEF WithheldInv
<1>7. CASE Load
  BY <1>4, <1>7 DEF Load
<1>8. CASE NextRow
  <2>1. PICK g : RowGiven(g)
    BY <1>8, OneRowGiven
  <2> DEFINE db == stores[at.store]
             row == RowAtHand
  <2>2. at.store \in Within /\ row \in db.rows /\ pc = "rows"
    BY <1>8, OneRowGiven DEF NextRow
  <2>3. iterator \in Iterators /\ IsAnchor(iterator, db)
    BY <1>2, <2>2, WorldFacts DEF Within
  <2>4. iterator = "ChatMessages" => Loaded(db, "chats")
    <3>1. ASSUME iterator = "ChatMessages" PROVE at.store = 1
      BY <1>2, <2>2, <3>1, WorldFacts DEF Within
    <3>2. ~Refused
      BY <2>2 DEF WithheldInv
    <3> QED
      BY <3>1, <3>2 DEF Refused, UnitOf
  <2>5. ~Unreadable(db) /\ (iterator \notin Sharing => children \in ChildrenOf(db))
    BY <2>2 DEF LoadedInv
  <2>6. RecordsFrom(db, row) = {} <=> Unscannable(db, row) \/ Defective(iterator, db, row)
    <3> HIDE DEF db, row
    <3> QED
      BY <2>2, <2>3, <2>4, <2>5, JustDefects
  <2>7. RowOf(db.rows, row.id) = row
    <3>1. \A r \in db.rows : r.id = row.id => r = row
      BY <2>2, <2>3 DEF IsAnchor
    <3> HIDE DEF db, row
    <3> QED
      BY <2>2, <3>1 DEF RowOf
  <2>8. RightlyGiven(g)
    <3>1. g.store = at.store /\ g.id = row.id /\ (g.kind = "RowError" <=> RecordsFrom(db, row) = {})
      BY <2>1 DEF RowGiven
    <3>2. RowOf(stores[g.store].rows, g.id) = row /\ stores[g.store] = db
      BY <2>7, <3>1
    <3> HIDE DEF db, row
    <3> QED
      BY <2>6, <3>1, <3>2 DEF RightlyGiven
  <2>9. /\ Len(given) \in Nat /\ DOMAIN given = 1 .. Len(given) /\ DOMAIN given' = 1 .. Len(given) + 1
        /\ \A k \in DOMAIN given : given'[k] = given[k]
        /\ given'[Len(given) + 1] = g
    BY <2>1, Appended DEF TypeInv, RowGiven
  <2>10. ASSUME NEW k \in DOMAIN given' PROVE RightlyGiven(given[k])'
    <3>1. RightlyGiven(given'[k])
      <4>1. CASE k \in DOMAIN given
        BY <2>9, <4>1 DEF WithheldInv
      <4>2. CASE k = Len(given) + 1
        BY <2>8, <2>9, <4>2
      <4> QED
        BY <2>9, <4>1, <4>2
    <3> QED
      BY <1>1, <3>1 DEF RightlyGiven, Unscannable
  <2> QED
    BY <1>2, <2>2, <2>10 DEF WithheldInv
<1>9. CASE EndOfRows
  BY <1>4, <1>9 DEF EndOfRows
<1> QED
  BY <1>5, <1>6, <1>7, <1>8, <1>9 DEF Next

(* A row is withheld just when one of its columns cannot be scanned or it, or  *)
(* a child of it, is defective, for any store and whatever the consumer wrote. *)
THEOREM DefectsAreWithheld == Spec => []OnlyDefectsWithheld
<1>1. WithheldInv => OnlyDefectsWithheld
  BY DEF WithheldInv, OnlyDefectsWithheld, RightlyGiven, Unscannable
<1>2. Init => WithheldInv
  <2>1. Init => DOMAIN given = {} /\ pc = "outside"
    BY DEF Init
  <2> QED
    BY <2>1 DEF WithheldInv
<1> QED
  BY <1>1, <1>2, TypeInit, TypeStep, LoadedInit, LoadedStep, WithheldStep, PTL DEF Spec

-----------------------------------------------------------------------------
(* Lists and links                                                         *)

LEMMA IntsOrdered ==
  ASSUME NEW ids, IsFiniteSet(ids), \A i \in ids : i \in Int
  PROVE  OrderOn({p \in ids \X ids : p[1] < p[2]}, ids)
<1> DEFINE R == {p \in ids \X ids : p[1] < p[2]}
<1>1. \A x, y \in ids : <<x, y>> \in R <=> x < y
  OBVIOUS
<1> HIDE DEF R
<1> QED
  BY <1>1 DEF OrderOn, R

(* Sorted ids are a listing of them.                                        *)
LEMMA SortedLists ==
  ASSUME NEW ids, IsFiniteSet(ids), \A i \in ids : i \in Int
  PROVE  Sorted(ids) \in Listing(ids)
<1> DEFINE R == {p \in ids \X ids : p[1] < p[2]}
           s == Listed(ids, R)
<1>1. OrderOn(R, ids)
  BY IntsOrdered
<1>2. \A x, y : <<x, y>> \in R => x < y
  OBVIOUS
<1> HIDE DEF R
<1>3. /\ s \in Seq(ids) /\ Len(s) = Cardinality(ids)
      /\ \A k \in 1 .. Cardinality(ids) : s[k] \in ids /\ PlaceIn(s[k], ids, R) = k - 1
  BY <1>1, ListedInOrder
<1> HIDE DEF s
<1>4. s \in [1 .. Cardinality(ids) -> ids] /\ DOMAIN s = 1 .. Cardinality(ids) /\ Cardinality(ids) \in Nat
  BY <1>3, FS_CardinalityType
<1>5. ASSUME NEW j \in DOMAIN s, NEW k \in DOMAIN s, j < k PROVE s[j] < s[k]
  <2>1. s[j] \in ids /\ s[k] \in ids /\ PlaceIn(s[j], ids, R) = j - 1 /\ PlaceIn(s[k], ids, R) = k - 1
    BY <1>3, <1>4
  <2>2. j - 1 < k - 1
    BY <1>4, <1>5
  <2>3. <<s[j], s[k]>> \in R
    BY <1>1, <2>1, <2>2, PlaceOrders
  <2> QED
    BY <1>2, <2>3
<1>6. s \in Listing(ids)
  BY <1>4, <1>5 DEF Listing
<1> QED
  BY <1>6 DEF Sorted, s, R

LEMMA NoneListed == <<>> \in Listing({}) /\ Sorted({}) = <<>>
<1>1. IsFiniteSet({}) /\ Cardinality({}) = 0
  BY FS_EmptySet
<1>2. Sorted({}) \in Listing({})
  BY <1>1, SortedLists
<1>3. \A s \in Listing({}) : s = <<>>
  BY <1>1 DEF Listing
<1> QED
  BY <1>2, <1>3

(* Rows sorted by their ids: each once, their ids a listing.                 *)
LEMMA SortedRowsList ==
  ASSUME NEW rows, Keyed(rows)
  PROVE  LET s == SortedRows(rows) IN
         /\ DOMAIN s = 1 .. Cardinality(Ids(rows)) /\ s = [k \in DOMAIN s |-> s[k]]
         /\ \A k \in DOMAIN s : s[k] \in rows
         /\ \A r \in rows : \E k \in DOMAIN s : s[k] = r
         /\ [k \in DOMAIN s |-> s[k].id] \in Listing(Ids(rows))
         /\ Cardinality(Ids(rows)) = Cardinality(rows)
<1> DEFINE R == {p \in rows \X rows : p[1].id < p[2].id}
           s == Listed(rows, R)
<1>1. /\ IsFiniteSet(rows) /\ \A r \in rows : r.id \in Int
      /\ \A r, t \in rows : r.id = t.id => r = t
  BY DEF Keyed
<1>2. \A x, y \in rows : <<x, y>> \in R <=> x.id < y.id
  OBVIOUS
<1> HIDE DEF R
<1>3. OrderOn(R, rows)
  BY <1>1, <1>2 DEF OrderOn
<1>4. /\ s \in Seq(rows) /\ Len(s) = Cardinality(rows)
      /\ \A k \in 1 .. Cardinality(rows) : s[k] \in rows /\ PlaceIn(s[k], rows, R) = k - 1
      /\ \A r \in rows : /\ PlaceIn(r, rows, R) + 1 \in 1 .. Cardinality(rows)
                         /\ r = s[PlaceIn(r, rows, R) + 1]
  BY <1>3, ListedInOrder
<1> HIDE DEF s
<1>5. DOMAIN s = 1 .. Cardinality(rows) /\ Cardinality(rows) \in Nat /\ s = [k \in DOMAIN s |-> s[k]]
  BY <1>1, <1>4, FS_CardinalityType
<1>6. IsFiniteSet(Ids(rows)) /\ Cardinality(Ids(rows)) = Cardinality(rows)
  <2> DEFINE f == [r \in rows |-> r.id]
  <2>1. f \in Bijection(rows, Ids(rows))
    <3>1. f \in [rows -> Ids(rows)]
      BY DEF Ids
    <3>2. \A r, t \in rows : f[r] = f[t] => r = t
      BY <1>1
    <3>3. \A i \in Ids(rows) : \E r \in rows : f[r] = i
      BY DEF Ids
    <3> HIDE DEF f
    <3> QED
      BY <3>1, <3>2, <3>3 DEF Bijection, Injection, IsInjective, Surjection
  <2> HIDE DEF f
  <2>2. ExistsBijection(rows, Ids(rows))
    BY <2>1 DEF ExistsBijection
  <2> QED
    BY <1>1, <2>2, FS_Bijection
<1>7. [k \in DOMAIN s |-> s[k].id] \in Listing(Ids(rows))
  <2> DEFINE t == [k \in DOMAIN s |-> s[k].id]
  <2>1. DOMAIN t = 1 .. Cardinality(Ids(rows)) /\ \A k \in DOMAIN s : t[k] = s[k].id /\ t[k] \in Ids(rows)
    BY <1>4, <1>5, <1>6 DEF Ids
  <2>2. t \in [1 .. Cardinality(Ids(rows)) -> Ids(rows)]
    BY <1>5, <1>6, <2>1
  <2>3. ASSUME NEW j \in DOMAIN s, NEW k \in DOMAIN s, j < k PROVE s[j].id < s[k].id
    <3>1. s[j] \in rows /\ s[k] \in rows /\ PlaceIn(s[j], rows, R) = j - 1 /\ PlaceIn(s[k], rows, R) = k - 1
      BY <1>4, <1>5
    <3>2. j - 1 < k - 1
      BY <1>5, <2>3
    <3>3. <<s[j], s[k]>> \in R
      BY <1>3, <3>1, <3>2, PlaceOrders
    <3> QED
      BY <1>2, <3>1, <3>3
  <2>4. \A j, k \in DOMAIN t : j < k => t[j] < t[k]
    BY <1>5, <1>6, <2>1, <2>3
  <2> HIDE DEF t
  <2> QED
    BY <2>2, <2>4 DEF Listing, t
<1>8. \A r \in rows : \E k \in DOMAIN s : s[k] = r
  BY <1>4, <1>5
<1> QED
  BY <1>4, <1>5, <1>6, <1>7, <1>8 DEF SortedRows, s, R

LEMMA SomeKeyed ==
  ASSUME NEW table, Keyed(table), NEW rows, rows \subseteq table
  PROVE  Keyed(rows) /\ IsFiniteSet(Ids(rows)) /\ \A i \in Ids(rows) : i \in Int
<1>1. IsFiniteSet(rows)
  BY FS_Subset DEF Keyed
<1>2. Keyed(rows)
  BY <1>1 DEF Keyed
<1>3. IsFiniteSet(Ids(rows))
  <2>1. Ids(rows) = {r.id : r \in rows}
    BY DEF Ids
  <2> DEFINE f == [r \in rows |-> r.id]
  <2>2. f \in Surjection(rows, Ids(rows))
    BY DEF Surjection, Ids
  <2> HIDE DEF f
  <2> QED
    BY <1>1, <2>2, FS_Surjection
<1> QED
  BY <1>2, <1>3 DEF Keyed, Ids

LEMMA RowOfIs ==
  ASSUME NEW rows, Keyed(rows), NEW r \in rows
  PROVE  RowOf(rows, r.id) = r
<1>1. \A t \in rows : t.id = r.id => t = r
  BY DEF Keyed
<1> QED
  BY <1>1 DEF RowOf

(* A link followed in a table's map names the row, if it is there.           *)
LEMMA LinkLeads ==
  ASSUME NEW db, NEW unit, NEW rows, NEW read, NEW link, unit \notin db.absent => read = link
  PROVE  At(Unless(db, unit, ById(rows)), read) \in Referred(db, unit, rows, link)
<1>1. DOMAIN NilMap = {}
  BY DEF NilMap
<1> QED
  BY <1>1 DEF At, Unless, ById, Referred, Known, Loaded

-----------------------------------------------------------------------------
(* Records are true: iterators that share nothing                           *)

Readable(db, row) ==
  /\ iterator \in Iterators /\ IsAnchor(iterator, db) /\ HasTables(iterator, db)
  /\ row \in db.rows /\ Scans(ColumnsOf(iterator, db), row)

Read(db, row) == Scanned(ColumnsOf(iterator, db), row)

(* A column is the row's where it is selected, NULL elsewhere.               *)
LEMMA ReadIs ==
  ASSUME NEW db, NEW row, Readable(db, row)
  PROVE  /\ Read(db, row).id = row.id /\ row.id \in Int
         /\ \A f : Has(ColumnsOf(iterator, [absent |-> {}]), f) =>
              Read(db, row)[f] = IF Has(ColumnsOf(iterator, db), f) THEN row[f] ELSE Null
<1>1. /\ iterator \in Iterators /\ IsAnchor(iterator, db) /\ row \in db.rows
      /\ Scans(ColumnsOf(iterator, db), row)
  BY DEF Readable
<1>2. StartsWithId(ColumnsOf(iterator, db))
  BY <1>1, IdComesFirst
<1>3. /\ row.bad # "id"
      /\ \A k \in DOMAIN ColumnsOf(iterator, db) : ColumnsOf(iterator, db)[k] \in DOMAIN row \ {"bad"}
      /\ \A f : Has(ColumnsOf(iterator, [absent |-> {}]), f) => f \in DOMAIN row \ {"bad"}
  BY <1>1, ColumnsThere
<1>4. /\ Read(db, row).id = row.id
      /\ \A f \in DOMAIN row \ {"bad"} :
           Read(db, row)[f] = IF Has(ColumnsOf(iterator, db), f) THEN row[f] ELSE Null
  BY <1>1, <1>2, <1>3, ScannedIsOfTheRow DEF Read
<1>5. row.id \in Int
  BY <1>1 DEF IsAnchor
<1> QED
  BY <1>3, <1>4, <1>5

LEMMA FixedColumns ==
  ASSUME NEW f
  PROVE  /\ Has(CalendarColumns, f) <=> f \in {"id", "store", "plain"}
         /\ Has(ListColumns, f) <=> f \in {"id", "plain", "account"}
         /\ Has(ChatColumns, f) <=> f \in {"id", "plain"}
         /\ Has(GroupColumns, f) <=> f \in {"id", "plain"}
<1> "plain" \in ColumnNames /\ "store" \in ColumnNames /\ "account" \in ColumnNames
  BY DEF ColumnNames
<1>1. Has(<<"id", "plain">>, f) <=> f \in {"id", "plain"}
  BY ShortLists
<1>2. Has(<<"id", "store", "plain">>, f) <=> f \in {"id", "store", "plain"}
  BY ShortLists
<1>3. Has(<<"id", "plain", "account">>, f) <=> f \in {"id", "plain", "account"}
  BY ShortLists
<1> QED
  BY <1>1, <1>2, <1>3 DEF CalendarColumns, ListColumns, ChatColumns, GroupColumns

LEMMA CalendarsTrue ==
  ASSUME NEW db, NEW row, iterator = "Calendars", Readable(db, row), Loaded(db, "calendar")
  PROVE  Calendar(CalendarChildren(db), Read(db, row)) \in CalendarTruth(db, row)
<1> DEFINE read == Read(db, row)
<1>1. read.id = row.id /\ read.plain = row.plain /\ read.store = row.store
  BY ReadIs, FixedColumns DEF ColumnsOf
<1>2. At(ById(db.Store), row.store) \in Referred(db, "calendar", db.Store, row.store)
  BY DEF At, ById, Referred, Known, Loaded
<1> HIDE DEF read
<1>3. Calendar(CalendarChildren(db), read) \in CalendarTruth(db, row)
  BY <1>1, <1>2 DEF Calendar, CalendarChildren, loadStores, CalendarTruth
<1> QED
  BY <1>3 DEF read

LEMMA FoldersTrue ==
  ASSUME NEW db, NEW row, iterator = "Folders", Readable(db, row)
  PROVE  Folder(FolderChildren(db), Read(db, row)) \in FolderTruth(db, row)
<1> DEFINE read == Read(db, row)
           all == [absent |-> {}]
<1>1. /\ \A f : Has(ColumnsOf(iterator, all), f) <=> f \in {"id", "plain", "account"}
      /\ \A f : Has(ColumnsOf(iterator, db), f) <=>
           f \in {"id", "plain"} \/ ("account" \notin db.absent /\ f = "account")
  <2>1. all.absent = {}
    OBVIOUS
  <2> HIDE DEF all
  <2> QED
    BY <2>1, ColumnsAre DEF ColumnsOf
<1>2. /\ read.id = row.id /\ read.plain = row.plain
      /\ "account" \notin db.absent => read.account = row.account
  BY <1>1, ReadIs
<1> HIDE DEF read, all
<1>3. At(Unless(db, "account", ById(db.ICAccount)), read.account)
        \in Referred(db, "account", db.ICAccount, row.account)
  BY <1>2, LinkLeads
<1>4. Folder(FolderChildren(db), read) \in FolderTruth(db, row)
  BY <1>2, <1>3 DEF Folder, FolderChildren, loadNoteAccounts, FolderTruth
<1> QED
  BY <1>4 DEF read

(* The account of a row of a store of reminders, under the store's name.      *)
LEMMA AccountLeads ==
  ASSUME NEW db, NEW read, NEW link, Keyed(db.account), "account" \notin db.absent => read = link
  PROVE  At(Unless(db, "account", loadAccounts(db)), read)
           \in Named(db, Referred(db, "account", db.account, link))
<1>1. DOMAIN NilMap = {} /\ Null \notin Ids(db.account)
  BY RecordsAssumption DEF NilMap, Keyed, Ids
<1> QED
  BY <1>1 DEF At, Unless, loadAccounts, Referred, Known, Loaded, Named

LEMMA ListsTrue ==
  ASSUME NEW db, NEW row, iterator = "Lists", Readable(db, row)
  PROVE  List(db, ListChildren(db), Read(db, row)) \in ListTruth(db, row)
<1> DEFINE read == Read(db, row)
<1>1. read.id = row.id /\ read.plain = row.plain /\ read.account = row.account
  BY ReadIs, FixedColumns DEF ColumnsOf
<1>2. Keyed(db.account)
  BY DEF Readable, HasTables
<1> HIDE DEF read
<1>3. At(Unless(db, "account", loadAccounts(db)), read.account)
        \in Named(db, Referred(db, "account", db.account, row.account))
  BY <1>1, <1>2, AccountLeads
<1>4. List(db, ListChildren(db), read) \in ListTruth(db, row)
  BY <1>1, <1>3 DEF List, ListChildren, ListTruth
<1> QED
  BY <1>4 DEF read

(* The handles that joins refer to, all of them there.                      *)
LEMMA JoinedHandles ==
  ASSUME NEW db, Keyed(db.Handle), NEW joins, \A j \in joins : j.handle \in Ids(db.Handle)
  PROVE  Sorted({j.handle : j \in joins}) \in Listing({j.handle : j \in joins})
<1> DEFINE ids == {j.handle : j \in joins}
<1>1. IsFiniteSet(Ids(db.Handle)) /\ \A i \in Ids(db.Handle) : i \in Int
  BY SomeKeyed
<1>2. ids \subseteq Ids(db.Handle)
  OBVIOUS
<1> HIDE DEF ids
<1>3. IsFiniteSet(ids) /\ \A i \in ids : i \in Int
  BY <1>1, <1>2, FS_Subset
<1>4. Sorted(ids) \in Listing(ids)
  BY <1>3, SortedLists
<1> QED
  BY <1>4 DEF ids

LEMMA ChatsTrue ==
  ASSUME NEW db, NEW row, iterator = "Chats", Readable(db, row), NEW wrote1
  PROVE  Chat(db, ChatChildren(db), Read(db, row)) \subseteq Truth("Chats", db, row, wrote1)
<1> DEFINE read == Read(db, row)
           joins == {j \in db.HandleJoin : j.owner = row.id}
           handles == ChatChildren(db).handles
           participants == IF ~Loaded(db, "handles") THEN {<<>>} ELSE fillParticipants(handles, joins)
<1>1. read.id = row.id /\ read.plain = row.plain
  BY ReadIs, FixedColumns DEF ColumnsOf
<1>2. Keyed(db.Handle)
  BY DEF Readable, HasTables
<1> HIDE DEF read
<1>3. participants \subseteq Participants(db, "handles", row)
  <2>1. CASE ~Loaded(db, "handles")
    BY <2>1 DEF Participants, Known, Loaded
  <2>2. CASE Loaded(db, "handles")
    <3>1. DOMAIN handles = Ids(db.Handle)
      BY <2>2, HandlesAre DEF ChatChildren, loadHandles
    <3>2. (\A j \in joins : j.handle \in Ids(db.Handle)) =>
            Sorted({j.handle : j \in joins}) \in Listing({j.handle : j \in joins})
      BY <1>2, JoinedHandles
    <3> HIDE DEF handles, joins
    <3>3. participants \subseteq Listing({j.handle : j \in joins})
      BY <2>2, <3>1, <3>2 DEF fillParticipants
    <3>4. Participants(db, "handles", row) = Listing({j.handle : j \in joins})
      BY <2>2 DEF Participants, Known, Loaded, JoinsOf, joins
    <3> QED
      BY <3>3, <3>4
  <2> QED
    BY <2>1, <2>2
<1>4. Chat(db, ChatChildren(db), read) = [id : {row.id}, plain : {row.plain}, participants : participants]
  BY <1>1 DEF Chat
<1> HIDE DEF participants
<1>5. Chat(db, ChatChildren(db), read) \subseteq
        [id : {row.id}, plain : {row.plain}, participants : Participants(db, "handles", row)]
  BY <1>3, <1>4
<1> QED
  BY <1>5 DEF Truth, read

LEMMA CallsTrue ==
  ASSUME NEW db, NEW row, iterator = "Calls", Readable(db, row), NEW wrote1
  PROVE  Call(db, CallChildren(db), Read(db, row)) \subseteq Truth("Calls", db, row, wrote1)
<1> DEFINE read == Read(db, row)
           joins == {j \in db.HandleJoin : j.owner = row.id}
           handles == CallChildren(db).handles
           participants == IF ~Loaded(db, "participants") THEN {<<>>}
                           ELSE fillCallParticipants(handles, joins)
           all == [absent |-> {}]
<1>1. /\ \A f : Has(ColumnsOf(iterator, all), f) <=> f \in {"id", "plain", "optional"}
      /\ \A f : Has(ColumnsOf(iterator, db), f) <=>
           f \in {"id", "plain"} \/ ("optional" \notin db.absent /\ f = "optional")
  <2>1. all.absent = {}
    OBVIOUS
  <2> HIDE DEF all
  <2> QED
    BY <2>1, ColumnsAre DEF ColumnsOf
<1>2. read.id = row.id /\ read.plain = row.plain /\ read.optional \in Optional(db, row)
  BY <1>1, ReadIs DEF Optional, Shown
<1>3. Keyed(db.Handle)
  BY DEF Readable, HasTables
<1> HIDE DEF read
<1>4. participants \subseteq Participants(db, "participants", row)
  <2>1. CASE ~Loaded(db, "participants")
    BY <2>1 DEF Participants, Known, Loaded
  <2>2. CASE Loaded(db, "participants")
    <3>1. DOMAIN handles = Ids(db.Handle)
      BY <2>2, HandlesAre DEF CallChildren, loadCallHandles
    <3>2. (\A j \in joins : j.handle \in Ids(db.Handle)) =>
            Sorted({j.handle : j \in joins}) \in Listing({j.handle : j \in joins})
      BY <1>3, JoinedHandles
    <3> HIDE DEF handles, joins
    <3>3. participants \subseteq Listing({j.handle : j \in joins})
      BY <2>2, <3>1, <3>2 DEF fillCallParticipants
    <3>4. Participants(db, "participants", row) = Listing({j.handle : j \in joins})
      BY <2>2 DEF Participants, Known, Loaded, JoinsOf, joins
    <3> QED
      BY <3>3, <3>4
  <2> QED
    BY <2>1, <2>2
<1>5. Call(db, CallChildren(db), read) =
        [id : {row.id}, plain : {row.plain}, optional : {read.optional}, participants : participants]
  BY <1>2 DEF Call
<1> HIDE DEF participants
<1>6. Call(db, CallChildren(db), read) \subseteq
        [id : {row.id}, plain : {row.plain}, optional : Optional(db, row),
         participants : Participants(db, "participants", row)]
  BY <1>2, <1>4, <1>5
<1> QED
  BY <1>6 DEF Truth, read

(* Members of a group, people before groups, in the order of their ids.       *)
MembersOrdered(shown) ==
  {s \in [1 .. Cardinality(shown) -> shown] : \A j, k \in DOMAIN s : j < k => MemberBelow(s[j], s[k])}

LEMMA MembersSorted ==
  ASSUME NEW shown, IsFiniteSet(shown),
         \A m \in shown : m = [type |-> m.type, id |-> m.id] /\ m.type \in Int /\ m.id \in Int
  PROVE  MembersListed(shown) \in MembersOrdered(shown)
<1> DEFINE R == {p \in shown \X shown : MemberBelow(p[1], p[2])}
           s == Listed(shown, R)
<1>1. \A x, y : <<x, y>> \in R <=> x \in shown /\ y \in shown /\ MemberBelow(x, y)
  OBVIOUS
<1> HIDE DEF R
<1>2. OrderOn(R, shown)
  <2>1. \A x, y \in shown : x.type = y.type /\ x.id = y.id => x = y
    OBVIOUS
  <2>2. \A x \in shown : ~MemberBelow(x, x)
    BY DEF MemberBelow
  <2>3. \A x, y, z \in shown : MemberBelow(x, y) /\ MemberBelow(y, z) => MemberBelow(x, z)
    BY DEF MemberBelow
  <2>4. \A x, y \in shown : x # y => MemberBelow(x, y) \/ MemberBelow(y, x)
    BY <2>1 DEF MemberBelow
  <2> QED
    BY <1>1, <2>2, <2>3, <2>4 DEF OrderOn
<1>3. /\ s \in Seq(shown) /\ Len(s) = Cardinality(shown)
      /\ \A k \in 1 .. Cardinality(shown) : s[k] \in shown /\ PlaceIn(s[k], shown, R) = k - 1
  BY <1>2, ListedInOrder
<1> HIDE DEF s
<1>4. s \in [1 .. Cardinality(shown) -> shown] /\ DOMAIN s = 1 .. Cardinality(shown) /\ Cardinality(shown) \in Nat
  BY <1>3, FS_CardinalityType
<1>5. ASSUME NEW j \in DOMAIN s, NEW k \in DOMAIN s, j < k PROVE MemberBelow(s[j], s[k])
  <2>1. s[j] \in shown /\ s[k] \in shown /\ PlaceIn(s[j], shown, R) = j - 1 /\ PlaceIn(s[k], shown, R) = k - 1
    BY <1>3, <1>4
  <2>2. j - 1 < k - 1
    BY <1>4, <1>5
  <2>3. <<s[j], s[k]>> \in R
    BY <1>2, <2>1, <2>2, PlaceOrders
  <2> QED
    BY <1>1, <2>3
<1>6. s \in MembersOrdered(shown)
  BY <1>4, <1>5 DEF MembersOrdered
<1> QED
  BY <1>6 DEF MembersListed, s, R

LEMMA GroupsTrue ==
  ASSUME NEW db, NEW row, iterator = "Groups", Readable(db, row), NEW wrote1
  PROVE  Group(db, Read(db, row)) \subseteq Truth("Groups", db, row, wrote1)
<1> DEFINE read == Read(db, row)
           members == {m \in db.GroupMember : m.owner = row.id}
           shown == {[type |-> m.type, id |-> m.member] : m \in members}
<1>1. read.id = row.id /\ read.plain = row.plain
  BY ReadIs, FixedColumns DEF ColumnsOf
<1> HIDE DEF read
<1>2. IsFiniteSet(shown) /\ \A m \in shown : m = [type |-> m.type, id |-> m.id] /\ m.type \in Int /\ m.id \in Int
  <2>1. IsFiniteSet(db.GroupMember) /\ \A m \in db.GroupMember : m.type \in Int /\ m.member \in Int
    BY DEF Readable, HasTables
  <2>2. IsFiniteSet(members)
    BY <2>1, FS_Subset
  <2>3. \A m \in shown : m = [type |-> m.type, id |-> m.id] /\ m.type \in Int /\ m.id \in Int
    BY <2>1
  <2> DEFINE f == [m \in members |-> [type |-> m.type, id |-> m.member]]
  <2>4. f \in Surjection(members, shown)
    BY DEF Surjection
  <2> HIDE DEF f, members, shown
  <2>5. IsFiniteSet(shown)
    BY <2>2, <2>4, FS_Surjection
  <2> QED
    BY <2>3, <2>5
<1> HIDE DEF shown
<1>3. MembersListed(shown) \in MembersOrdered(shown)
  BY <1>2, MembersSorted
<1>4. Group(db, read) \subseteq {[id |-> row.id, plain |-> row.plain, members |-> MembersListed(shown)]}
  BY <1>1 DEF Group, shown
<1>5. Truth("Groups", db, row, wrote1) =
        [id : {row.id}, plain : {row.plain}, members : MembersOrdered(shown)]
  <2>1. MembersShown(db, row) = MembersOrdered(shown)
    BY DEF MembersShown, MembersOrdered, MemberBelow, Members, shown
  <2> QED
    BY <2>1 DEF Truth
<1>6. [id |-> row.id, plain |-> row.plain, members |-> MembersListed(shown)]
        \in [id : {row.id}, plain : {row.plain}, members : MembersOrdered(shown)]
  BY <1>3
<1>7. Group(db, read) \subseteq Truth("Groups", db, row, wrote1)
  BY <1>4, <1>5, <1>6
<1> QED
  BY <1>7 DEF read

(* The ids on one side of finitely many joins.                              *)
LEMMA Gathered ==
  ASSUME NEW joins, IsFiniteSet(joins)
  PROVE  IsFiniteSet({j.chat : j \in joins})
<1> DEFINE ids == {j.chat : j \in joins}
           f == [j \in joins |-> j.chat]
<1>1. f \in Surjection(joins, ids)
  BY DEF Surjection
<1> HIDE DEF f, ids
<1>2. IsFiniteSet(ids)
  BY <1>1, FS_Surjection
<1> QED
  BY <1>2 DEF ids

(* The chats of a message, as both of its iterators find them.               *)
LEMMA ChatsOfMessage ==
  ASSUME NEW db, NEW id \in Int, IsFiniteSet(db.ChatMessageJoin),
         \A j \in db.ChatMessageJoin : j.chat \in Int \cup {Null}
  PROVE  LET chats == {j.chat : j \in {j \in db.ChatMessageJoin : j.message = id}} \ {Null} IN
         /\ Sorted(chats) \in Listing(chats)
         /\ ListAt(loadChatIDs(db), id) = Sorted(chats)
<1> DEFINE mine == {j \in db.ChatMessageJoin : j.message = id}
           found == {j.chat : j \in mine}
           chats == found \ {Null}
           joins == {j \in db.ChatMessageJoin : Null \notin {j.message, j.chat}}
           of(m) == {j.chat : j \in {k \in joins : k.message = m}}
<1>1. IsFiniteSet(mine)
  BY FS_Subset
<1>2. IsFiniteSet(found)
  <2> HIDE DEF mine
  <2> QED
    BY <1>1, Gathered
<1>3. IsFiniteSet(chats) /\ \A i \in chats : i \in Int
  <2>1. \A i \in chats : i \in Int
    OBVIOUS
  <2> HIDE DEF found
  <2> QED
    BY <1>2, <2>1, FS_Subset
<1>4. of(id) = chats
  <2>1. id # Null
    BY RecordsAssumption
  <2> QED
    BY <2>1
<1>5. id \in {j.message : j \in joins} <=> chats # {}
  <2>1. id # Null
    BY RecordsAssumption
  <2> QED
    BY <2>1
<1>6. loadChatIDs(db) = [m \in {j.message : j \in joins} |-> Sorted(of(m))]
  BY DEF loadChatIDs
<1> HIDE DEF chats, joins, of
<1>7. ListAt(loadChatIDs(db), id) = Sorted(chats)
  <2>1. CASE chats = {}
    BY <1>5, <1>6, <2>1, NoneListed DEF ListAt
  <2>2. CASE chats # {}
    BY <1>4, <1>5, <1>6, <2>2 DEF ListAt
  <2> QED
    BY <2>1, <2>2
<1>8. Sorted(chats) \in Listing(chats)
  BY <1>3, SortedLists
<1> QED
  BY <1>7, <1>8 DEF chats

LEMMA MessagesTrue ==
  ASSUME NEW db, NEW row, iterator \in {"Messages", "ChatMessages"}, Readable(db, row), NEW wrote1,
         iterator = "ChatMessages" => Loaded(db, "chats"), NEW c \in ChildrenOf(db)
  PROVE  /\ iterator = "Messages" => Message(db, c, Read(db, row)) \subseteq Truth(iterator, db, row, wrote1)
         /\ iterator = "ChatMessages" =>
              ChatMessage(db, c, Read(db, row)) \subseteq Truth(iterator, db, row, wrote1)
<1> DEFINE read == Read(db, row)
           all == [absent |-> {}]
<1>1. /\ \A f : Has(ColumnsOf(iterator, all), f) <=>
           f \in {"id", "plain", "date", "handle", "optional", "attachments"}
      /\ \A f : Has(ColumnsOf(iterator, db), f) <=>
           \/ f \in {"id", "plain", "date", "handle"}
           \/ "optional" \notin db.absent /\ f = "optional"
           \/ "attachments" \notin db.absent /\ f = "attachments"
  <2>1. all.absent = {}
    OBVIOUS
  <2> HIDE DEF all
  <2>2. ColumnsOf(iterator, all) = MessageColumns(all) /\ ColumnsOf(iterator, db) = MessageColumns(db)
    BY DEF ColumnsOf
  <2> QED
    BY <2>1, <2>2, ColumnsAre
<1>2. /\ read.id = row.id /\ row.id \in Int /\ read.plain = row.plain /\ read.date = row.date
      /\ read.handle = row.handle /\ read.optional \in Optional(db, row)
      /\ "attachments" \notin db.absent => read.attachments = row.attachments
  BY <1>1, ReadIs DEF Optional, Shown
<1>3. /\ Keyed(db.Handle) /\ Keyed(db.Attachment) /\ IsFiniteSet(db.ChatMessageJoin)
      /\ \A j \in db.ChatMessageJoin : j.chat \in Int \cup {Null}
  BY DEF Readable, HasTables
<1>4. c.handles = Unless(db, "handles", ById(db.Handle))
  BY DEF ChildrenOf, MessageChildren, ChatMessageChildren, loadHandles
<1>5. At(c.handles, read.handle) \in Referred(db, "handles", db.Handle, row.handle)
  BY <1>2, <1>4, LinkLeads
<1> HIDE DEF read, all
<1> DEFINE joins == {j \in db.AttachmentJoin : j.message = row.id}
           attachments == IF ~Loaded(db, "attachments") \/ read.attachments \in {Null, 0} THEN {<<>>}
                          ELSE fillAttachments(db, read.id)
           chats == {j.chat : j \in {j \in db.ChatMessageJoin : j.message = row.id}} \ {Null}
           told == IF Loaded(db, "chats") THEN Listing(chats) ELSE {<<>>}
<1>6. attachments \subseteq Listing(Attached(db, row))
  <2>1. CASE ~Loaded(db, "attachments") \/ read.attachments \in {Null, 0}
    <3>1. Attached(db, row) = {}
      BY <1>2, <2>1 DEF Attached, Known, Loaded
    <3> QED
      BY <2>1, <3>1, NoneListed
  <2>2. CASE ~(~Loaded(db, "attachments") \/ read.attachments \in {Null, 0})
    <3> DEFINE ids == {j.attachment : j \in joins}
    <3>1. Attached(db, row) = ids
      BY <1>2, <2>2 DEF Attached, Known, Loaded
    <3>2. attachments = fillAttachments(db, row.id)
      BY <1>2, <2>2
    <3> HIDE DEF attachments
    <3>3. ASSUME NEW s \in attachments PROVE s \in Listing(ids)
      <4>1. s = Sorted(ids) /\ \A j \in joins : \E a \in db.Attachment : a.id = j.attachment
        BY <3>2, <3>3 DEF fillAttachments
      <4>2. ids \subseteq Ids(db.Attachment)
        BY <4>1 DEF Ids
      <4>3. IsFiniteSet(Ids(db.Attachment)) /\ \A i \in Ids(db.Attachment) : i \in Int
        BY <1>3, SomeKeyed
      <4> HIDE DEF ids
      <4>4. IsFiniteSet(ids) /\ \A i \in ids : i \in Int
        BY <4>2, <4>3, FS_Subset
      <4> QED
        BY <4>1, <4>4, SortedLists
    <3> QED
      BY <3>1, <3>3
  <2> QED
    BY <2>1, <2>2
<1>7. Sorted(chats) \in Listing(chats) /\ ListAt(loadChatIDs(db), row.id) = Sorted(chats)
  BY <1>2, <1>3, ChatsOfMessage
<1>8. Truth(iterator, db, row, wrote1) =
        [id : {row.id}, plain : {row.plain}, optional : Optional(db, row), date : {row.date},
         handle : Referred(db, "handles", db.Handle, row.handle), chats : told,
         attachments : Listing(Attached(db, row))]
  BY DEF Truth, MessageTruth, Known, Loaded, Memberships
<1> HIDE DEF attachments, told
<1>9. ASSUME NEW given1, given1 \subseteq told
      PROVE  enrich(db, c, read, given1) \subseteq Truth(iterator, db, row, wrote1)
  <2>1. enrich(db, c, read, given1) \subseteq
          [id : {read.id}, plain : {read.plain}, optional : {read.optional}, date : {read.date},
           handle : {At(c.handles, read.handle)}, chats : given1, attachments : attachments]
    BY DEF enrich, attachments
  <2>2. [id : {read.id}, plain : {read.plain}, optional : {read.optional}, date : {read.date},
         handle : {At(c.handles, read.handle)}, chats : given1, attachments : attachments]
        \subseteq Truth(iterator, db, row, wrote1)
    BY <1>2, <1>5, <1>6, <1>8, <1>9
  <2> QED
    BY <2>1, <2>2
<1>10. ASSUME iterator = "Messages"
       PROVE  Message(db, c, read) \subseteq Truth(iterator, db, row, wrote1)
  <2>1. c.chatIDs = Unless(db, "chats", loadChatIDs(db))
    BY <1>10 DEF ChildrenOf, MessageChildren
  <2>2. {IF ~Loaded(db, "chats") THEN <<>> ELSE ListAt(c.chatIDs, read.id)} \subseteq told
    BY <1>2, <1>7, <2>1 DEF Unless, Loaded, told
  <2> QED
    BY <1>9, <2>2 DEF Message
<1>11. ASSUME iterator = "ChatMessages"
       PROVE  ChatMessage(db, c, read) \subseteq Truth(iterator, db, row, wrote1)
  <2>1. fillChatIDs(db, read.id) \subseteq {Sorted(chats)}
    BY <1>2 DEF fillChatIDs
  <2>2. fillChatIDs(db, read.id) \subseteq told
    BY <1>7, <1>11, <2>1 DEF told
  <2> QED
    BY <1>9, <2>2 DEF ChatMessage
<1> QED
  BY <1>10, <1>11 DEF read

LEMMA PeopleTrue ==
  ASSUME NEW db, NEW row, iterator = "People", Readable(db, row), NEW wrote1
  PROVE  Person(db, loadLookups(db), Read(db, row)) \subseteq Truth("People", db, row, wrote1)
<1> DEFINE read == Read(db, row)
           all == [absent |-> {}]
           lk == loadLookups(db)
<1>1. /\ \A f : Has(ColumnsOf(iterator, all), f) <=> f \in {"id", "plain", "optional", "store"}
      /\ \A f : Has(ColumnsOf(iterator, db), f) <=>
           \/ f \in {"id", "plain"}
           \/ "optional" \notin db.absent /\ f = "optional"
           \/ "account" \notin db.absent /\ f = "store"
  <2>1. all.absent = {}
    OBVIOUS
  <2> HIDE DEF all
  <2>2. ColumnsOf(iterator, all) = PersonColumns(all) /\ ColumnsOf(iterator, db) = PersonColumns(db)
    BY DEF ColumnsOf
  <2> QED
    BY <2>1, <2>2, ColumnsAre
<1>2. /\ read.id = row.id /\ read.plain = row.plain /\ read.optional \in Optional(db, row)
      /\ "account" \notin db.absent => read.store = row.store
  BY <1>1, ReadIs DEF Optional, Shown
<1>3. Keyed(db.MultiValue) /\ Keyed(db.Label)
  BY DEF Readable, HasTables
<1> HIDE DEF read, all
<1>4. At(lk.stores, read.store) \in Referred(db, "account", db.Store, row.store)
  <2>1. lk.stores = Unless(db, "account", ById(db.Store))
    BY DEF loadLookups
  <2> QED
    BY <1>2, <2>1, LinkLeads
<1> DEFINE mine == ValuesOf(db, row)
           values == {v \in mine : v.property = "value"}
           addresses == {v \in mine : Known(db, "addresses") /\ v.property = "address"}
           keys(v) == {e.key : e \in EntriesOf(db, v)}
           label(v) == IF v.label = Null THEN Null ELSE lk.labels[v.label]
           parts(v) == CHOOSE x \in addressComponents(db, v.id, lk.entryKeys) : TRUE
           sv == SortedRows(values)
           sa == SortedRows(addresses)
           both(a) == [values |-> [k \in DOMAIN sv |-> [id |-> sv[k].id, label |-> label(sv[k])]],
                     addresses |-> [k \in DOMAIN SortedRows(a) |->
                                      [id |-> SortedRows(a)[k].id, label |-> label(SortedRows(a)[k]),
                                       components |-> parts(SortedRows(a)[k])]]]
           sound(a) == /\ \A v \in mine : v.bad = Null /\ v.label \in {Null} \cup DOMAIN lk.labels
                       /\ \A v \in a : addressComponents(db, v.id, lk.entryKeys) # {}
           shown == both(addresses)
           whole == sound(addresses)
<1>5. fillMultiValues(db, lk, row.id) = IF whole THEN {shown} ELSE {}
  <2> DEFINE read1 == IF ~Loaded(db, "addresses") THEN {} ELSE {v \in mine : v.property = "address"}
  <2>1. read1 = addresses
    BY DEF Known, Loaded
  <2>2. fillMultiValues(db, lk, row.id) = IF sound(read1) THEN {both(read1)} ELSE {}
    BY DEF fillMultiValues, ValuesOf
  <2> HIDE DEF both, sound, read1, addresses
  <2> QED
    BY <2>1, <2>2
<1>6. Keyed(values) /\ Keyed(addresses) /\ values \subseteq mine /\ addresses \subseteq mine
  <2>1. values \subseteq db.MultiValue /\ addresses \subseteq db.MultiValue
    BY DEF ValuesOf
  <2>2. values \subseteq mine /\ addresses \subseteq mine
    OBVIOUS
  <2> HIDE DEF values, addresses, mine
  <2> QED
    BY <1>3, <2>1, <2>2, SomeKeyed
<1>7. ASSUME whole, NEW v \in mine PROVE label(v) = v.label
  <2>1. lk.labels = ById(db.Label)
    BY DEF loadLookups
  <2>2. v.label = Null \/ v.label \in DOMAIN lk.labels
    BY <1>7
  <2> QED
    BY <2>1, <2>2 DEF ById
<1>8. ASSUME whole, NEW v \in addresses
      PROVE  parts(v) = keys(v)
  <2>1. addressComponents(db, v.id, lk.entryKeys) # {}
    BY <1>8
  <2>2. addressComponents(db, v.id, lk.entryKeys) = {keys(v)}
    BY <2>1 DEF addressComponents, EntriesOf
  <2> HIDE DEF keys
  <2> QED
    BY <2>2
<1> DEFINE valuesTrue == {[k \in DOMAIN s |-> [id |-> s[k], label |-> RowOf(values, s[k]).label]] :
                            s \in Listing(Ids(values))}
           addressesTrue == {[k \in DOMAIN s |->
                                [id |-> s[k], label |-> RowOf(addresses, s[k]).label,
                                 components |-> keys(RowOf(addresses, s[k]))]] :
                               s \in Listing(Ids(addresses))}
<1> HIDE DEF label, keys, lk, parts
<1>9. ASSUME whole PROVE shown.values \in valuesTrue
  <2> DEFINE s == [k \in DOMAIN sv |-> sv[k].id]
  <2>1. s \in Listing(Ids(values)) /\ \A k \in DOMAIN sv : sv[k] \in values
    BY <1>6, SortedRowsList
  <2>2. \A k \in DOMAIN sv : RowOf(values, s[k]) = sv[k] /\ label(sv[k]) = sv[k].label
    <3> HIDE DEF sv, values, mine
    <3> QED
      BY <1>6, <1>7, <1>9, <2>1, RowOfIs
  <2> HIDE DEF sv, values
  <2>3. shown.values = [k \in DOMAIN s |-> [id |-> s[k], label |-> RowOf(values, s[k]).label]]
    BY <2>2
  <2> HIDE DEF s, shown
  <2> QED
    BY <2>1, <2>3
<1>10. ASSUME whole PROVE shown.addresses \in addressesTrue
  <2> DEFINE s == [k \in DOMAIN sa |-> sa[k].id]
  <2>1. s \in Listing(Ids(addresses)) /\ \A k \in DOMAIN sa : sa[k] \in addresses
    <3> HIDE DEF addresses
    <3> QED
      BY <1>6, SortedRowsList
  <2>2. \A k \in DOMAIN sa : RowOf(addresses, s[k]) = sa[k] /\ label(sa[k]) = sa[k].label
    <3> HIDE DEF sa, addresses, mine
    <3> QED
      BY <1>6, <1>7, <1>10, <2>1, RowOfIs
  <2>3. \A k \in DOMAIN sa : parts(sa[k]) = keys(sa[k])
    <3> HIDE DEF sa, addresses
    <3> QED
      BY <1>8, <1>10, <2>1
  <2>4. shown.addresses =
          [k \in DOMAIN sa |->
             [id |-> sa[k].id, label |-> label(sa[k]), components |-> parts(sa[k])]]
    OBVIOUS
  <2> HIDE DEF sa, addresses, shown
  <2>5. shown.addresses =
          [k \in DOMAIN s |-> [id |-> s[k], label |-> RowOf(addresses, s[k]).label,
                               components |-> keys(RowOf(addresses, s[k]))]]
    BY <2>2, <2>3, <2>4
  <2> HIDE DEF s
  <2> QED
    BY <2>1, <2>5
<1>11. Truth("People", db, row, wrote1) =
         [id : {row.id}, plain : {row.plain}, optional : Optional(db, row),
          store : Referred(db, "account", db.Store, row.store),
          values : valuesTrue, addresses : addressesTrue]
  BY Zenon DEF Truth, PersonTruth, keys
<1>12. Person(db, lk, read) \subseteq
         {[id |-> row.id, plain |-> row.plain, optional |-> read.optional,
           store |-> At(lk.stores, read.store), values |-> shown.values, addresses |-> shown.addresses] :
            x \in {y \in {1} : whole}}
  <2> HIDE DEF shown, whole
  <2> QED
    BY <1>2, <1>5 DEF Person
<1> HIDE DEF shown, whole, valuesTrue, addressesTrue
<1>13. Person(db, lk, read) \subseteq Truth("People", db, row, wrote1)
  <2>1. ASSUME NEW r \in Person(db, lk, read) PROVE r \in Truth("People", db, row, wrote1)
    <3>1. whole /\ r = [id |-> row.id, plain |-> row.plain, optional |-> read.optional,
                        store |-> At(lk.stores, read.store), values |-> shown.values,
                        addresses |-> shown.addresses]
      BY <1>12, <2>1
    <3>2. shown.values \in valuesTrue /\ shown.addresses \in addressesTrue
      BY <1>9, <1>10, <3>1
    <3> QED
      BY <1>2, <1>4, <1>11, <3>1, <3>2
  <2> QED
    BY <2>1
<1> QED
  BY <1>13 DEF read, lk

-----------------------------------------------------------------------------
(* Reference tables that records lead into                                  *)

(* What a consumer leaves of a map whose entries have a pointer in field, and *)
(* of a map of lists whose keys in seen were given to it.                    *)
EntriesKept(map, loaded, field, w) ==
  /\ DOMAIN map = DOMAIN loaded
  /\ \A i \in DOMAIN loaded :
       map[i] = loaded[i] \/ (w /\ map[i] = [loaded[i] EXCEPT ![field] = Spoilt])

ListsKept(map, loaded, seen) ==
  DOMAIN map = DOMAIN loaded /\ \A i \in DOMAIN loaded \ seen : map[i] = loaded[i]

LEMMA OverKeeps ==
  ASSUME NEW map, NEW loaded, NEW field, NEW w, EntriesKept(map, loaded, field, w), NEW child
  PROVE  EntriesKept(Over(map, child, field), loaded, field, TRUE)
<1> DEFINE over == Over(map, child, field)
<1>1. CASE over = map
  BY <1>1 DEF EntriesKept
<1>2. CASE over # map
  <2>1. over = [map EXCEPT ![child.id] = [map[child.id] EXCEPT ![field] = Spoilt]]
    BY <1>2 DEF Over
  <2>2. DOMAIN over = DOMAIN map /\ DOMAIN map = DOMAIN loaded
    BY <2>1 DEF EntriesKept
  <2>3. ASSUME NEW i \in DOMAIN loaded
        PROVE  over[i] = loaded[i] \/ over[i] = [loaded[i] EXCEPT ![field] = Spoilt]
    <3>1. map[i] = loaded[i] \/ map[i] = [loaded[i] EXCEPT ![field] = Spoilt]
      BY <2>3 DEF EntriesKept
    <3>2. CASE i # child.id
      BY <2>1, <2>2, <3>1, <3>2
    <3>3. CASE i = child.id
      <4>1. over[i] = [map[i] EXCEPT ![field] = Spoilt]
        BY <2>1, <2>2, <3>3
      <4>2. [map[i] EXCEPT ![field] = Spoilt] = [loaded[i] EXCEPT ![field] = Spoilt]
        BY <3>1
      <4> QED
        BY <4>1, <4>2
    <3> QED
      BY <3>2, <3>3
  <2> HIDE DEF over
  <2> QED
    BY <2>2, <2>3 DEF EntriesKept, over
<1> QED
  BY <1>1, <1>2

LEMMA OverListKeeps ==
  ASSUME NEW map, NEW loaded, NEW seen, ListsKept(map, loaded, seen), NEW id, NEW value
  PROVE  /\ ListsKept(OverList(map, id), loaded, seen \cup {id})
         /\ ListsKept([map EXCEPT ![id] = value], loaded, seen \cup {id})
         /\ ListsKept(map, loaded, seen \cup {id})
<1>1. /\ DOMAIN OverList(map, id) = DOMAIN map
      /\ \A i \in DOMAIN map \ {id} : OverList(map, id)[i] = map[i]
  BY DEF OverList
<1>2. /\ DOMAIN [map EXCEPT ![id] = value] = DOMAIN map
      /\ \A i \in DOMAIN map \ {id} : [map EXCEPT ![id] = value][i] = map[i]
  OBVIOUS
<1> QED
  BY <1>1, <1>2 DEF ListsKept

(* The reference tables after records of the rows in seen have been given.    *)
Kept(c, loaded, seen, w) ==
  /\ DOMAIN c = DOMAIN loaded
  /\ CASE iterator = "Events" ->
            /\ EntriesKept(c.calendars, loaded.calendars, "store", w)
            /\ c.locations = loaded.locations /\ c.organizers = loaded.organizers
            /\ ListsKept(c.attendees, loaded.attendees, seen)
            /\ ListsKept(c.recurrences, loaded.recurrences, seen)
            /\ ListsKept(c.alarms, loaded.alarms, seen)
            /\ ListsKept(c.attachments, loaded.attachments, seen)
       [] iterator = "Notes" ->
            /\ EntriesKept(c.folders, loaded.folders, "account", w)
            /\ c.accounts = loaded.accounts /\ c.attachments = loaded.attachments
       [] iterator = "Reminders" ->
            /\ EntriesKept(c.lists, loaded.lists, "account", w)
            /\ c.accounts = loaded.accounts /\ c.assignees = loaded.assignees
            /\ ListsKept(c.recurrences, loaded.recurrences, seen)
       [] OTHER -> c = loaded

(* As loaded, the tables are as loaded; and what is kept stays so.            *)
LEMMA JustLoaded ==
  ASSUME NEW loaded, NEW seen, NEW w
  PROVE  Kept(loaded, loaded, seen, w)
<1>1. \A map, field : EntriesKept(map, map, field, w) /\ ListsKept(map, map, seen)
  BY DEF EntriesKept, ListsKept
<1> QED
  BY <1>1 DEF Kept

LEMMA StillKept ==
  ASSUME NEW c, NEW loaded, NEW seen, NEW w, Kept(c, loaded, seen, w), NEW id
  PROVE  Kept(c, loaded, seen \cup {id}, w)
<1>1. \A map, lists : ListsKept(map, lists, seen) => ListsKept(map, lists, seen \cup {id})
  BY DEF ListsKept
<1> QED
  BY <1>1 DEF Kept

LEMMA SpoiledKeeps ==
  ASSUME NEW db, NEW loaded \in ChildrenOf(db), NEW seen, NEW w, Kept(children, loaded, seen, w),
         NEW record
  PROVE  Kept(Spoiled(record), loaded, seen \cup {record.id}, TRUE)
<1> DEFINE c == children
           more == seen \cup {record.id}
           over == Spoiled(record)
<1>1. CASE iterator = "Events"
  <2>1. DOMAIN c = {"calendars", "locations", "organizers", "attendees", "recurrences", "alarms", "attachments"}
    BY <1>1 DEF Kept, ChildrenOf, EventChildren
  <2>2. over = SpoilEvent(c, record)
    BY <1>1 DEF Spoiled
  <2>3. /\ DOMAIN over = DOMAIN c
        /\ over.calendars = Over(c.calendars, record.calendar, "store")
        /\ over.locations = c.locations /\ over.organizers = c.organizers
        /\ over.attendees = OverList(c.attendees, record.id)
        /\ over.recurrences = OverList(c.recurrences, record.id)
        /\ over.alarms = OverList(c.alarms, record.id)
        /\ over.attachments = OverList(c.attachments, record.id)
    BY <2>1, <2>2 DEF SpoilEvent
  <2> HIDE DEF over, c
  <2>4. /\ EntriesKept(c.calendars, loaded.calendars, "store", w)
        /\ c.locations = loaded.locations /\ c.organizers = loaded.organizers
        /\ ListsKept(c.attendees, loaded.attendees, seen)
        /\ ListsKept(c.recurrences, loaded.recurrences, seen)
        /\ ListsKept(c.alarms, loaded.alarms, seen)
        /\ ListsKept(c.attachments, loaded.attachments, seen)
        /\ DOMAIN c = DOMAIN loaded
    BY <1>1 DEF Kept, c
  <2>5. EntriesKept(over.calendars, loaded.calendars, "store", TRUE)
    BY <2>3, <2>4, OverKeeps
  <2>6. /\ ListsKept(over.attendees, loaded.attendees, more)
        /\ ListsKept(over.recurrences, loaded.recurrences, more)
        /\ ListsKept(over.alarms, loaded.alarms, more)
        /\ ListsKept(over.attachments, loaded.attachments, more)
    <3>1. /\ ListsKept(OverList(c.attendees, record.id), loaded.attendees, more)
          /\ ListsKept(OverList(c.recurrences, record.id), loaded.recurrences, more)
      BY <2>4, OverListKeeps
    <3>2. /\ ListsKept(OverList(c.alarms, record.id), loaded.alarms, more)
          /\ ListsKept(OverList(c.attachments, record.id), loaded.attachments, more)
      BY <2>4, OverListKeeps
    <3> QED
      BY <2>3, <3>1, <3>2
  <2> QED
    BY <1>1, <2>3, <2>4, <2>5, <2>6 DEF Kept, over
<1>2. CASE iterator = "Notes"
  <2>1. DOMAIN c = {"accounts", "folders", "attachments"}
    BY <1>2 DEF Kept, ChildrenOf, NoteChildren
  <2>2. over = SpoilNote(c, record)
    BY <1>2 DEF Spoiled
  <2>3. /\ DOMAIN over = DOMAIN c
        /\ over.folders = Over(c.folders, record.folder, "account")
        /\ over.accounts = c.accounts /\ over.attachments = c.attachments
    BY <2>1, <2>2 DEF SpoilNote
  <2> HIDE DEF over, c
  <2>4. /\ EntriesKept(c.folders, loaded.folders, "account", w)
        /\ c.accounts = loaded.accounts /\ c.attachments = loaded.attachments
        /\ DOMAIN c = DOMAIN loaded
    BY <1>2 DEF Kept, c
  <2>5. EntriesKept(over.folders, loaded.folders, "account", TRUE)
    BY <2>3, <2>4, OverKeeps
  <2> QED
    BY <1>2, <2>3, <2>4, <2>5 DEF Kept, over
<1>3. CASE iterator = "Reminders"
  <2>1. DOMAIN c = {"accounts", "lists", "recurrences", "assignees"}
    BY <1>3 DEF Kept, ChildrenOf, ReminderChildren
  <2>2. over = SpoilReminder(c, record)
    BY <1>3 DEF Spoiled
  <2>3. /\ DOMAIN over = DOMAIN c
        /\ over.lists = Over(c.lists, record.list, "account")
        /\ over.accounts = c.accounts /\ over.assignees = c.assignees
        /\ \/ over.recurrences = c.recurrences
           \/ over.recurrences = [c.recurrences EXCEPT ![record.id] = Spoilt]
    BY <2>1, <2>2 DEF SpoilReminder
  <2> HIDE DEF over, c
  <2>4. /\ EntriesKept(c.lists, loaded.lists, "account", w)
        /\ c.accounts = loaded.accounts /\ c.assignees = loaded.assignees
        /\ ListsKept(c.recurrences, loaded.recurrences, seen)
        /\ DOMAIN c = DOMAIN loaded
    BY <1>3 DEF Kept, c
  <2>5. EntriesKept(over.lists, loaded.lists, "account", TRUE)
    <3>1. EntriesKept(Over(c.lists, record.list, "account"), loaded.lists, "account", TRUE)
      BY <2>4, OverKeeps
    <3> QED
      BY <2>3, <3>1
  <2>6. ListsKept(over.recurrences, loaded.recurrences, more)
    <3>1. /\ ListsKept(c.recurrences, loaded.recurrences, more)
          /\ ListsKept([c.recurrences EXCEPT ![record.id] = Spoilt], loaded.recurrences, more)
      BY <2>4, OverListKeeps
    <3> QED
      BY <2>3, <3>1
  <2> QED
    BY <1>3, <2>3, <2>4, <2>5, <2>6 DEF Kept, over
<1>4. CASE iterator \notin Sharing
  <2>1. over = c /\ c = loaded
    BY <1>4 DEF Spoiled, Sharing, Kept
  <2> QED
    BY <2>1, JustLoaded
<1> QED
  BY <1>1, <1>2, <1>3, <1>4 DEF Sharing

(* The ids of the rows already read of the store at hand.                    *)
Passed == {Result(stores[at.store])[k].id : k \in 1 .. at.row}

LEMMA PassedOnce ==
  ASSUME TypeInv, pc = "rows", at.row < Len(Result(stores[at.store]))
  PROVE  RowAtHand.id \notin Passed
<1> DEFINE db == stores[at.store]
           A == Anchored(db)
           s == Result(db)
           n == at.row + 1
<1>1. IsAnchor(iterator, db) /\ at.row \in Nat
  BY WorldFacts DEF TypeInv, Within
<1>2. OrderOn(Order(db), A) /\ A \subseteq db.rows
  BY <1>1, AnchorOrdered
<1>3. s = Listed(A, Order(db))
  BY DEF Result, Order
<1>4. /\ Len(s) = Cardinality(A) /\ Cardinality(A) \in Nat
      /\ \A k \in 1 .. Cardinality(A) : s[k] \in A /\ PlaceIn(s[k], A, Order(db)) = k - 1
  BY <1>2, <1>3, ListedInOrder, FS_CardinalityType DEF OrderOn
<1>5. \A r, t \in db.rows : r.id = t.id => r = t
  BY <1>1 DEF IsAnchor
<1>6. RowAtHand = s[n] /\ Passed = {s[k].id : k \in 1 .. n - 1} /\ n \in 1 .. Len(s)
  BY <1>1, <1>4 DEF RowAtHand, Passed
<1> HIDE DEF n, s, A, db
<1>7. ASSUME NEW k \in 1 .. n - 1, s[k].id = s[n].id PROVE FALSE
  <2>1. k \in 1 .. Cardinality(A) /\ n \in 1 .. Cardinality(A) /\ k - 1 # n - 1
    BY <1>4, <1>6
  <2>2. s[k] \in db.rows /\ s[n] \in db.rows
    BY <1>2, <1>4, <2>1
  <2>3. s[k] = s[n]
    BY <1>5, <1>7, <2>2
  <2>4. PlaceIn(s[k], A, Order(db)) = k - 1 /\ PlaceIn(s[n], A, Order(db)) = n - 1
    BY <1>4, <2>1
  <2> QED
    BY <2>1, <2>3, <2>4
<1> QED
  BY <1>6, <1>7

(* A record has the id of its row.                                         *)
LEMMA RecordHasId ==
  ASSUME NEW db, NEW row, IsAnchor(iterator, db), HasTables(iterator, db), row \in db.rows,
         iterator \in Sharing, NEW record \in RecordsFrom(db, row)
  PROVE  record.id = row.id
<1> DEFINE read == Read(db, row)
<1>1. Scans(ColumnsOf(iterator, db), row) /\ record \in RecordOf(db, read)
  BY DEF RecordsFrom, Read
<1>2. read.id = row.id
  BY <1>1, ReadIs DEF Readable, Iterators, Sharing
<1> HIDE DEF read
<1>3. record \in {Event(children, read), Note(children, read), Reminder(db, children, read)}
  BY <1>1 DEF RecordOf, Sharing
<1> QED
  BY <1>2, <1>3 DEF Event, Note, Reminder

(* While rows are read, the reference tables are those of the store at hand,   *)
(* written over at most where records given before have led the consumer.      *)
KeptInv ==
  pc = "rows" => \E loaded \in ChildrenOf(stores[at.store]) : Kept(children, loaded, Passed, wrote)

LEMMA KeptInit == Init => KeptInv
  BY DEF Init, KeptInv

LEMMA KeptStep == TypeInv /\ KeptInv /\ [Next]_vars => KeptInv'
<1> SUFFICES ASSUME TypeInv, KeptInv, [Next]_vars, pc' = "rows" PROVE KeptInv'
  BY DEF KeptInv
<1>1. UNCHANGED <<iterator, stores>>
  BY DEF Next, Begin, Load, NextRow, EndOfRows, vars
<1>2. ASSUME NEW loaded \in ChildrenOf(stores[at.store]), at'.store = at.store,
             Kept(children', loaded, Passed', wrote')
      PROVE  KeptInv'
  <2>1. Kept(children, loaded, Passed, wrote)'
    BY <1>1, <1>2 DEF Kept
  <2>2. loaded \in ChildrenOf(stores[at.store])'
    BY <1>1, <1>2 DEF ChildrenOf
  <2> QED
    BY <2>1, <2>2 DEF KeptInv
<1>3. CASE UNCHANGED vars
  <2>1. UNCHANGED <<at, children, wrote, pc>> /\ Passed' = Passed
    BY <1>3 DEF vars, Passed, Result, Anchored, Before
  <2>2. PICK loaded \in ChildrenOf(stores[at.store]) : Kept(children, loaded, Passed, wrote)
    BY <2>1 DEF KeptInv
  <2> QED
    BY <1>2, <2>1, <2>2
<1>4. CASE Begin
  BY <1>4 DEF Begin, Leave
<1>5. CASE Load
  <2>1. at' = at /\ children' \in ChildrenOf(stores[at.store])
    BY <1>5 DEF Load, Leave, LoadedFor
  <2>2. Kept(children', children', Passed', wrote')
    BY JustLoaded
  <2> DEFINE loaded == children'
  <2> QED
    BY <1>1, <2>1, <2>2 DEF KeptInv, Kept, ChildrenOf
<1>6. CASE NextRow
  <2>1. PICK g : RowGiven(g)
    BY <1>6, OneRowGiven
  <2> DEFINE db == stores[at.store]
  <2>2. /\ pc = "rows" /\ at.store \in Within /\ at'.store = at.store /\ at'.row = at.row + 1
        /\ RowAtHand \in db.rows
    BY <1>6, OneRowGiven DEF NextRow, TypeInv
  <2>3. PICK loaded \in ChildrenOf(db) : Kept(children, loaded, Passed, wrote)
    BY <2>2 DEF KeptInv
  <2>4. Passed' = Passed \cup {RowAtHand.id}
    <3>1. Passed' = {Result(db)[k].id : k \in 1 .. at.row + 1}
      BY <1>1, <2>2 DEF Passed, Result, Anchored, Before
    <3>2. 1 .. at.row + 1 = 1 .. at.row \cup {at.row + 1}
      BY DEF TypeInv, TypeOK
    <3> QED
      BY <3>1, <3>2 DEF Passed, RowAtHand
  <2>5. Kept(children', loaded, Passed', wrote')
    <3>1. CASE children' = children /\ wrote' = wrote
      BY <2>3, <2>4, <3>1, StillKept
    <3>2. CASE children' = Spoiled(g.record) /\ wrote' = TRUE /\ g.kind = "record"
      <4>1. CASE iterator \in Sharing
        <5>1. g.record \in RecordsFrom(db, RowAtHand)
          BY <2>1, <3>2 DEF RowGiven
        <5>2. IsAnchor(iterator, db) /\ HasTables(iterator, db)
          BY <2>2, WorldFacts DEF TypeInv, Within
        <5>3. g.record.id = RowAtHand.id
          BY <2>2, <4>1, <5>1, <5>2, RecordHasId
        <5>4. Kept(Spoiled(g.record), loaded, Passed \cup {g.record.id}, TRUE)
          BY <2>3, SpoiledKeeps
        <5> QED
          BY <2>4, <3>2, <5>3, <5>4
      <4>2. CASE iterator \notin Sharing
        <5>1. Spoiled(g.record) = children /\ children = loaded
          BY <2>3, <4>2 DEF Spoiled, Sharing, Kept
        <5> QED
          BY <3>2, <5>1, JustLoaded
      <4> QED
        BY <4>1, <4>2
    <3> QED
      BY <2>1, <3>1, <3>2 DEF RowGiven
  <2> QED
    BY <1>2, <2>2, <2>3, <2>5
<1>7. CASE EndOfRows
  BY <1>7 DEF EndOfRows, Leave
<1> QED
  BY <1>3, <1>4, <1>5, <1>6, <1>7 DEF Next

-----------------------------------------------------------------------------
(* Records are true: iterators that share what their records lead to         *)

(* Children grouped by their owner are those the owner has, in order.         *)
LEMMA GroupedByOwner ==
  ASSUME NEW rows, Keyed(rows), NEW id \in Int, id # 0
  PROVE  ListAt(ByOwner(rows), id) \in Listing(Ids({r \in rows : r.owner = id}))
<1> DEFINE mine == {r \in rows : r.owner = id}
<1>1. mine \subseteq rows
  OBVIOUS
<1>2. ListAt(ByOwner(rows), id) = IF mine = {} THEN <<>> ELSE Sorted(Ids(mine))
  <2>1. \A r : OwnerKey(r) = id <=> r.owner = id
    BY RecordsAssumption DEF OwnerKey
  <2>2. {r \in rows : OwnerKey(r) = id} = mine /\ (id \in {OwnerKey(r) : r \in rows} <=> mine # {})
    BY <2>1
  <2> HIDE DEF mine
  <2> QED
    BY <2>2 DEF ListAt, ByOwner
<1> HIDE DEF mine
<1>3. Sorted(Ids(mine)) \in Listing(Ids(mine))
  BY <1>1, SomeKeyed, SortedLists
<1>4. mine = {} => <<>> \in Listing(Ids(mine))
  BY NoneListed DEF Ids
<1> QED
  BY <1>2, <1>3, <1>4 DEF mine

LEMMA OwnedLists ==
  ASSUME NEW db, NEW unit, NEW rows, Keyed(rows), NEW id \in Int, id # 0, NEW seen, id \notin seen,
         NEW map, ListsKept(map, Unless(db, unit, ByOwner(rows)), seen)
  PROVE  ListAt(map, id) \in Owned(db, unit, rows, id)
<1> DEFINE loaded == Unless(db, unit, ByOwner(rows))
<1>1. ListAt(map, id) = ListAt(loaded, id)
  BY DEF ListsKept, ListAt
<1>2. ListAt(NilMap, id) = <<>>
  BY DEF ListAt, NilMap
<1> QED
  BY <1>1, <1>2, GroupedByOwner DEF Unless, Owned, Known, Loaded

(* What an entry with a pointer in it may be.                               *)
LEMMA EntryLeads ==
  ASSUME NEW map, NEW loaded, NEW field, NEW w, EntriesKept(map, loaded, field, w), NEW link
  PROVE  /\ link \notin DOMAIN loaded => At(map, link) = Null
         /\ link \in DOMAIN loaded =>
              \/ At(map, link) = loaded[link]
              \/ w /\ At(map, link) = [loaded[link] EXCEPT ![field] = Spoilt]
  BY DEF EntriesKept, At

LEMMA CalendarOfEvent ==
  ASSUME NEW db, Keyed(db.Calendar), NEW map, NEW w, NEW link,
         EntriesKept(map, Unless(db, "calendar", loadCalendars(db)), "store", w)
  PROVE  At(map, link) \in
           UNION {IF c = Null THEN {Null}
                  ELSE [id : {c}, store : Written(w) \cup
                          Referred(db, "calendar", db.Store, RowOf(db.Calendar, c).store)] :
                  c \in Referred(db, "calendar", db.Calendar, link)}
<1> DEFINE loaded == Unless(db, "calendar", loadCalendars(db))
           may(c) == IF c = Null THEN {Null}
                     ELSE [id : {c}, store : Written(w) \cup
                             Referred(db, "calendar", db.Store, RowOf(db.Calendar, c).store)]
<1>1. CASE ~Loaded(db, "calendar") \/ link \notin Ids(db.Calendar)
  <2>1. link \notin DOMAIN loaded
    BY <1>1 DEF Unless, Loaded, NilMap, loadCalendars
  <2>2. At(map, link) = Null
    BY <2>1, EntryLeads
  <2>3. Referred(db, "calendar", db.Calendar, link) = {Null}
    BY <1>1 DEF Referred, Known, Loaded
  <2> QED
    BY <2>2, <2>3
<1>2. CASE Loaded(db, "calendar") /\ link \in Ids(db.Calendar)
  <2> DEFINE to == At(loadStores(db), RowOf(db.Calendar, link).store)
  <2>1. link \in DOMAIN loaded /\ loaded[link] = [id |-> link, store |-> to]
    BY <1>2 DEF Unless, Loaded, loadCalendars
  <2>2. to \in Referred(db, "calendar", db.Store, RowOf(db.Calendar, link).store)
    BY <1>2 DEF At, loadStores, ById, Referred, Known, Loaded
  <2>3. Referred(db, "calendar", db.Calendar, link) = {link} /\ link # Null
    BY <1>2, RecordsAssumption DEF Referred, Known, Loaded, Keyed, Ids
  <2> HIDE DEF to, loaded
  <2>4. \/ At(map, link) = [id |-> link, store |-> to]
        \/ w /\ At(map, link) = [id |-> link, store |-> Spoilt]
    <3>1. \/ At(map, link) = loaded[link]
          \/ w /\ At(map, link) = [loaded[link] EXCEPT !.store = Spoilt]
      BY <2>1, EntryLeads DEF loaded
    <3> QED
      BY <2>1, <3>1
  <2>5. At(map, link) \in may(link)
    BY <2>2, <2>3, <2>4 DEF Written
  <2> HIDE DEF may
  <2>6. At(map, link) \in UNION {may(c) : c \in Referred(db, "calendar", db.Calendar, link)}
    BY <2>3, <2>5
  <2> QED
    BY <2>6 DEF may
<1> QED
  BY <1>1, <1>2

LEMMA AttendeeIs ==
  ASSUME NEW db, Loaded(db, "attendees"), NEW p \in Ids(db.Participant)
  PROVE  loadAttendees(db).byID[p] = AttendeeTruth(db, p)
<1> DEFINE link == RowOf(db.Participant, p).identity
           name == At(ById(db.Identity), link)
<1>1. Referred(db, "attendees", db.Identity, link) = {name}
  BY DEF Referred, Known, Loaded, At, ById
<1>2. loadAttendees(db).byID[p] = [id |-> p, name |-> name]
  BY DEF loadAttendees
<1> HIDE DEF name
<1>3. AttendeeTruth(db, p) = [id |-> p, name |-> name]
  BY <1>1 DEF AttendeeTruth
<1> QED
  BY <1>2, <1>3

LEMMA OrganizerLeads ==
  ASSUME NEW db, Keyed(db.Participant), 0 \notin Ids(db.Participant), NEW read, NEW link,
         "attendees" \notin db.absent => read = link
  PROVE  (IF read = 0 THEN Null ELSE At(Unless(db, "attendees", loadAttendees(db).byID), read))
           \in {IF p = Null THEN Null ELSE AttendeeTruth(db, p) :
                  p \in Referred(db, "attendees", db.Participant, link)}
<1> DEFINE map == Unless(db, "attendees", loadAttendees(db).byID)
           may(p) == IF p = Null THEN Null ELSE AttendeeTruth(db, p)
           found == IF read = 0 THEN Null ELSE At(map, read)
<1>1. CASE ~Loaded(db, "attendees") \/ link \notin Ids(db.Participant)
  <2>1. DOMAIN NilMap = {} /\ DOMAIN loadAttendees(db).byID = Ids(db.Participant)
    BY DEF NilMap, loadAttendees
  <2>2. At(map, read) = Null
    BY <1>1, <2>1 DEF At, Unless, Loaded
  <2>3. Referred(db, "attendees", db.Participant, link) = {Null}
    BY <1>1 DEF Referred, Known, Loaded
  <2> QED
    BY <2>2, <2>3
<1>2. CASE Loaded(db, "attendees") /\ link \in Ids(db.Participant)
  <2>1. Referred(db, "attendees", db.Participant, link) = {link} /\ link # Null /\ read = link /\ link # 0
    BY <1>2, RecordsAssumption DEF Referred, Known, Loaded, Keyed, Ids
  <2>2. DOMAIN loadAttendees(db).byID = Ids(db.Participant)
    BY DEF loadAttendees
  <2>3. At(map, read) = loadAttendees(db).byID[link]
    BY <1>2, <2>1, <2>2 DEF At, Unless, Loaded
  <2>4. found = may(link)
    BY <1>2, <2>1, <2>3, AttendeeIs
  <2> HIDE DEF found, may
  <2>5. found \in {may(p) : p \in Referred(db, "attendees", db.Participant, link)}
    BY <2>1, <2>4
  <2> QED
    BY <2>5 DEF found, may
<1> QED
  BY <1>1, <1>2

LEMMA AttendeesOf ==
  ASSUME NEW db, Keyed(db.Participant), NEW id \in Int, id # 0, NEW seen, id \notin seen, NEW map,
         ListsKept(map, Unless(db, "attendees", loadAttendees(db).byOwner), seen)
  PROVE  ListAt(map, id) \in
           {[k \in DOMAIN s |-> AttendeeTruth(db, s[k])] :
              s \in Owned(db, "attendees", {p \in db.Participant : p.invitee}, id)}
<1> DEFINE invited == {p \in db.Participant : p.invitee}
           ofAnEvent == {p \in db.Participant : p.invitee /\ p.owner # Null}
           owned == ByOwner(ofAnEvent)
           person == loadAttendees(db).byID
           byOwner == loadAttendees(db).byOwner
           loaded == Unless(db, "attendees", byOwner)
           shown(s) == [k \in DOMAIN s |-> AttendeeTruth(db, s[k])]
           mine == Ids({p \in invited : p.owner = id})
           s == ListAt(owned, id)
<1>1. ListAt(map, id) = ListAt(loaded, id)
  BY DEF ListsKept, ListAt
<1>2. CASE ~Loaded(db, "attendees")
  <2>1. ListAt(loaded, id) = <<>>
    BY <1>2 DEF ListAt, NilMap, Unless, Loaded
  <2>2. Owned(db, "attendees", invited, id) = {<<>>}
    BY <1>2 DEF Owned, Known, Loaded
  <2>3. shown(<<>>) = <<>>
    OBVIOUS
  <2> QED
    BY <1>1, <2>1, <2>2, <2>3
<1>3. CASE Loaded(db, "attendees")
  <2>1. Keyed(invited) /\ mine \subseteq Ids(db.Participant)
    <3>1. invited \subseteq db.Participant
      OBVIOUS
    <3>2. mine \subseteq Ids(db.Participant)
      BY DEF Ids
    <3> HIDE DEF invited, mine
    <3> QED
      BY <3>1, <3>2, SomeKeyed
  <2>2. s \in Listing(mine)
    <3>1. ofAnEvent \subseteq db.Participant
      OBVIOUS
    <3>2. mine = Ids({p \in ofAnEvent : p.owner = id})
      <4>1. {p \in ofAnEvent : p.owner = id} = {p \in invited : p.owner = id}
        BY RecordsAssumption
      <4> QED
        BY <4>1
    <3> HIDE DEF ofAnEvent, mine
    <3>3. Keyed(ofAnEvent)
      BY <3>1, SomeKeyed
    <3>4. ListAt(ByOwner(ofAnEvent), id) \in Listing(Ids({p \in ofAnEvent : p.owner = id}))
      BY <3>3, GroupedByOwner
    <3> QED
      BY <3>2, <3>4
  <2>3. DOMAIN s = 1 .. Cardinality(mine) /\ \A k \in DOMAIN s : s[k] \in mine
    BY <2>2 DEF Listing
  <2>4. byOwner = [o \in DOMAIN owned |-> [k \in 1 .. Len(owned[o]) |-> person[owned[o][k]]]]
    BY DEF loadAttendees
  <2>5. DOMAIN s = 1 .. Len(s)
    <3>1. IsFiniteSet(mine)
      <4>1. {p \in invited : p.owner = id} \subseteq invited
        OBVIOUS
      <4> HIDE DEF invited
      <4> QED
        BY <2>1, <4>1, SomeKeyed
    <3>2. Cardinality(mine) \in Nat
      BY <3>1, FS_CardinalityType
    <3> HIDE DEF s, mine
    <3> QED
      BY <2>3, <3>2
  <2>6. ListAt(byOwner, id) = [k \in DOMAIN s |-> person[s[k]]]
    <3>1. CASE id \in DOMAIN owned
      <4>1. s = owned[id]
        BY <3>1 DEF ListAt
      <4> HIDE DEF owned, s, byOwner
      <4> QED
        BY <2>4, <2>5, <3>1, <4>1 DEF ListAt
    <3>2. CASE id \notin DOMAIN owned
      <4>1. s = <<>>
        BY <3>2 DEF ListAt
      <4> HIDE DEF owned, s, byOwner
      <4> QED
        BY <2>4, <3>2, <4>1 DEF ListAt
    <3> QED
      BY <3>1, <3>2
  <2>7. \A k \in DOMAIN s : person[s[k]] = AttendeeTruth(db, s[k])
    <3> HIDE DEF s, mine
    <3> QED
      BY <1>3, <2>1, <2>3, AttendeeIs
  <2> HIDE DEF s, byOwner, person
  <2>8. ListAt(byOwner, id) = shown(s)
    BY <2>6, <2>7
  <2>9. ListAt(loaded, id) = ListAt(byOwner, id)
    BY <1>3 DEF Unless, Loaded
  <2>10. Owned(db, "attendees", invited, id) = Listing(mine)
    BY <1>3 DEF Owned, Known, Loaded
  <2> HIDE DEF shown, mine, invited
  <2>11. ListAt(map, id) \in {shown(t) : t \in Owned(db, "attendees", invited, id)}
    BY <1>1, <2>2, <2>8, <2>9, <2>10
  <2> QED
    BY <2>11 DEF shown, invited
<1> QED
  BY <1>2, <1>3

LEMMA EventsTrue ==
  ASSUME NEW db, NEW row, iterator = "Events", Readable(db, row), NEW seen, row.id \notin seen,
         NEW c, NEW w, Kept(c, EventChildren(db), seen, w)
  PROVE  Event(c, Read(db, row)) \in EventTruth(db, row, w)
<1> DEFINE read == Read(db, row)
           all == [absent |-> {}]
           loaded == EventChildren(db)
<1>1. /\ \A f : Has(ColumnsOf(iterator, all), f) <=>
           f \in {"id", "plain", "calendar", "optional", "location", "organizer"}
      /\ \A f : Has(ColumnsOf(iterator, db), f) <=>
           \/ f \in {"id", "plain", "calendar"}
           \/ "optional" \notin db.absent /\ f = "optional"
           \/ "location" \notin db.absent /\ f = "location"
           \/ "attendees" \notin db.absent /\ f = "organizer"
  <2>1. all.absent = {}
    OBVIOUS
  <2> HIDE DEF all
  <2>2. ColumnsOf(iterator, all) = EventColumns(all) /\ ColumnsOf(iterator, db) = EventColumns(db)
    BY DEF ColumnsOf
  <2> QED
    BY <2>1, <2>2, ColumnsAre
<1>2. /\ read.id = row.id /\ read.plain = row.plain /\ read.calendar = row.calendar
      /\ read.optional \in Optional(db, row)
      /\ "location" \notin db.absent => read.location = row.location
      /\ "attendees" \notin db.absent => read.organizer = row.organizer
  BY <1>1, ReadIs DEF Optional, Shown
<1>3. /\ Keyed(db.Calendar) /\ Keyed(db.Participant) /\ 0 \notin Ids(db.Participant)
      /\ Keyed(db.Recurrence) /\ Keyed(db.Alarm) /\ Keyed(db.Attachment)
      /\ row.id \in Int /\ row.id # 0
  <2>1. HasTables(iterator, db) /\ row \in db.rows
    BY DEF Readable
  <2>2. row.id \in Ids(db.rows)
    BY <2>1 DEF Ids
  <2> QED
    BY <2>1, <2>2, ReadIs DEF HasTables
<1>4. /\ EntriesKept(c.calendars, Unless(db, "calendar", loadCalendars(db)), "store", w)
      /\ c.locations = Unless(db, "location", ById(db.Location))
      /\ c.organizers = Unless(db, "attendees", loadAttendees(db).byID)
      /\ ListsKept(c.attendees, Unless(db, "attendees", loadAttendees(db).byOwner), seen)
      /\ ListsKept(c.recurrences, Unless(db, "recurrence", ByOwner(db.Recurrence)), seen)
      /\ ListsKept(c.alarms, Unless(db, "alarms", ByOwner(db.Alarm)), seen)
      /\ ListsKept(c.attachments, Unless(db, "attachments", ByOwner(db.Attachment)), seen)
  BY DEF Kept, EventChildren
<1> HIDE DEF read, all
<1> DEFINE calendars ==
             UNION {IF k = Null THEN {Null}
                    ELSE [id : {k}, store : Written(w) \cup
                            Referred(db, "calendar", db.Store, RowOf(db.Calendar, k).store)] :
                    k \in Referred(db, "calendar", db.Calendar, row.calendar)}
           organizers == {IF p = Null THEN Null ELSE AttendeeTruth(db, p) :
                            p \in Referred(db, "attendees", db.Participant, row.organizer)}
           attended == {[k \in DOMAIN s |-> AttendeeTruth(db, s[k])] :
                          s \in Owned(db, "attendees", {p \in db.Participant : p.invitee}, row.id)}
<1>5. At(c.calendars, read.calendar) \in calendars
  <2>1. Keyed(db.Calendar) /\ EntriesKept(c.calendars, Unless(db, "calendar", loadCalendars(db)), "store", w)
    BY <1>3, <1>4
  <2>2. At(c.calendars, row.calendar) \in calendars
    BY <2>1, CalendarOfEvent
  <2> QED
    BY <1>2, <2>2
<1>6. At(c.locations, read.location) \in Referred(db, "location", db.Location, row.location)
  BY <1>2, <1>4, LinkLeads
<1>7. (IF read.organizer = 0 THEN Null ELSE At(c.organizers, read.organizer)) \in organizers
  BY <1>2, <1>3, <1>4, OrganizerLeads
<1>8. ListAt(c.attendees, row.id) \in attended
  BY <1>3, <1>4, AttendeesOf
<1>9. /\ ListAt(c.recurrences, row.id) \in Owned(db, "recurrence", db.Recurrence, row.id)
      /\ ListAt(c.alarms, row.id) \in Owned(db, "alarms", db.Alarm, row.id)
      /\ ListAt(c.attachments, row.id) \in Owned(db, "attachments", db.Attachment, row.id)
  BY <1>3, <1>4, OwnedLists
<1>10. EventTruth(db, row, w) =
         [id : {row.id}, plain : {row.plain}, optional : Optional(db, row), calendar : calendars,
          location : Referred(db, "location", db.Location, row.location),
          organizer : organizers, attendees : attended,
          recurrences : Owned(db, "recurrence", db.Recurrence, row.id),
          alarms : Owned(db, "alarms", db.Alarm, row.id),
          attachments : Owned(db, "attachments", db.Attachment, row.id)]
  BY Zenon DEF EventTruth
<1> HIDE DEF calendars, organizers, attended
<1>11. Event(c, read) \in EventTruth(db, row, w)
  BY <1>2, <1>5, <1>6, <1>7, <1>8, <1>9, <1>10 DEF Event
<1> QED
  BY <1>11 DEF read

(* The folder of a note, an account behind its pointer.                      *)
FoldersOf(db, link, w) ==
  UNION {IF f = Null THEN {Null}
         ELSE [id : {f}, account : Written(w) \cup
                 Referred(db, "account", db.ICAccount, RowOf(db.ICFolder, f).account)] :
         f \in Referred(db, "folders", db.ICFolder, link)}

LEMMA FolderOfNote ==
  ASSUME NEW db, Keyed(db.ICFolder), NEW map, NEW w, NEW link, NEW read,
         "folders" \notin db.absent => read = link,
         EntriesKept(map, Unless(db, "folders",
                                 loadFolders(db, Unless(db, "account", ById(db.ICAccount)))), "account", w)
  PROVE  At(map, read) \in FoldersOf(db, link, w)
<1> DEFINE accounts == Unless(db, "account", ById(db.ICAccount))
           loaded == Unless(db, "folders", loadFolders(db, accounts))
           may(f) == IF f = Null THEN {Null}
                     ELSE [id : {f}, account : Written(w) \cup
                             Referred(db, "account", db.ICAccount, RowOf(db.ICFolder, f).account)]
<1>1. CASE ~Loaded(db, "folders") \/ link \notin Ids(db.ICFolder)
  <2>1. read \notin DOMAIN loaded
    BY <1>1 DEF Unless, Loaded, NilMap, loadFolders
  <2> HIDE DEF loaded
  <2>2. At(map, read) = Null
    BY <2>1, EntryLeads DEF loaded
  <2>3. Referred(db, "folders", db.ICFolder, link) = {Null}
    BY <1>1 DEF Referred, Known, Loaded
  <2> QED
    BY <2>2, <2>3 DEF FoldersOf
<1>2. CASE Loaded(db, "folders") /\ link \in Ids(db.ICFolder)
  <2> DEFINE to == At(accounts, IF "account" \in db.absent THEN Null ELSE RowOf(db.ICFolder, link).account)
  <2>1. link \in DOMAIN loaded /\ loaded[link] = [id |-> link, account |-> to] /\ read = link
    BY <1>2 DEF Unless, Loaded, loadFolders
  <2>2. to \in Referred(db, "account", db.ICAccount, RowOf(db.ICFolder, link).account)
    BY LinkLeads
  <2>3. Referred(db, "folders", db.ICFolder, link) = {link} /\ link # Null
    BY <1>2, RecordsAssumption DEF Referred, Known, Loaded, Keyed, Ids
  <2> HIDE DEF to, loaded
  <2>4. \/ At(map, read) = [id |-> link, account |-> to]
        \/ w /\ At(map, read) = [id |-> link, account |-> Spoilt]
    <3>1. \/ At(map, link) = loaded[link]
          \/ w /\ At(map, link) = [loaded[link] EXCEPT !.account = Spoilt]
      BY <2>1, EntryLeads DEF loaded
    <3> QED
      BY <2>1, <3>1
  <2>5. At(map, read) \in may(link)
    BY <2>2, <2>3, <2>4 DEF Written
  <2> HIDE DEF may
  <2>6. At(map, read) \in UNION {may(f) : f \in Referred(db, "folders", db.ICFolder, link)}
    BY <2>3, <2>5
  <2> QED
    BY <2>6 DEF may, FoldersOf
<1> QED
  BY <1>1, <1>2

(* The rows of the join of attachments with their media, for one note.        *)
PairsOf(db, n) ==
  LET joined == {[id |-> m.attachment, media |-> m.id, named |-> m.named] : m \in db.ICMedia}
      alone == {[id |-> a, media |-> Null, named |-> FALSE] :
                  a \in Ids(db.ICAttachment) \ {m.attachment : m \in db.ICMedia}}
  IN  {j \in joined \cup alone : j.id \in Ids({a \in db.ICAttachment : a.owner = n})}

OneMedium(db) ==
  \A m, n \in db.ICMedia :
    m.attachment = n.attachment /\ m.attachment \in Ids(db.ICAttachment) => m = n

LEMMA PairsKeyed ==
  ASSUME NEW db, Keyed(db.ICAttachment), Keyed(db.ICMedia), OneMedium(db), NEW n
  PROVE  Keyed(PairsOf(db, n))
<1> DEFINE ofMedium(m) == [id |-> m.attachment, media |-> m.id, named |-> m.named]
           ofNone(a) == [id |-> a, media |-> Null, named |-> FALSE]
           rest == Ids(db.ICAttachment) \ {m.attachment : m \in db.ICMedia}
           joined == {ofMedium(m) : m \in db.ICMedia}
           alone == {ofNone(a) : a \in rest}
           mine == {a \in db.ICAttachment : a.owner = n}
           pairs == {j \in joined \cup alone : j.id \in Ids(mine)}
<1>1. PairsOf(db, n) = pairs
  BY DEF PairsOf
<1>2. IsFiniteSet(joined)
  <2> DEFINE f == [m \in db.ICMedia |-> ofMedium(m)]
  <2>1. f \in Surjection(db.ICMedia, joined)
    BY DEF Surjection
  <2>2. IsFiniteSet(db.ICMedia)
    BY DEF Keyed
  <2> HIDE DEF f, joined
  <2> QED
    BY <2>1, <2>2, FS_Surjection
<1>3. IsFiniteSet(alone)
  <2> DEFINE f == [a \in rest |-> ofNone(a)]
  <2>1. f \in Surjection(rest, alone)
    BY DEF Surjection
  <2>2. IsFiniteSet(Ids(db.ICAttachment)) /\ rest \subseteq Ids(db.ICAttachment)
    BY SomeKeyed
  <2> HIDE DEF f, alone, rest
  <2> QED
    BY <2>1, <2>2, FS_Surjection, FS_Subset
<1>4. IsFiniteSet(pairs)
  <2>1. IsFiniteSet(joined \cup alone)
    <3> HIDE DEF joined, alone
    <3> QED
      BY <1>2, <1>3, FS_Union
  <2>2. pairs \subseteq joined \cup alone
    OBVIOUS
  <2> HIDE DEF pairs, joined, alone
  <2> QED
    BY <2>1, <2>2, FS_Subset
<1>5. Ids(mine) \subseteq Ids(db.ICAttachment) /\ \A i \in Ids(db.ICAttachment) : i \in Int
  BY DEF Ids, Keyed
<1>6. ASSUME NEW p \in pairs, NEW q \in pairs, p.id = q.id PROVE p = q
  <2>1. p.id \in Ids(db.ICAttachment)
    BY <1>5
  <2>2. CASE p.id \in {m.attachment : m \in db.ICMedia}
    <3>1. p \in joined /\ q \in joined
      BY <1>6, <2>2
    <3>2. PICK m \in db.ICMedia : p = ofMedium(m)
      BY <3>1
    <3>3. PICK k \in db.ICMedia : q = ofMedium(k)
      BY <3>1
    <3>4. m = k
      BY <1>6, <2>1, <3>2, <3>3 DEF OneMedium
    <3> QED
      BY <3>2, <3>3, <3>4
  <2>3. CASE p.id \notin {m.attachment : m \in db.ICMedia}
    <3>1. p \in alone /\ q \in alone
      BY <1>6, <2>3
    <3>2. PICK a \in rest : p = ofNone(a)
      BY <3>1
    <3>3. PICK b \in rest : q = ofNone(b)
      BY <3>1
    <3> QED
      BY <1>6, <3>2, <3>3
  <2> QED
    BY <2>2, <2>3
<1>7. \A p \in pairs : p.id \in Int
  BY <1>5
<1> HIDE DEF pairs
<1> QED
  BY <1>1, <1>4, <1>6, <1>7 DEF Keyed

(* What a note tells of its attachments, by the tables alone.                *)
FilesOf(db, account, a) ==
  {IF account # {Null} /\ m.named THEN <<CHOOSE x \in account : TRUE, m.id>> ELSE Null :
     m \in {m \in db.ICMedia : m.attachment = a.id}}
ShownOf(db, account, row) ==
  UNION {[id : {a.id}, file : IF FilesOf(db, account, a) = {} THEN {Null} ELSE FilesOf(db, account, a)] :
           a \in {a \in db.ICAttachment : a.owner = row.id}}

LEMMA PairsShown ==
  ASSUME NEW db, NEW row, NEW account
  PROVE  ShownOf(db, {account}, row) = {NoteAttachment(p, account) : p \in PairsOf(db, row.id)}
<1> DEFINE mine == {a \in db.ICAttachment : a.owner = row.id}
           media(a) == {m \in db.ICMedia : m.attachment = a.id}
           file(m) == IF account # Null /\ m.named THEN <<account, m.id>> ELSE Null
           pairs == PairsOf(db, row.id)
           shown == ShownOf(db, {account}, row)
           ofMedium(m) == [id |-> m.attachment, media |-> m.id, named |-> m.named]
           ofNone(i) == [id |-> i, media |-> Null, named |-> FALSE]
<1>1. \A a : FilesOf(db, {account}, a) = {file(m) : m \in media(a)}
  <2>1. ({account} # {Null} <=> account # Null) /\ (CHOOSE x \in {account} : TRUE) = account
    OBVIOUS
  <2> QED
    BY <2>1 DEF FilesOf
<1>2. \A x : x \in shown <=>
        \E a \in mine : \/ media(a) = {} /\ x = [id |-> a.id, file |-> Null]
                        \/ \E m \in media(a) : x = [id |-> a.id, file |-> file(m)]
  <2> DEFINE box(a) == [id : {a.id}, file : IF FilesOf(db, {account}, a) = {} THEN {Null}
                                            ELSE FilesOf(db, {account}, a)]
  <2>1. ASSUME NEW a
        PROVE  \A x : x \in box(a) <=>
                 \/ media(a) = {} /\ x = [id |-> a.id, file |-> Null]
                 \/ \E m \in media(a) : x = [id |-> a.id, file |-> file(m)]
    <3> DEFINE files == {file(m) : m \in media(a)}
    <3>1. FilesOf(db, {account}, a) = files
      BY <1>1
    <3>2. (files = {} <=> media(a) = {}) /\ \A f : f \in files <=> \E m \in media(a) : f = file(m)
      OBVIOUS
    <3> HIDE DEF files, media, file
    <3>3. \A S, x : x \in [id : {a.id}, file : S] <=> \E f \in S : x = [id |-> a.id, file |-> f]
      OBVIOUS
    <3> QED
      BY <3>1, <3>2, <3>3
  <2>2. shown = UNION {box(a) : a \in mine}
    BY DEF ShownOf
  <2> HIDE DEF media, file, box, shown, mine
  <2> QED
    BY <2>1, <2>2
<1>3. \A p : p \in pairs <=>
        \E a \in mine : \/ media(a) = {} /\ p = ofNone(a.id)
                        \/ \E m \in media(a) : p = ofMedium(m)
  <2>1. ASSUME NEW p \in pairs
        PROVE  \E a \in mine : \/ media(a) = {} /\ p = ofNone(a.id)
                               \/ \E m \in media(a) : p = ofMedium(m)
    <3>1. PICK a \in mine : p.id = a.id
      BY DEF PairsOf, Ids
    <3>2. \/ \E m \in db.ICMedia : p = ofMedium(m)
          \/ \E i \in Ids(db.ICAttachment) \ {m.attachment : m \in db.ICMedia} : p = ofNone(i)
      BY DEF PairsOf
    <3> QED
      BY <3>1, <3>2
  <2>2. ASSUME NEW a \in mine, media(a) = {} PROVE ofNone(a.id) \in pairs
    <3>1. a.id \in Ids(db.ICAttachment) \ {m.attachment : m \in db.ICMedia}
      BY <2>2 DEF Ids
    <3>2. ofNone(a.id).id \in Ids(mine)
      BY DEF Ids
    <3> QED
      BY <3>1, <3>2 DEF PairsOf
  <2>3. ASSUME NEW a \in mine, NEW m \in media(a) PROVE ofMedium(m) \in pairs
    <3>1. ofMedium(m).id \in Ids(mine)
      BY <2>3 DEF Ids
    <3> QED
      BY <3>1 DEF PairsOf
  <2> HIDE DEF pairs, mine, media, ofNone, ofMedium
  <2> QED
    BY <2>1, <2>2, <2>3
<1>4. \A i : NoteAttachment(ofNone(i), account) = [id |-> i, file |-> Null]
  BY DEF NoteAttachment
<1>5. \A m : NoteAttachment(ofMedium(m), account) = [id |-> m.attachment, file |-> file(m)]
  <2>1. ASSUME NEW m
        PROVE  NoteAttachment(ofMedium(m), account) =
                 [id |-> m.attachment,
                  file |-> IF account = Null \/ ~m.named THEN Null ELSE <<account, m.id>>]
    BY DEF NoteAttachment
  <2>2. \A m : (IF account = Null \/ ~m.named THEN Null ELSE <<account, m.id>>) = file(m)
    OBVIOUS
  <2> HIDE DEF file, ofMedium
  <2> QED
    BY <2>1, <2>2
<1>6. \A a, m : m \in media(a) => m.attachment = a.id
  OBVIOUS
<1> HIDE DEF shown, pairs, mine, media, file, ofNone, ofMedium
<1>7. shown = {NoteAttachment(p, account) : p \in pairs}
  <2>1. ASSUME NEW x \in shown PROVE \E p \in pairs : x = NoteAttachment(p, account)
    <3>1. PICK a \in mine : \/ media(a) = {} /\ x = [id |-> a.id, file |-> Null]
                            \/ \E m \in media(a) : x = [id |-> a.id, file |-> file(m)]
      BY <1>2, <2>1
    <3>2. CASE media(a) = {} /\ x = [id |-> a.id, file |-> Null]
      BY <1>3, <1>4, <3>2
    <3>3. CASE \E m \in media(a) : x = [id |-> a.id, file |-> file(m)]
      BY <1>3, <1>5, <1>6, <3>3
    <3> QED
      BY <3>1, <3>2, <3>3
  <2>2. ASSUME NEW p \in pairs PROVE NoteAttachment(p, account) \in shown
    <3>1. PICK a \in mine : \/ media(a) = {} /\ p = ofNone(a.id)
                            \/ \E m \in media(a) : p = ofMedium(m)
      BY <1>3, <2>2
    <3>2. CASE media(a) = {} /\ p = ofNone(a.id)
      BY <1>2, <1>4, <3>2
    <3>3. CASE \E m \in media(a) : p = ofMedium(m)
      BY <1>2, <1>5, <1>6, <3>3
    <3> QED
      BY <3>1, <3>2, <3>3
  <2> QED
    BY <2>1, <2>2
<1> QED
  BY <1>7 DEF shown, pairs

LEMMA AttachmentsOfNote ==
  ASSUME NEW db, NEW row, row.id \in Int, NEW account,
         Keyed(db.ICAttachment), Keyed(db.ICMedia), OneMedium(db)
  PROVE  LET found == ListAt(loadNoteAttachments(db), row.id)
             s == [k \in 1 .. Len(found) |-> NoteAttachment(found[k], account)]
             shown == ShownOf(db, {account}, row)
         IN  /\ s \in [1 .. Cardinality(shown) -> shown]
             /\ {s[k] : k \in DOMAIN s} = shown
             /\ \A j, k \in DOMAIN s : j < k => s[j].id <= s[k].id
<1> DEFINE found == ListAt(loadNoteAttachments(db), row.id)
           s == [k \in 1 .. Len(found) |-> NoteAttachment(found[k], account)]
           shown == ShownOf(db, {account}, row)
           pairs == PairsOf(db, row.id)
           N == Cardinality(pairs)
<1>1. Keyed(pairs) /\ IsFiniteSet(pairs) /\ N \in Nat /\ \A p \in pairs : p.id \in Int
  <2>1. Keyed(pairs)
    BY PairsKeyed
  <2> HIDE DEF pairs
  <2> QED
    BY <2>1, FS_CardinalityType DEF Keyed
<1>2. found = SortedRows(pairs)
  <2>1. row.id # Null
    BY RecordsAssumption
  <2>2. loadNoteAttachments(db) =
          [n \in {a.owner : a \in db.ICAttachment} \ {Null} |-> SortedRows(PairsOf(db, n))]
    BY Zenon DEF loadNoteAttachments, PairsOf
  <2>3. CASE row.id \in {a.owner : a \in db.ICAttachment}
    BY <2>1, <2>2, <2>3 DEF ListAt
  <2>4. CASE row.id \notin {a.owner : a \in db.ICAttachment}
    <3>1. pairs = {}
      BY <2>4 DEF PairsOf, Ids
    <3>2. SortedRows({}) = <<>>
      <4>1. Cardinality({}) = 0
        BY FS_EmptySet
      <4> QED
        BY <4>1 DEF SortedRows, Listed
    <3>3. found = <<>>
      BY <2>2, <2>4 DEF ListAt
    <3> QED
      BY <3>1, <3>2, <3>3
  <2> QED
    BY <2>3, <2>4
<1> HIDE DEF found, pairs
<1>3. /\ DOMAIN found = 1 .. N /\ found = [k \in DOMAIN found |-> found[k]]
      /\ \A k \in DOMAIN found : found[k] \in pairs
      /\ \A p \in pairs : \E k \in DOMAIN found : found[k] = p
      /\ [k \in DOMAIN found |-> found[k].id] \in Listing(Ids(pairs))
  BY <1>1, <1>2, SortedRowsList
<1>4. Len(found) = N
  BY <1>1, <1>3
<1>5. shown = {NoteAttachment(p, account) : p \in pairs}
  BY PairsShown DEF pairs
<1>6. \A p : NoteAttachment(p, account).id = p.id
  BY DEF NoteAttachment
<1> HIDE DEF shown
<1>7. Cardinality(shown) = N
  <2> DEFINE f == [p \in pairs |-> NoteAttachment(p, account)]
  <2>1. f \in [pairs -> shown]
    BY <1>5
  <2>2. \A p, q \in pairs : f[p] = f[q] => p = q
    BY <1>1, <1>6 DEF Keyed
  <2>3. \A x \in shown : \E p \in pairs : f[p] = x
    BY <1>5
  <2> HIDE DEF f
  <2>4. ExistsBijection(pairs, shown)
    BY <2>1, <2>2, <2>3 DEF ExistsBijection, Bijection, Injection, IsInjective, Surjection
  <2> QED
    BY <1>1, <2>4, FS_Bijection
<1>8. DOMAIN s = 1 .. N /\ \A k \in 1 .. N : s[k] = NoteAttachment(found[k], account)
  BY <1>4
<1>9. \A k \in 1 .. N : s[k] \in shown
  BY <1>3, <1>5, <1>8
<1>10. s \in [1 .. N -> shown]
  BY <1>4, <1>9
<1>11. {s[k] : k \in DOMAIN s} = shown
  <2>1. ASSUME NEW x \in shown PROVE \E k \in DOMAIN s : s[k] = x
    <3>1. PICK p \in pairs : x = NoteAttachment(p, account)
      BY <1>5
    <3>2. PICK k \in 1 .. N : found[k] = p
      BY <1>3
    <3> QED
      BY <1>8, <3>1, <3>2
  <2> HIDE DEF s
  <2> QED
    BY <1>8, <1>9, <2>1
<1>12. ASSUME NEW j \in DOMAIN s, NEW k \in DOMAIN s, j < k PROVE s[j].id <= s[k].id
  <2> DEFINE t == [i \in DOMAIN found |-> found[i].id]
  <2>1. DOMAIN t = 1 .. N /\ t[j] = found[j].id /\ t[k] = found[k].id
    BY <1>3, <1>8, <1>12
  <2>2. t[j] < t[k]
    <3>1. t \in Listing(Ids(pairs))
      BY <1>3
    <3> HIDE DEF t
    <3> QED
      BY <1>8, <1>12, <2>1, <3>1 DEF Listing
  <2>3. found[j].id \in Int /\ found[k].id \in Int
    BY <1>1, <1>3, <1>8, <1>12
  <2>4. s[j].id = found[j].id /\ s[k].id = found[k].id
    BY <1>6, <1>8, <1>12
  <2> HIDE DEF s, t
  <2> QED
    BY <2>1, <2>2, <2>3, <2>4
<1> HIDE DEF s
<1> QED
  BY <1>7, <1>10, <1>11, <1>12 DEF s, found, shown

LEMMA NotesTrue ==
  ASSUME NEW db, NEW row, iterator = "Notes", Readable(db, row), NEW seen, NEW c, NEW w,
         Kept(c, NoteChildren(db), seen, w)
  PROVE  Note(c, Read(db, row)) \in NoteTruth(db, row, w)
<1> DEFINE read == Read(db, row)
           all == [absent |-> {}]
<1>1. /\ \A f : Has(ColumnsOf(iterator, all), f) <=> f \in {"id", "plain", "optional", "folder", "account"}
      /\ \A f : Has(ColumnsOf(iterator, db), f) <=>
           \/ f \in {"id", "plain"}
           \/ "optional" \notin db.absent /\ f = "optional"
           \/ "folders" \notin db.absent /\ f = "folder"
           \/ "account" \notin db.absent /\ f = "account"
  <2>1. all.absent = {}
    OBVIOUS
  <2> HIDE DEF all
  <2>2. ColumnsOf(iterator, all) = NoteColumns(all) /\ ColumnsOf(iterator, db) = NoteColumns(db)
    BY DEF ColumnsOf
  <2> QED
    BY <2>1, <2>2, ColumnsAre
<1>2. /\ read.id = row.id /\ row.id \in Int /\ read.plain = row.plain
      /\ read.optional \in Optional(db, row)
      /\ "folders" \notin db.absent => read.folder = row.folder
      /\ "account" \notin db.absent => read.account = row.account
  BY <1>1, ReadIs DEF Optional, Shown
<1>3. Keyed(db.ICFolder) /\ Keyed(db.ICAttachment) /\ Keyed(db.ICMedia) /\ OneMedium(db)
  BY DEF Readable, HasTables, OneMedium
<1>4. /\ EntriesKept(c.folders, Unless(db, "folders",
                       loadFolders(db, Unless(db, "account", ById(db.ICAccount)))), "account", w)
      /\ c.accounts = Unless(db, "account", ById(db.ICAccount))
      /\ c.attachments = Unless(db, "attachments", loadNoteAttachments(db))
  BY DEF Kept, NoteChildren, loadNoteAccounts
<1> HIDE DEF read, all
<1> DEFINE account == At(c.accounts, read.account)
           found == ListAt(c.attachments, row.id)
           list(f) == [k \in 1 .. Len(f) |-> NoteAttachment(f[k], account)]
           s == list(found)
           accounts == Referred(db, "account", db.ICAccount, row.account)
           shown == ShownOf(db, accounts, row)
           lists(all1) == {t \in [1 .. Cardinality(all1) -> all1] :
                             /\ {t[k] : k \in DOMAIN t} = all1
                             /\ \A j, k \in DOMAIN t : j < k => t[j].id <= t[k].id}
           attached == IF ~Known(db, "attachments") THEN {<<>>} ELSE lists(shown)
<1>5. accounts = {account}
  <2>1. account \in accounts
    BY <1>2, <1>4, LinkLeads
  <2> QED
    BY <2>1 DEF Referred
<1>6. At(c.folders, read.folder) \in FoldersOf(db, row.folder, w)
  <2>1. /\ Keyed(db.ICFolder) /\ ("folders" \notin db.absent => read.folder = row.folder)
        /\ EntriesKept(c.folders, Unless(db, "folders",
                         loadFolders(db, Unless(db, "account", ById(db.ICAccount)))), "account", w)
    BY <1>2, <1>3, <1>4
  <2> QED
    BY <2>1, FolderOfNote
<1> HIDE DEF account, accounts
<1>7. s \in attached
  <2>1. CASE ~Loaded(db, "attachments")
    <3>1. found = <<>>
      BY <1>4, <2>1 DEF ListAt, Unless, Loaded, NilMap
    <3> QED
      BY <2>1, <3>1 DEF Known, Loaded
  <2>2. CASE Loaded(db, "attachments")
    <3>1. found = ListAt(loadNoteAttachments(db), row.id)
      BY <1>4, <2>2 DEF Unless, Loaded
    <3>2. list(ListAt(loadNoteAttachments(db), row.id)) \in lists(ShownOf(db, {account}, row))
      BY <1>2, <1>3, AttachmentsOfNote
    <3>3. shown = ShownOf(db, {account}, row)
      BY <1>5
    <3> HIDE DEF list, lists, found, shown
    <3> QED
      BY <2>2, <3>1, <3>2, <3>3 DEF Known, Loaded
  <2> QED
    BY <2>1, <2>2
<1>8. NoteTruth(db, row, w) =
        [id : {row.id}, plain : {row.plain}, optional : Optional(db, row),
         account : accounts, folder : FoldersOf(db, row.folder, w), attachments : attached]
  BY Zenon DEF NoteTruth, FoldersOf, ShownOf, FilesOf, accounts
<1>9. Note(c, read) = [id |-> row.id, plain |-> row.plain, optional |-> read.optional,
                       account |-> account, folder |-> At(c.folders, read.folder), attachments |-> s]
  BY <1>2, Zenon DEF Note, account
<1> HIDE DEF attached, s, list, lists, found, shown
<1>10. Note(c, read) \in NoteTruth(db, row, w)
  BY <1>2, <1>5, <1>6, <1>7, <1>8, <1>9
<1> QED
  BY <1>10 DEF read

(* The list of a reminder, an account behind its pointer.                    *)
ListsOf(s, link, w) ==
  UNION {IF l = Null THEN {Null}
         ELSE [store : {s.name}, id : {l}, account : Written(w) \cup
                 Named(s, Referred(s, "account", s.account, RowOf(s.list, l).account))] :
         l \in IF Shown(s, "list_link") THEN Referred(s, "lists", s.list, link) ELSE {Null}}

LEMMA ListOfReminder ==
  ASSUME NEW s, Keyed(s.list), Keyed(s.account), NEW map, NEW w, NEW link, NEW read,
         read = IF "list_link" \in s.absent THEN Null ELSE link,
         EntriesKept(map, Unless(s, "lists", loadLists(s, Unless(s, "account", loadAccounts(s)))),
                     "account", w)
  PROVE  At(map, read) \in ListsOf(s, link, w)
<1> DEFINE accounts == Unless(s, "account", loadAccounts(s))
           loaded == Unless(s, "lists", loadLists(s, accounts))
           told == IF Shown(s, "list_link") THEN Referred(s, "lists", s.list, link) ELSE {Null}
           may(l) == IF l = Null THEN {Null}
                     ELSE [store : {s.name}, id : {l}, account : Written(w) \cup
                             Named(s, Referred(s, "account", s.account, RowOf(s.list, l).account))]
<1>1. Null \notin Ids(s.list)
  BY RecordsAssumption DEF Keyed, Ids
<1>2. CASE "list_link" \in s.absent \/ ~Loaded(s, "lists") \/ link \notin Ids(s.list)
  <2>1. read \notin DOMAIN loaded
    BY <1>1, <1>2 DEF Unless, Loaded, NilMap, loadLists
  <2> HIDE DEF loaded
  <2>2. At(map, read) = Null
    BY <2>1, EntryLeads DEF loaded
  <2>3. told = {Null}
    BY <1>2 DEF Referred, Shown, Known, Loaded
  <2> QED
    BY <2>2, <2>3 DEF ListsOf
<1>3. CASE "list_link" \notin s.absent /\ Loaded(s, "lists") /\ link \in Ids(s.list)
  <2> DEFINE to == At(accounts, RowOf(s.list, link).account)
  <2>1. RowOf(s.list, link).id = link
    <3>1. PICK r \in s.list : r.id = link
      BY <1>3 DEF Ids
    <3> QED
      BY <3>1, RowOfIs
  <2>2. link \in DOMAIN loaded /\ loaded[link] = [store |-> s.name, id |-> link, account |-> to] /\ read = link
    BY <1>3, <2>1 DEF Unless, Loaded, loadLists, scanList
  <2>3. to \in Named(s, Referred(s, "account", s.account, RowOf(s.list, link).account))
    BY AccountLeads
  <2>4. told = {link} /\ link # Null
    BY <1>1, <1>3 DEF Referred, Shown, Known, Loaded
  <2> HIDE DEF to, loaded
  <2>5. \/ At(map, read) = [store |-> s.name, id |-> link, account |-> to]
        \/ w /\ At(map, read) = [store |-> s.name, id |-> link, account |-> Spoilt]
    <3>1. \/ At(map, link) = loaded[link]
          \/ w /\ At(map, link) = [loaded[link] EXCEPT !.account = Spoilt]
      BY <2>2, EntryLeads DEF loaded
    <3> QED
      BY <2>2, <3>1
  <2>6. At(map, read) \in may(link)
    BY <2>3, <2>4, <2>5 DEF Written
  <2> HIDE DEF may, told
  <2>7. At(map, read) \in UNION {may(l) : l \in told}
    BY <2>4, <2>6
  <2> QED
    BY <2>7 DEF may, told, ListsOf
<1> QED
  BY <1>2, <1>3

(* One of the rows that a reminder owns.                                    *)
LEMMA OneOfThem ==
  ASSUME NEW s, NEW rows, \A r \in rows : r.id \in Int, NEW f \in OneEach(s, rows), NEW id \in Int
  PROVE  LET mine == Ids({r \in rows : r.owner = id}) IN
         At(f, id) \in IF mine # {} THEN Named(s, mine) ELSE {Null}
<1> DEFINE mine == Ids({r \in rows : r.owner = id})
<1>1. Null \notin Int
  BY RecordsAssumption
<1>2. /\ DOMAIN f = {r.owner : r \in rows} \ {Null}
      /\ \A o \in DOMAIN f : \E r \in rows : r.owner = o /\ f[o] = <<s.name, r.id>>
  BY DEF OneEach
<1>3. CASE id \in DOMAIN f
  <2>1. PICK r \in rows : r.owner = id /\ f[id] = <<s.name, r.id>>
    BY <1>2, <1>3
  <2>2. r.id \in mine /\ r.id # Null
    BY <1>1, <2>1 DEF Ids
  <2>3. At(f, id) = <<s.name, r.id>>
    BY <1>3, <2>1 DEF At
  <2> HIDE DEF mine
  <2>4. At(f, id) \in Named(s, mine)
    BY <2>2, <2>3 DEF Named
  <2> QED
    BY <2>2, <2>4 DEF mine
<1>4. CASE id \notin DOMAIN f
  <2>1. mine = {}
    BY <1>1, <1>2, <1>4 DEF Ids
  <2>2. At(f, id) = Null
    BY <1>4 DEF At
  <2> QED
    BY <2>1, <2>2
<1> QED
  BY <1>3, <1>4

LEMMA RecurrenceOf ==
  ASSUME NEW s, Keyed(s.rule), NEW id \in Int, NEW seen, id \notin seen, NEW map, NEW loaded,
         loaded \in IF Loaded(s, "recurrence") THEN loadRecurrences(s) ELSE {NilMap},
         ListsKept(map, loaded, seen)
  PROVE  At(map, id) \in AnyOf(s, "recurrence", Ids({r \in s.rule : r.owner = id}))
<1>1. At(map, id) = At(loaded, id)
  BY DEF ListsKept, At
<1>2. CASE ~Loaded(s, "recurrence")
  BY <1>1, <1>2 DEF At, NilMap, AnyOf, Known, Loaded
<1>3. CASE Loaded(s, "recurrence")
  <2>1. loaded \in OneEach(s, s.rule) /\ \A r \in s.rule : r.id \in Int
    BY <1>3 DEF loadRecurrences, Keyed
  <2>2. LET mine == Ids({r \in s.rule : r.owner = id}) IN
        At(loaded, id) \in IF mine # {} THEN Named(s, mine) ELSE {Null}
    BY <2>1, OneOfThem
  <2> QED
    BY <1>1, <1>3, <2>2 DEF AnyOf, Known, Loaded
<1> QED
  BY <1>2, <1>3

LEMMA AssigneeOf ==
  ASSUME NEW s, Keyed(s.sharee), NEW id \in Int, NEW loaded,
         loaded \in IF Loaded(s, "assignment") THEN loadAssignees(s) ELSE {NilMap}
  PROVE  At(loaded, id) \in
           AnyOf(s, "assignment", {h.id : h \in {h \in s.sharee : h.named /\ \E a \in s.assignment :
                                                  a.owner = id /\ a.assignee = h.id}})
<1> DEFINE ids == {h.id : h \in {h \in s.sharee : h.named /\ \E a \in s.assignment :
                                                  a.owner = id /\ a.assignee = h.id}}
<1>1. CASE ~Loaded(s, "assignment")
  BY <1>1 DEF At, NilMap, AnyOf, Known, Loaded
<1>2. CASE Loaded(s, "assignment")
  <2> DEFINE named == Ids({h \in s.sharee : h.named})
             rows == {[id |-> a.assignee, owner |-> a.owner] :
                        a \in {a \in s.assignment : a.assignee \in named}}
             mine == Ids({r \in rows : r.owner = id})
  <2>1. loaded \in OneEach(s, rows)
    BY <1>2 DEF loadAssignees
  <2>2. \A i \in named : i \in Int
    BY DEF Ids, Keyed
  <2>3. \A r \in rows : r.id \in Int
    <3> HIDE DEF named
    <3> QED
      BY <2>2
  <2>4. mine = ids
    <3>1. \A i : i \in mine <=> i \in named /\ \E a \in s.assignment : a.owner = id /\ a.assignee = i
      <4> HIDE DEF named
      <4>1. ASSUME NEW i \in mine
            PROVE  i \in named /\ \E a \in s.assignment : a.owner = id /\ a.assignee = i
        <5>1. PICK r \in rows : r.owner = id /\ r.id = i
          BY DEF Ids
        <5>2. PICK a \in s.assignment : a.assignee \in named /\ r = [id |-> a.assignee, owner |-> a.owner]
          BY <5>1
        <5> QED
          BY <5>1, <5>2
      <4>2. ASSUME NEW a \in s.assignment, a.owner = id, a.assignee \in named
            PROVE  a.assignee \in mine
        <5> DEFINE r == [id |-> a.assignee, owner |-> a.owner]
        <5>1. r \in rows /\ r.owner = id /\ r.id = a.assignee
          BY <4>2
        <5> HIDE DEF r, rows
        <5> QED
          BY <5>1 DEF Ids
      <4> HIDE DEF mine
      <4> QED
        BY <4>1, <4>2
    <3>2. \A i : i \in ids <=> i \in named /\ \E a \in s.assignment : a.owner = id /\ a.assignee = i
      BY DEF Ids
    <3> HIDE DEF mine, ids, named
    <3> QED
      BY <3>1, <3>2
  <2>5. At(loaded, id) \in IF mine # {} THEN Named(s, mine) ELSE {Null}
    <3> HIDE DEF rows
    <3> QED
      BY <2>1, <2>3, OneOfThem
  <2> HIDE DEF mine, ids
  <2>6. At(loaded, id) \in AnyOf(s, "assignment", ids)
    BY <1>2, <2>4, <2>5 DEF AnyOf, Known, Loaded
  <2> QED
    BY <2>6 DEF ids
<1> QED
  BY <1>1, <1>2

LEMMA RemindersTrue ==
  ASSUME NEW db, NEW row, iterator = "Reminders", Readable(db, row), NEW seen, row.id \notin seen,
         NEW c, NEW w, NEW loaded \in ReminderChildren(db), Kept(c, loaded, seen, w)
  PROVE  Reminder(db, c, Read(db, row)) \in ReminderTruth(db, row, w)
<1> DEFINE read == Read(db, row)
           all == [absent |-> {}]
<1>1. /\ \A f : Has(ColumnsOf(iterator, all), f) <=> f \in {"id", "plain", "optional", "list", "account"}
      /\ \A f : Has(ColumnsOf(iterator, db), f) <=>
           \/ f \in {"id", "plain"}
           \/ "optional" \notin db.absent /\ f = "optional"
           \/ "list_link" \notin db.absent /\ f = "list"
           \/ "account" \notin db.absent /\ f = "account"
  <2>1. all.absent = {}
    OBVIOUS
  <2> HIDE DEF all
  <2>2. ColumnsOf(iterator, all) = ReminderColumns(all) /\ ColumnsOf(iterator, db) = ReminderColumns(db)
    BY DEF ColumnsOf
  <2> QED
    BY <2>1, <2>2, ColumnsAre
<1>2. /\ read.id = row.id /\ row.id \in Int /\ read.plain = row.plain
      /\ read.optional \in Optional(db, row)
      /\ read.list = IF "list_link" \in db.absent THEN Null ELSE row.list
      /\ "account" \notin db.absent => read.account = row.account
  BY <1>1, ReadIs DEF Optional, Shown
<1>3. Keyed(db.account) /\ Keyed(db.list) /\ Keyed(db.rule) /\ Keyed(db.sharee)
  BY DEF Readable, HasTables
<1>4. /\ loaded.accounts = Unless(db, "account", loadAccounts(db))
      /\ loaded.lists = Unless(db, "lists", loadLists(db, Unless(db, "account", loadAccounts(db))))
      /\ loaded.recurrences \in IF Loaded(db, "recurrence") THEN loadRecurrences(db) ELSE {NilMap}
      /\ loaded.assignees \in IF Loaded(db, "assignment") THEN loadAssignees(db) ELSE {NilMap}
  BY DEF ReminderChildren
<1>5. /\ EntriesKept(c.lists, loaded.lists, "account", w)
      /\ c.accounts = loaded.accounts /\ c.assignees = loaded.assignees
      /\ ListsKept(c.recurrences, loaded.recurrences, seen)
  BY DEF Kept
<1> HIDE DEF read, all
<1> DEFINE rules == AnyOf(db, "recurrence", Ids({r \in db.rule : r.owner = row.id}))
           assigned == AnyOf(db, "assignment",
                         {h.id : h \in {h \in db.sharee : h.named /\ \E a \in db.assignment :
                                          a.owner = row.id /\ a.assignee = h.id}})
<1>6. At(c.accounts, read.account) \in Named(db, Referred(db, "account", db.account, row.account))
  BY <1>2, <1>3, <1>4, <1>5, AccountLeads
<1>7. At(c.lists, read.list) \in ListsOf(db, row.list, w)
  <2>1. EntriesKept(c.lists, Unless(db, "lists", loadLists(db, Unless(db, "account", loadAccounts(db)))),
                    "account", w)
    BY <1>4, <1>5
  <2> QED
    BY <1>2, <1>3, <2>1, ListOfReminder
<1>8. At(c.recurrences, row.id) \in rules
  BY <1>2, <1>3, <1>4, <1>5, RecurrenceOf
<1>9. At(c.assignees, row.id) \in assigned
  BY <1>2, <1>3, <1>4, <1>5, AssigneeOf
<1>10. ReminderTruth(db, row, w) =
         [store : {db.name}, id : {row.id}, plain : {row.plain}, optional : Optional(db, row),
          account : Named(db, Referred(db, "account", db.account, row.account)),
          list : ListsOf(db, row.list, w), recurrence : rules, assignee : assigned]
  BY Zenon DEF ReminderTruth, ListsOf
<1> HIDE DEF rules, assigned
<1>11. Reminder(db, c, read) \in ReminderTruth(db, row, w)
  BY <1>2, <1>6, <1>7, <1>8, <1>9, <1>10 DEF Reminder
<1> QED
  BY <1>11 DEF read

-----------------------------------------------------------------------------
(* Records are true                                                        *)

(* What a record may say, it may say once the consumer has written over some.  *)

LEMMA TruthWidens ==
  ASSUME NEW i, NEW db, NEW row, NEW w
  PROVE  Truth(i, db, row, w) \subseteq Truth(i, db, row, TRUE)
<1>1. Written(w) \subseteq Written(TRUE)
  BY DEF Written
<1>2. CASE i = "Events"
  <2> DEFINE linked == Referred(db, "calendar", db.Calendar, row.calendar)
             box(v, k) == IF k = Null THEN {Null}
                          ELSE [id : {k}, store : Written(v) \cup
                                  Referred(db, "calendar", db.Store, RowOf(db.Calendar, k).store)]
             calendars(v) == UNION {box(v, k) : k \in linked}
             organizers == {IF p = Null THEN Null ELSE AttendeeTruth(db, p) :
                              p \in Referred(db, "attendees", db.Participant, row.organizer)}
             attended == {[k \in DOMAIN s |-> AttendeeTruth(db, s[k])] :
                            s \in Owned(db, "attendees", {p \in db.Participant : p.invitee}, row.id)}
             told(s) == [id : {row.id}, plain : {row.plain}, optional : Optional(db, row), calendar : s,
                         location : Referred(db, "location", db.Location, row.location),
                         organizer : organizers, attendees : attended,
                         recurrences : Owned(db, "recurrence", db.Recurrence, row.id),
                         alarms : Owned(db, "alarms", db.Alarm, row.id),
                         attachments : Owned(db, "attachments", db.Attachment, row.id)]
  <2>1. \A k : box(w, k) \subseteq box(TRUE, k)
    BY <1>1
  <2>2. EventTruth(db, row, w) = told(calendars(w)) /\ EventTruth(db, row, TRUE) = told(calendars(TRUE))
    BY Zenon DEF EventTruth
  <2> HIDE DEF box
  <2>3. calendars(w) \subseteq calendars(TRUE)
    BY <2>1
  <2> HIDE DEF calendars, organizers, attended
  <2>4. told(calendars(w)) \subseteq told(calendars(TRUE))
    BY <2>3
  <2> HIDE DEF told
  <2> QED
    BY <1>2, <2>2, <2>4 DEF Truth
<1>3. CASE i = "Notes"
  <2> DEFINE linked == Referred(db, "folders", db.ICFolder, row.folder)
             box(v, f) == IF f = Null THEN {Null}
                          ELSE [id : {f}, account : Written(v) \cup
                                  Referred(db, "account", db.ICAccount, RowOf(db.ICFolder, f).account)]
             folders(v) == UNION {box(v, f) : f \in linked}
             accounts == Referred(db, "account", db.ICAccount, row.account)
             shown == ShownOf(db, accounts, row)
             attached == IF ~Known(db, "attachments") THEN {<<>>}
                         ELSE {t \in [1 .. Cardinality(shown) -> shown] :
                                 /\ {t[k] : k \in DOMAIN t} = shown
                                 /\ \A j, k \in DOMAIN t : j < k => t[j].id <= t[k].id}
             told(s) == [id : {row.id}, plain : {row.plain}, optional : Optional(db, row),
                         account : accounts, folder : s, attachments : attached]
  <2>1. \A f : box(w, f) \subseteq box(TRUE, f)
    BY <1>1
  <2>2. NoteTruth(db, row, w) = told(folders(w)) /\ NoteTruth(db, row, TRUE) = told(folders(TRUE))
    BY Zenon DEF NoteTruth, ShownOf, FilesOf
  <2> HIDE DEF box
  <2>3. folders(w) \subseteq folders(TRUE)
    BY <2>1
  <2> HIDE DEF folders, attached, accounts
  <2>4. told(folders(w)) \subseteq told(folders(TRUE))
    BY <2>3
  <2> HIDE DEF told
  <2> QED
    BY <1>3, <2>2, <2>4 DEF Truth
<1>4. CASE i = "Reminders"
  <2> DEFINE linked == IF Shown(db, "list_link") THEN Referred(db, "lists", db.list, row.list) ELSE {Null}
             box(v, l) == IF l = Null THEN {Null}
                          ELSE [store : {db.name}, id : {l}, account : Written(v) \cup
                                  Named(db, Referred(db, "account", db.account, RowOf(db.list, l).account))]
             lists(v) == UNION {box(v, l) : l \in linked}
             rules == AnyOf(db, "recurrence", Ids({r \in db.rule : r.owner = row.id}))
             assigned == AnyOf(db, "assignment",
                           {h.id : h \in {h \in db.sharee : h.named /\ \E a \in db.assignment :
                                            a.owner = row.id /\ a.assignee = h.id}})
             told(s) == [store : {db.name}, id : {row.id}, plain : {row.plain}, optional : Optional(db, row),
                         account : Named(db, Referred(db, "account", db.account, row.account)),
                         list : s, recurrence : rules, assignee : assigned]
  <2>1. \A l : box(w, l) \subseteq box(TRUE, l)
    BY <1>1
  <2>2. ReminderTruth(db, row, w) = told(lists(w)) /\ ReminderTruth(db, row, TRUE) = told(lists(TRUE))
    BY Zenon DEF ReminderTruth
  <2> HIDE DEF box
  <2>3. lists(w) \subseteq lists(TRUE)
    BY <2>1
  <2> HIDE DEF lists, rules, assigned
  <2>4. told(lists(w)) \subseteq told(lists(TRUE))
    BY <2>3
  <2> HIDE DEF told
  <2> QED
    BY <1>4, <2>2, <2>4 DEF Truth
<1>5. CASE i \notin Sharing
  BY <1>5 DEF Truth, Sharing
<1> QED
  BY <1>2, <1>3, <1>4, <1>5 DEF Sharing

LEMMA RecordsAreOfTheirRow ==
  ASSUME NEW db, NEW row, iterator \in Iterators, IsAnchor(iterator, db), HasTables(iterator, db),
         row \in db.rows, NEW loaded \in ChildrenOf(db), NEW seen, row.id \notin seen, NEW w,
         Kept(children, loaded, seen, w),
         iterator = "Calendars" => Loaded(db, "calendar"),
         iterator = "ChatMessages" => Loaded(db, "chats")
  PROVE  RecordsFrom(db, row) \subseteq Truth(iterator, db, row, w)
<1>1. SUFFICES ASSUME Scans(ColumnsOf(iterator, db), row)
               PROVE  RecordOf(db, Read(db, row)) \subseteq Truth(iterator, db, row, w)
  BY DEF RecordsFrom, Read
<1>2. Readable(db, row)
  BY <1>1 DEF Readable
<1> DEFINE read == Read(db, row)
<1> HIDE DEF read
<1>3. CASE iterator = "Events"
  <2>1. loaded = EventChildren(db)
    BY <1>3 DEF ChildrenOf
  <2>2. Event(children, read) \in EventTruth(db, row, w)
    BY <1>2, <1>3, <2>1, EventsTrue DEF read
  <2> QED
    BY <1>3, <2>2 DEF RecordOf, Truth, read
<1>4. CASE iterator = "Notes"
  <2>1. loaded = NoteChildren(db)
    BY <1>4 DEF ChildrenOf
  <2>2. Note(children, read) \in NoteTruth(db, row, w)
    BY <1>2, <1>4, <2>1, NotesTrue DEF read
  <2> QED
    BY <1>4, <2>2 DEF RecordOf, Truth, read
<1>5. CASE iterator = "Reminders"
  <2>1. loaded \in ReminderChildren(db)
    BY <1>5 DEF ChildrenOf
  <2>2. Reminder(db, children, read) \in ReminderTruth(db, row, w)
    BY <1>2, <1>5, <2>1, RemindersTrue DEF read
  <2> QED
    BY <1>5, <2>2 DEF RecordOf, Truth, read
<1>6. CASE iterator \notin Sharing
  <2>1. children = loaded
    BY <1>6 DEF Kept, Sharing
  <2>2. CASE iterator = "Calendars"
    BY <1>2, <2>1, <2>2, CalendarsTrue DEF RecordOf, Truth, ChildrenOf
  <2>3. CASE iterator = "Folders"
    BY <1>2, <2>1, <2>3, FoldersTrue DEF RecordOf, Truth, ChildrenOf
  <2>4. CASE iterator = "Lists"
    BY <1>2, <2>1, <2>4, ListsTrue DEF RecordOf, Truth, ChildrenOf
  <2>5. CASE iterator \in {"Messages", "ChatMessages"}
    <3>1. /\ iterator = "Messages" =>
               Message(db, children, Read(db, row)) \subseteq Truth(iterator, db, row, w)
          /\ iterator = "ChatMessages" =>
               ChatMessage(db, children, Read(db, row)) \subseteq Truth(iterator, db, row, w)
      BY <1>2, <2>1, <2>5, MessagesTrue
    <3> QED
      BY <2>5, <3>1 DEF RecordOf
  <2>6. CASE iterator = "Chats"
    <3>1. Chat(db, ChatChildren(db), Read(db, row)) \subseteq Truth("Chats", db, row, w)
      BY <1>2, <2>6, ChatsTrue
    <3> QED
      BY <2>1, <2>6, <3>1 DEF RecordOf, ChildrenOf
  <2>7. CASE iterator = "Calls"
    <3>1. Call(db, CallChildren(db), Read(db, row)) \subseteq Truth("Calls", db, row, w)
      BY <1>2, <2>7, CallsTrue
    <3> QED
      BY <2>1, <2>7, <3>1 DEF RecordOf, ChildrenOf
  <2>8. CASE iterator = "People"
    <3>1. Person(db, loadLookups(db), Read(db, row)) \subseteq Truth("People", db, row, w)
      BY <1>2, <2>8, PeopleTrue
    <3> QED
      BY <2>1, <2>8, <3>1 DEF RecordOf, ChildrenOf
  <2>9. CASE iterator = "Groups"
    <3>1. Group(db, Read(db, row)) \subseteq Truth("Groups", db, row, w)
      BY <1>2, <2>9, GroupsTrue
    <3> QED
      BY <2>9, <3>1 DEF RecordOf
  <2> QED
    BY <1>6, <2>2, <2>3, <2>4, <2>5, <2>6, <2>7, <2>8, <2>9 DEF Iterators, Sharing
<1> QED
  BY <1>3, <1>4, <1>5, <1>6 DEF Sharing

(* What RecordsTrue says of one thing given.                                *)
TrulyGiven(g, w) ==
  LET db == stores[g.store]
      row == RowOf(db.rows, g.id)
  IN  g.kind = "record" => g.record \in Truth(iterator, db, row, w)

TruthInv == \A k \in DOMAIN given : TrulyGiven(given[k], wrote)

LEMMA TruthStep ==
  TypeInv /\ WithheldInv /\ KeptInv /\ TruthInv /\ [Next]_vars => TruthInv'
<1> SUFFICES ASSUME TypeInv, WithheldInv, KeptInv, TruthInv, [Next]_vars PROVE TruthInv'
  OBVIOUS
<1>1. UNCHANGED <<iterator, stores>>
  BY DEF Next, Begin, Load, NextRow, EndOfRows, vars
<1>2. CASE given' = given /\ wrote' = wrote
  <2>1. ASSUME NEW k \in DOMAIN given' PROVE TrulyGiven(given[k], wrote)'
    <3>1. TrulyGiven(given[k], wrote)
      BY <1>2, <2>1 DEF TruthInv
    <3> QED
      BY <1>1, <1>2, <3>1 DEF TrulyGiven
  <2> QED
    BY <2>1 DEF TruthInv
<1>3. CASE UNCHANGED vars
  BY <1>2, <1>3 DEF vars
<1>4. CASE Begin
  <2>1. DOMAIN given' = {}
    BY <1>4 DEF Begin
  <2> QED
    BY <2>1 DEF TruthInv
<1>5. CASE Load
  BY <1>2, <1>5 DEF Load
<1>6. CASE NextRow
  <2>1. PICK g : RowGiven(g)
    BY <1>6, OneRowGiven
  <2> DEFINE db == stores[at.store]
             row == RowAtHand
  <2>2. /\ at.store \in Within /\ row \in db.rows /\ pc = "rows" /\ WorldInv
        /\ at.row < Len(Result(db))
    BY <1>6, OneRowGiven DEF NextRow, TypeInv
  <2>3. iterator \in Iterators /\ IsAnchor(iterator, db) /\ HasTables(iterator, db)
    BY <2>2, WorldFacts DEF Within
  <2>4. /\ iterator = "Calendars" => Loaded(db, "calendar")
        /\ iterator = "ChatMessages" => Loaded(db, "chats")
    <3>1. iterator \in {"Calendars", "ChatMessages"} => at.store = 1
      BY <2>2, WorldFacts DEF Within
    <3>2. ~Refused
      BY <2>2 DEF WithheldInv
    <3> QED
      BY <3>1, <3>2 DEF Refused, UnitOf
  <2>5. PICK loaded \in ChildrenOf(db) : Kept(children, loaded, Passed, wrote)
    BY <2>2 DEF KeptInv
  <2>6. row.id \notin Passed
    BY <2>2, PassedOnce
  <2>7. RecordsFrom(db, row) \subseteq Truth(iterator, db, row, wrote)
    <3> HIDE DEF db, row
    <3> QED
      BY <2>2, <2>3, <2>4, <2>5, <2>6, RecordsAreOfTheirRow
  <2>8. RowOf(db.rows, row.id) = row
    <3>1. \A r \in db.rows : r.id = row.id => r = row
      BY <2>2, <2>3 DEF IsAnchor
    <3> HIDE DEF db, row
    <3> QED
      BY <2>2, <3>1 DEF RowOf
  <2>9. TrulyGiven(g, wrote)
    <3>1. g.store = at.store /\ g.id = row.id /\ (g.kind = "record" => g.record \in RecordsFrom(db, row))
      BY <2>1 DEF RowGiven
    <3>2. RowOf(stores[g.store].rows, g.id) = row /\ stores[g.store] = db
      BY <2>8, <3>1
    <3> HIDE DEF db, row
    <3> QED
      BY <2>7, <3>1, <3>2 DEF TrulyGiven
  <2>10. /\ Len(given) \in Nat /\ DOMAIN given = 1 .. Len(given) /\ DOMAIN given' = 1 .. Len(given) + 1
         /\ \A k \in DOMAIN given : given'[k] = given[k]
         /\ given'[Len(given) + 1] = g
    BY <2>1, Appended DEF TypeInv, RowGiven
  <2>11. \A x : TrulyGiven(x, wrote) => TrulyGiven(x, wrote')
    <3>1. wrote' = wrote \/ wrote' = TRUE
      BY <2>1 DEF RowGiven
    <3> QED
      BY <3>1, TruthWidens DEF TrulyGiven
  <2>12. ASSUME NEW k \in DOMAIN given' PROVE TrulyGiven(given[k], wrote)'
    <3>1. TrulyGiven(given'[k], wrote)
      <4>1. CASE k \in DOMAIN given
        BY <2>10, <4>1 DEF TruthInv
      <4>2. CASE k = Len(given) + 1
        BY <2>9, <2>10, <4>2
      <4> QED
        BY <2>10, <4>1, <4>2
    <3>2. TrulyGiven(given'[k], wrote')
      BY <2>11, <3>1
    <3> QED
      BY <1>1, <3>2 DEF TrulyGiven
  <2> QED
    BY <2>12 DEF TruthInv
<1>7. CASE EndOfRows
  BY <1>2, <1>7 DEF EndOfRows
<1> QED
  BY <1>3, <1>4, <1>5, <1>6, <1>7 DEF Next

(* Every record says of its row what its own store says, its children its own   *)
(* and in their order, whatever is absent, broken or left by an earlier range's *)
(* consumer; what this range's consumer wrote shows only where records share.   *)
THEOREM RecordsAreTrue == Spec => []RecordsTrue
<1>1. TruthInv => RecordsTrue
  BY DEF TruthInv, TrulyGiven, RecordsTrue
<1>2. Init => WithheldInv /\ TruthInv
  <2>1. Init => DOMAIN given = {} /\ pc = "outside"
    BY DEF Init
  <2> QED
    BY <2>1 DEF WithheldInv, TruthInv
<1> QED
  BY <1>1, <1>2, TypeInit, TypeStep, LoadedInit, LoadedStep, WithheldStep, KeptInit, KeptStep,
     TruthStep, PTL DEF Spec
=============================================================================
