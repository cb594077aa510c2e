--------------------- MODULE OperationalTransform_proofs ---------------------
(***************************************************************************)
(* The part of transform() that is right, an insertion against an          *)
(* insertion, a deletion or an edit, in a list of any length: both editors *)
(* end with one document, and lose no item.  Then invert(),                *)
(* transformPath() and compose() for an editor's own operation.            *)
(***************************************************************************)
EXTENDS OperationalTransform, TLAPS

-----------------------------------------------------------------------------
(* The lists that apply() makes, item by item. *)

\* Two lists with the same items are one.
LEMMA SameItems ==
    ASSUME NEW s \in Seq(Item), NEW t \in Seq(Item), Len(s) = Len(t),
           \A j \in 1..Len(s) : s[j] = t[j]
    PROVE  s = t
  BY SMT

\* What the list functions return, item by item.
IsInserted(t, s, p, x) ==
    /\ t \in Seq(Item)
    /\ Len(t) = Len(s) + 1
    /\ \A j \in 1..(Len(s) + 1) : t[j] = IF j <= p THEN s[j] ELSE IF j = p + 1 THEN x ELSE s[j - 1]
IsRemoved(t, s, p) ==
    /\ t \in Seq(Item)
    /\ Len(t) = Len(s) - 1
    /\ \A j \in 1..(Len(s) - 1) : t[j] = IF j <= p THEN s[j] ELSE s[j + 1]
IsRewritten(t, s, i, v) ==
    /\ t \in Seq(Item)
    /\ Len(t) = Len(s)
    /\ \A j \in 1..Len(s) : t[j] = IF j = i + 1 THEN [s[j] EXCEPT !.val = v] ELSE s[j]

\* splice(p, 0, x) inside the list (applyInsert).
LEMMA InsertedItems ==
    ASSUME NEW s \in Seq(Item), NEW p \in 0..Len(s), NEW x \in Item
    PROVE  IsInserted(Inserted(s, p, x), s, p, x)
<1> DEFINE n == Len(s) + 1
           f == [j \in 1..n |-> IF j <= p THEN s[j] ELSE IF j = p + 1 THEN x ELSE s[j - 1]]
<1>1. Len(s) \in Nat /\ \A j \in 1..Len(s) : s[j] \in Item
  BY SMT
<1>2. Inserted(s, p, x) = f
  BY <1>1, SMT DEF Inserted, SpliceStart
<1>3. n \in Nat /\ \A j \in 1..n : f[j] \in Item
  BY <1>1, SMT
<1>4. f \in Seq(Item) /\ Len(f) = n
  <2>1. \A j \in 1..n : f[j] = IF j <= p THEN s[j] ELSE IF j = p + 1 THEN x ELSE s[j - 1]
    OBVIOUS
  <2>2. DOMAIN f = 1..n /\ f \in [1..n -> Item]
    BY <1>3
  <2> HIDE DEF f, n
  <2> QED BY <1>3, <2>2, SMT
<1> QED BY <1>2, <1>4 DEF IsInserted

\* splice(p, 1) inside the list (applyDelete).
LEMMA RemovedItems ==
    ASSUME NEW s \in Seq(Item), NEW p \in 0..(Len(s) - 1)
    PROVE  IsRemoved(Removed(s, p), s, p)
<1> DEFINE n == Len(s) - 1
           f == [j \in 1..n |-> IF j <= p THEN s[j] ELSE s[j + 1]]
<1>1. Len(s) \in Nat /\ \A j \in 1..Len(s) : s[j] \in Item
  BY SMT
<1>2. Removed(s, p) = f
  BY <1>1, SMT DEF Removed, SpliceStart
<1>3. n \in Nat /\ \A j \in 1..n : f[j] \in Item
  BY <1>1, SMT
<1>4. f \in Seq(Item) /\ Len(f) = n
  <2>2. DOMAIN f = 1..n /\ f \in [1..n -> Item]
    BY <1>3
  <2> HIDE DEF f, n
  <2> QED BY <1>3, <2>2, SMT
<1> QED BY <1>2, <1>4 DEF IsRemoved

\* The update of an item's text (applyUpdate).
LEMMA RewrittenItems ==
    ASSUME NEW s \in Seq(Item), NEW i \in 0..(Len(s) - 1), NEW v \in {0} \cup Editors
    PROVE  IsRewritten(Rewritten(s, i, v), s, i, v)
<1> DEFINE f == [s EXCEPT ![i + 1].val = v]
<1>1. Len(s) \in Nat /\ DOMAIN s = 1..Len(s) /\ \A j \in 1..Len(s) : s[j] \in Item
  BY SMT
<1>2. Rewritten(s, i, v) = f
  <2>1. i < Len(s)
    BY <1>1, SMT
  <2> QED BY <2>1 DEF Rewritten
<1>3. \A y \in Item : [y EXCEPT !.val = v] \in Item
  BY DEF Item
<1>4. \A j \in 1..Len(s) : f[j] = IF j = i + 1 THEN [s[j] EXCEPT !.val = v] ELSE s[j]
  BY <1>1, SMT
<1>5. DOMAIN f = 1..Len(s) /\ f \in [1..Len(s) -> Item]
  BY <1>1, <1>3, <1>4
<1>6. f \in Seq(Item) /\ Len(f) = Len(s)
  <2> HIDE DEF f
  <2> QED BY <1>1, <1>5, SMT
<1> QED BY <1>2, <1>4, <1>6 DEF IsRewritten

-----------------------------------------------------------------------------
(* The pairs of steps that transform() makes lead to one list. *)

\* Two insertions, the later or lower one shifted.
LEMMA InsertsCommute ==
    ASSUME NEW s \in Seq(Item), NEW x \in Item, NEW y \in Item,
           NEW p \in 0..Len(s), NEW q \in 0..Len(s), p <= q
    PROVE  Inserted(Inserted(s, p, x), q + 1, y) = Inserted(Inserted(s, q, y), p, x)
<1> DEFINE a == Inserted(s, p, x)
           b == Inserted(s, q, y)
           u == Inserted(a, q + 1, y)
           w == Inserted(b, p, x)
<1>0. Len(s) \in Nat
  BY SMT
<1>1. /\ a \in Seq(Item)
      /\ Len(a) = Len(s) + 1
      /\ \A j \in 1..(Len(s) + 1) : a[j] = IF j <= p THEN s[j] ELSE IF j = p + 1 THEN x ELSE s[j - 1]
  <2>1. IsInserted(a, s, p, x)
    BY InsertedItems
  <2> QED BY <2>1 DEF IsInserted
<1>2. /\ b \in Seq(Item)
      /\ Len(b) = Len(s) + 1
      /\ \A j \in 1..(Len(s) + 1) : b[j] = IF j <= q THEN s[j] ELSE IF j = q + 1 THEN y ELSE s[j - 1]
  <2>1. IsInserted(b, s, q, y)
    BY InsertedItems
  <2> QED BY <2>1 DEF IsInserted
<1>a. a \in Seq(Item)
  BY <1>1
<1>b. b \in Seq(Item)
  BY <1>2
<1> HIDE DEF a, b
<1>3. q + 1 \in 0..Len(a) /\ p \in 0..Len(b)
  BY <1>0, <1>1, <1>2, SMT
<1>4. /\ u \in Seq(Item)
      /\ Len(u) = Len(a) + 1
      /\ \A j \in 1..(Len(a) + 1) : u[j] = IF j <= q + 1 THEN a[j] ELSE IF j = (q + 1) + 1 THEN y ELSE a[j - 1]
  <2>1. IsInserted(u, a, q + 1, y)
    BY <1>a, <1>3, InsertedItems
  <2> QED BY <2>1 DEF IsInserted
<1>5. /\ w \in Seq(Item)
      /\ Len(w) = Len(b) + 1
      /\ \A j \in 1..(Len(b) + 1) : w[j] = IF j <= p THEN b[j] ELSE IF j = p + 1 THEN x ELSE b[j - 1]
  <2>1. IsInserted(w, b, p, x)
    BY <1>b, <1>3, InsertedItems
  <2> QED BY <2>1 DEF IsInserted
<1> HIDE DEF u, w
<1>6. ASSUME NEW j \in 1..(Len(s) + 2)
      PROVE  u[j] = w[j]
  <2>0. /\ j \in 1..(Len(a) + 1)
        /\ j \in 1..(Len(b) + 1)
    BY <1>0, <1>1, <1>2, SMT
  <2>1. u[j] = IF j <= q + 1 THEN a[j] ELSE IF j = (q + 1) + 1 THEN y ELSE a[j - 1]
    BY <1>4, <2>0
  <2>2. w[j] = IF j <= p THEN b[j] ELSE IF j = p + 1 THEN x ELSE b[j - 1]
    BY <1>5, <2>0
  <2>3. CASE j <= p
    <3>1. a[j] = s[j]
      BY <1>0, <1>1, <2>3, SMT
    <3>2. b[j] = s[j]
      BY <1>0, <1>2, <2>3, SMT
    <3> QED BY <1>0, <2>1, <2>2, <2>3, <3>1, <3>2, SMT
  <2>4. CASE j = p + 1
    <3>1. a[j] = x
      BY <1>0, <1>1, <2>4, SMT
    <3> QED BY <1>0, <2>1, <2>2, <2>4, <3>1, SMT
  <2>5. CASE j > p + 1 /\ j <= q + 1
    <3>1. a[j] = s[j - 1]
      BY <1>0, <1>1, <2>5, SMT
    <3>2. b[j - 1] = s[j - 1]
      BY <1>0, <1>2, <2>5, SMT
    <3> QED BY <1>0, <2>1, <2>2, <2>5, <3>1, <3>2, SMT
  <2>6. CASE j = q + 2
    <3>1. b[j - 1] = y
      BY <1>0, <1>2, <2>6, SMT
    <3> QED BY <1>0, <2>1, <2>2, <2>6, <3>1, SMT
  <2>7. CASE j > q + 2
    <3>1. a[j - 1] = s[j - 2]
      BY <1>0, <1>1, <2>7, SMT
    <3>2. b[j - 1] = s[j - 2]
      BY <1>0, <1>2, <2>7, SMT
    <3> QED BY <1>0, <2>1, <2>2, <2>7, <3>1, <3>2, SMT
  <2> QED BY <1>0, <2>3, <2>4, <2>5, <2>6, <2>7, SMT
<1>7. Len(u) = Len(s) + 2 /\ Len(w) = Len(s) + 2
  BY <1>0, <1>1, <1>2, <1>4, <1>5, SMT
<1>8. u = w
  BY <1>4, <1>5, <1>6, <1>7, SameItems
<1> QED BY <1>8 DEF u, w, a, b

\* An insertion at or before a deletion.
LEMMA InsertBeforeDelete ==
    ASSUME NEW s \in Seq(Item), NEW x \in Item,
           NEW p \in 0..Len(s), NEW q \in 0..(Len(s) - 1), p <= q
    PROVE  Removed(Inserted(s, p, x), q + 1) = Inserted(Removed(s, q), p, x)
<1> DEFINE a == Inserted(s, p, x)
           b == Removed(s, q)
           u == Removed(a, q + 1)
           w == Inserted(b, p, x)
<1>0. Len(s) \in Nat
  BY SMT
<1>1. /\ a \in Seq(Item)
      /\ Len(a) = Len(s) + 1
      /\ \A j \in 1..(Len(s) + 1) : a[j] = IF j <= p THEN s[j] ELSE IF j = p + 1 THEN x ELSE s[j - 1]
  <2>1. IsInserted(a, s, p, x)
    BY InsertedItems
  <2> QED BY <2>1 DEF IsInserted
<1>2. /\ b \in Seq(Item)
      /\ Len(b) = Len(s) - 1
      /\ \A j \in 1..(Len(s) - 1) : b[j] = IF j <= q THEN s[j] ELSE s[j + 1]
  <2>1. IsRemoved(b, s, q)
    BY RemovedItems
  <2> QED BY <2>1 DEF IsRemoved
<1>a. a \in Seq(Item)
  BY <1>1
<1>b. b \in Seq(Item)
  BY <1>2
<1> HIDE DEF a, b
<1>3. q + 1 \in 0..(Len(a) - 1) /\ p \in 0..Len(b)
  BY <1>0, <1>1, <1>2, SMT
<1>4. /\ u \in Seq(Item)
      /\ Len(u) = Len(a) - 1
      /\ \A j \in 1..(Len(a) - 1) : u[j] = IF j <= q + 1 THEN a[j] ELSE a[j + 1]
  <2>1. IsRemoved(u, a, q + 1)
    BY <1>a, <1>3, RemovedItems
  <2> QED BY <2>1 DEF IsRemoved
<1>5. /\ w \in Seq(Item)
      /\ Len(w) = Len(b) + 1
      /\ \A j \in 1..(Len(b) + 1) : w[j] = IF j <= p THEN b[j] ELSE IF j = p + 1 THEN x ELSE b[j - 1]
  <2>1. IsInserted(w, b, p, x)
    BY <1>b, <1>3, InsertedItems
  <2> QED BY <2>1 DEF IsInserted
<1> HIDE DEF u, w
<1>6. ASSUME NEW j \in 1..Len(s)
      PROVE  u[j] = w[j]
  <2>0. /\ j \in 1..(Len(a) - 1)
        /\ j \in 1..(Len(b) + 1)
    BY <1>0, <1>1, <1>2, SMT
  <2>1. u[j] = IF j <= q + 1 THEN a[j] ELSE a[j + 1]
    BY <1>4, <2>0
  <2>2. w[j] = IF j <= p THEN b[j] ELSE IF j = p + 1 THEN x ELSE b[j - 1]
    BY <1>5, <2>0
  <2>3. CASE j <= p
    <3>1. a[j] = s[j]
      BY <1>0, <1>1, <2>3, SMT
    <3>2. b[j] = s[j]
      BY <1>0, <1>2, <2>3, SMT
    <3> QED BY <1>0, <2>1, <2>2, <2>3, <3>1, <3>2, SMT
  <2>4. CASE j = p + 1
    <3>1. a[j] = x
      BY <1>0, <1>1, <2>4, SMT
    <3> QED BY <1>0, <2>1, <2>2, <2>4, <3>1, SMT
  <2>5. CASE j > p + 1 /\ j <= q + 1
    <3>1. a[j] = s[j - 1]
      BY <1>0, <1>1, <2>5, SMT
    <3>2. b[j - 1] = s[j - 1]
      BY <1>0, <1>2, <2>5, SMT
    <3> QED BY <1>0, <2>1, <2>2, <2>5, <3>1, <3>2, SMT
  <2>6. CASE j > q + 1
    <3>1. a[j + 1] = s[j]
      BY <1>0, <1>1, <2>6, SMT
    <3>2. b[j - 1] = s[j]
      BY <1>0, <1>2, <2>6, SMT
    <3> QED BY <1>0, <2>1, <2>2, <2>6, <3>1, <3>2, SMT
  <2> QED BY <1>0, <2>3, <2>4, <2>5, <2>6, SMT
<1>7. Len(u) = Len(s) /\ Len(w) = Len(s)
  BY <1>0, <1>1, <1>2, <1>4, <1>5, SMT
<1>8. u = w
  BY <1>4, <1>5, <1>6, <1>7, SameItems
<1> QED BY <1>8 DEF u, w, a, b

\* An insertion behind a deletion.
LEMMA InsertBehindDelete ==
    ASSUME NEW s \in Seq(Item), NEW x \in Item,
           NEW p \in 0..Len(s), NEW q \in 0..(Len(s) - 1), p > q
    PROVE  Removed(Inserted(s, p, x), q) = Inserted(Removed(s, q), p - 1, x)
<1> DEFINE a == Inserted(s, p, x)
           b == Removed(s, q)
           u == Removed(a, q)
           w == Inserted(b, p - 1, x)
<1>0. Len(s) \in Nat
  BY SMT
<1>1. /\ a \in Seq(Item)
      /\ Len(a) = Len(s) + 1
      /\ \A j \in 1..(Len(s) + 1) : a[j] = IF j <= p THEN s[j] ELSE IF j = p + 1 THEN x ELSE s[j - 1]
  <2>1. IsInserted(a, s, p, x)
    BY InsertedItems
  <2> QED BY <2>1 DEF IsInserted
<1>2. /\ b \in Seq(Item)
      /\ Len(b) = Len(s) - 1
      /\ \A j \in 1..(Len(s) - 1) : b[j] = IF j <= q THEN s[j] ELSE s[j + 1]
  <2>1. IsRemoved(b, s, q)
    BY RemovedItems
  <2> QED BY <2>1 DEF IsRemoved
<1>a. a \in Seq(Item)
  BY <1>1
<1>b. b \in Seq(Item)
  BY <1>2
<1> HIDE DEF a, b
<1>3. q \in 0..(Len(a) - 1) /\ p - 1 \in 0..Len(b)
  BY <1>0, <1>1, <1>2, SMT
<1>4. /\ u \in Seq(Item)
      /\ Len(u) = Len(a) - 1
      /\ \A j \in 1..(Len(a) - 1) : u[j] = IF j <= q THEN a[j] ELSE a[j + 1]
  <2>1. IsRemoved(u, a, q)
    BY <1>a, <1>3, RemovedItems
  <2> QED BY <2>1 DEF IsRemoved
<1>5. /\ w \in Seq(Item)
      /\ Len(w) = Len(b) + 1
      /\ \A j \in 1..(Len(b) + 1) :
            w[j] = IF j <= p - 1 THEN b[j] ELSE IF j = (p - 1) + 1 THEN x ELSE b[j - 1]
  <2>1. IsInserted(w, b, p - 1, x)
    BY <1>b, <1>3, InsertedItems
  <2> QED BY <2>1 DEF IsInserted
<1> HIDE DEF u, w
<1>6. ASSUME NEW j \in 1..Len(s)
      PROVE  u[j] = w[j]
  <2>0. /\ j \in 1..(Len(a) - 1)
        /\ j \in 1..(Len(b) + 1)
    BY <1>0, <1>1, <1>2, SMT
  <2>1. u[j] = IF j <= q THEN a[j] ELSE a[j + 1]
    BY <1>4, <2>0
  <2>2. w[j] = IF j <= p - 1 THEN b[j] ELSE IF j = (p - 1) + 1 THEN x ELSE b[j - 1]
    BY <1>5, <2>0
  <2>3. CASE j <= q
    <3>1. a[j] = s[j]
      BY <1>0, <1>1, <2>3, SMT
    <3>2. b[j] = s[j]
      BY <1>0, <1>2, <2>3, SMT
    <3> QED BY <1>0, <2>1, <2>2, <2>3, <3>1, <3>2, SMT
  <2>4. CASE j > q /\ j < p
    <3>1. a[j + 1] = s[j + 1]
      BY <1>0, <1>1, <2>4, SMT
    <3>2. b[j] = s[j + 1]
      BY <1>0, <1>2, <2>4, SMT
    <3> QED BY <1>0, <2>1, <2>2, <2>4, <3>1, <3>2, SMT
  <2>5. CASE j = p
    <3>1. a[j + 1] = x
      BY <1>0, <1>1, <2>5, SMT
    <3> QED BY <1>0, <2>1, <2>2, <2>5, <3>1, SMT
  <2>6. CASE j > p
    <3>1. a[j + 1] = s[j]
      BY <1>0, <1>1, <2>6, SMT
    <3>2. b[j - 1] = s[j]
      BY <1>0, <1>2, <2>6, SMT
    <3> QED BY <1>0, <2>1, <2>2, <2>6, <3>1, <3>2, SMT
  <2> QED BY <1>0, <2>3, <2>4, <2>5, <2>6, SMT
<1>7. Len(u) = Len(s) /\ Len(w) = Len(s)
  BY <1>0, <1>1, <1>2, <1>4, <1>5, SMT
<1>8. u = w
  BY <1>4, <1>5, <1>6, <1>7, SameItems
<1> QED BY <1>8 DEF u, w, a, b

\* An insertion and an edit, whose index follows its item.
LEMMA InsertAndEdit ==
    ASSUME NEW s \in Seq(Item), NEW x \in Item, NEW v \in Editors,
           NEW p \in 0..Len(s), NEW i \in 0..(Len(s) - 1)
    PROVE  Rewritten(Inserted(s, p, x), AdjustPath(i, p), v) = Inserted(Rewritten(s, i, v), p, x)
<1> DEFINE k == IF i >= p THEN i + 1 ELSE i
           a == Inserted(s, p, x)
           b == Rewritten(s, i, v)
           u == Rewritten(a, k, v)
           w == Inserted(b, p, x)
<1>0. Len(s) \in Nat /\ AdjustPath(i, p) = k
  BY SMT DEF AdjustPath, Whole
<1>1. /\ a \in Seq(Item)
      /\ Len(a) = Len(s) + 1
      /\ \A j \in 1..(Len(s) + 1) : a[j] = IF j <= p THEN s[j] ELSE IF j = p + 1 THEN x ELSE s[j - 1]
  <2>1. IsInserted(a, s, p, x)
    BY InsertedItems
  <2> QED BY <2>1 DEF IsInserted
<1>2. /\ b \in Seq(Item)
      /\ Len(b) = Len(s)
      /\ \A j \in 1..Len(s) : b[j] = IF j = i + 1 THEN [s[j] EXCEPT !.val = v] ELSE s[j]
  <2>1. IsRewritten(b, s, i, v)
    BY RewrittenItems
  <2> QED BY <2>1 DEF IsRewritten
<1>a. a \in Seq(Item)
  BY <1>1
<1>b. b \in Seq(Item)
  BY <1>2
<1> HIDE DEF a, b
<1>3. k \in 0..(Len(a) - 1) /\ p \in 0..Len(b)
  BY <1>0, <1>1, <1>2, SMT
<1>4. /\ u \in Seq(Item)
      /\ Len(u) = Len(a)
      /\ \A j \in 1..Len(a) : u[j] = IF j = k + 1 THEN [a[j] EXCEPT !.val = v] ELSE a[j]
  <2>1. IsRewritten(u, a, k, v)
    BY <1>a, <1>3, RewrittenItems
  <2> QED BY <2>1 DEF IsRewritten
<1>5. /\ w \in Seq(Item)
      /\ Len(w) = Len(b) + 1
      /\ \A j \in 1..(Len(b) + 1) : w[j] = IF j <= p THEN b[j] ELSE IF j = p + 1 THEN x ELSE b[j - 1]
  <2>1. IsInserted(w, b, p, x)
    BY <1>b, <1>3, InsertedItems
  <2> QED BY <2>1 DEF IsInserted
<1> HIDE DEF u, w
<1>6. ASSUME NEW j \in 1..(Len(s) + 1)
      PROVE  u[j] = w[j]
  <2> DEFINE F(y) == [y EXCEPT !.val = v]
  <2>0. j \in 1..Len(a) /\ j \in 1..(Len(b) + 1)
    BY <1>0, <1>1, <1>2, SMT
  <2>1. /\ u[j] = IF j = k + 1 THEN F(a[j]) ELSE a[j]
        /\ \A h \in 1..Len(s) : b[h] = IF h = i + 1 THEN F(s[h]) ELSE s[h]
    BY <1>1, <1>2, <1>4, <2>0
  <2>2. w[j] = IF j <= p THEN b[j] ELSE IF j = p + 1 THEN x ELSE b[j - 1]
    BY <1>5, <2>0
  <2> HIDE DEF F
  <2>3. CASE j <= p
    <3>1. a[j] = s[j]
      BY <1>0, <1>1, <2>3, SMT
    <3> QED BY <1>0, <2>1, <2>2, <2>3, <3>1, SMT
  <2>4. CASE j = p + 1
    BY <1>0, <1>1, <2>1, <2>2, <2>4, SMT
  <2>5. CASE j > p + 1
    BY <1>0, <1>1, <2>1, <2>2, <2>5, SMT
  <2> QED BY <1>0, <2>3, <2>4, <2>5, SMT
<1>7. Len(u) = Len(s) + 1 /\ Len(w) = Len(s) + 1
  BY <1>0, <1>1, <1>2, <1>4, <1>5, SMT
<1>8. u = w
  BY <1>4, <1>5, <1>6, <1>7, SameItems
<1> QED BY <1>0, <1>8 DEF u, w, a, b

-----------------------------------------------------------------------------
(* The operations on the list and what apply() and transform() do with them. *)

Insertion(e, p) ==
    [type |-> "insert", root |-> "actions", index |-> Whole, pos |-> p, to |-> 0,
     value |-> Fresh(e), old |-> Missing, link |-> Missing, ts |-> clock[e]]
Deletion(e, p, x) ==
    [type |-> "delete", root |-> "actions", index |-> Whole, pos |-> p, to |-> 0,
     value |-> Missing, old |-> x, link |-> Missing, ts |-> clock[e]]
Revision(e, i, x) ==
    [type |-> "update", root |-> "actions", index |-> i, pos |-> 0, to |-> 0,
     value |-> Mine(e), old |-> x, link |-> Missing, ts |-> clock[e]]

\* Every operation has a time.
Clocked == clock \in [Editors -> Nat]

\* A document with a list, whatever the rest of it.
WithList(doc, s) == [actions |-> s, name |-> doc.name, connections |-> doc.connections]
HasList(doc) == doc.actions \in Seq(Item) /\ doc = WithList(doc, doc.actions)

\* The operations an editor makes have these forms.
LEMMA InsertionsMade ==
    ASSUME NEW e \in Editors, NEW doc, NEW o \in Made("insert", e, doc)
    PROVE  \E p \in 0..Len(doc.actions) : o = Insertion(e, p)
<1>1. PICK p \in 0..Len(doc.actions) :
        o = [Plain("insert", "actions", clock[e]) EXCEPT !.pos = p, !.value = Fresh(e)]
  BY DEF Made, MadeAt
<1> QED BY <1>1 DEF Plain, Insertion

LEMMA DeletionsMade ==
    ASSUME NEW e \in Editors, NEW doc, NEW o \in Made("delete", e, doc)
    PROVE  \E p \in 0..(Len(doc.actions) - 1) : o = Deletion(e, p, doc.actions[p + 1])
<1>1. PICK p \in 0..(Len(doc.actions) - 1) :
        o = [Plain("delete", "actions", clock[e]) EXCEPT !.pos = p, !.old = doc.actions[p + 1]]
  BY DEF Made, MadeAt
<1> QED BY <1>1 DEF Plain, Deletion

LEMMA RevisionsMade ==
    ASSUME NEW e \in Editors, NEW doc, NEW o \in Made("edit", e, doc)
    PROVE  \E i \in 0..(Len(doc.actions) - 1) : o = Revision(e, i, doc.actions[i + 1])
<1>1. PICK i \in 0..(Len(doc.actions) - 1) :
        o = [Plain("update", "actions", clock[e]) EXCEPT
                !.index = i, !.value = Mine(e), !.old = doc.actions[i + 1]]
  BY DEF Made, MadeAt
<1> QED BY <1>1 DEF Plain, Revision

\* They are operations, of the kind they were made as, and not null.
LEMMA MadeIsOperation ==
    ASSUME Clocked, NEW e \in Editors, NEW doc, HasList(doc),
           NEW kind \in ListKinds, NEW o \in Made(kind, e, doc)
    PROVE  o # Null /\ Kind(o) = kind
<1>0. \A p \in 0..(Len(doc.actions) - 1) : doc.actions[p + 1] \in Item
  BY SMT DEF HasList
<1>1. clock[e] \in Nat /\ Fresh(e) \in Item /\ Mine(e) \in Item
  BY SMT DEF Clocked, Fresh, Mine, Item, Editors
<1>2. Len(doc.actions) \in Nat
  BY SMT DEF HasList
<1>3. CASE kind = "insert"
  <2>1. PICK p \in 0..Len(doc.actions) : o = Insertion(e, p)
    BY <1>3, InsertionsMade
  <2>2. p \in Int
    BY <1>2, SMT
  <2>3. o \in Operation
    BY <1>1, <2>1, <2>2 DEF Insertion, Operation, Whole, Absent
  <2> QED BY <1>3, <2>1, <2>3, NullAssumption DEF Kind, Insertion
<1>4. CASE kind = "delete"
  <2>1. PICK p \in 0..(Len(doc.actions) - 1) : o = Deletion(e, p, doc.actions[p + 1])
    BY <1>4, DeletionsMade
  <2>2. p \in Int
    BY <1>2, SMT
  <2>3. o \in Operation
    BY <1>0, <1>1, <2>1, <2>2 DEF Deletion, Operation, Whole, Absent
  <2> QED BY <1>4, <2>1, <2>3, NullAssumption DEF Kind, Deletion
<1>5. CASE kind = "edit"
  <2>1. PICK i \in 0..(Len(doc.actions) - 1) : o = Revision(e, i, doc.actions[i + 1])
    BY <1>5, RevisionsMade
  <2>2. i \in Nat
    BY <1>2, SMT
  <2>3. o \in Operation
    BY <1>0, <1>1, <2>1, <2>2 DEF Revision, Operation, Whole, Absent
  <2> QED BY <1>5, <2>1, <2>3, NullAssumption DEF Kind, Revision
<1> QED BY <1>3, <1>4, <1>5 DEF ListKinds

\* What apply() does with them, whatever the list.
LEMMA InsertionApplied ==
    ASSUME NEW doc, NEW s, NEW e \in Editors, NEW p
    PROVE  Apply(WithList(doc, s), Insertion(e, p)) = WithList(doc, Inserted(s, p, Fresh(e)))
  BY DEF Apply, ApplyToList, Insertion, WithList

LEMMA DeletionApplied ==
    ASSUME NEW doc, NEW s, NEW e \in Editors, NEW p, NEW x
    PROVE  Apply(WithList(doc, s), Deletion(e, p, x)) = WithList(doc, Removed(s, p))
  BY DEF Apply, ApplyToList, Deletion, WithList

LEMMA RevisionApplied ==
    ASSUME NEW doc, NEW s, NEW e \in Editors, NEW i, i # Whole, NEW x
    PROVE  Apply(WithList(doc, s), Revision(e, i, x)) = WithList(doc, Rewritten(s, i, e))
  BY DEF Apply, ApplyToList, Revision, Mine, WithList

\* What transform() makes of two of them.
LEMMA InsertsTransformed ==
    ASSUME NEW e \in Editors, NEW f \in Editors, NEW p \in Int, NEW q \in Int,
           clock[e] \in Nat, clock[f] \in Nat
    PROVE  Transform(Insertion(e, p), Insertion(f, q))[2] =
             IF p < q \/ (p = q /\ clock[e] < clock[f]) THEN Insertion(f, q + 1) ELSE Insertion(f, q)
<1>1. Transform(Insertion(e, p), Insertion(f, q)) = InsertInsert(Insertion(e, p), Insertion(f, q))
  BY DEF Transform, PathsConflict, TransformByType, Insertion
<1>2. Shifted(Insertion(f, q), 1) = Insertion(f, q + 1)
  BY DEF Shifted, Insertion
<1>3. /\ Insertion(e, p).pos = p /\ Insertion(e, p).ts = clock[e]
      /\ Insertion(f, q).pos = q /\ Insertion(f, q).ts = clock[f]
  BY DEF Insertion
<1> QED BY <1>1, <1>2, <1>3 DEF InsertInsert

LEMMA InsertDeleteTransformed ==
    ASSUME NEW e \in Editors, NEW f \in Editors, NEW p \in Int, NEW q \in Int, NEW x
    PROVE  /\ Transform(Insertion(e, p), Deletion(f, q, x))[2] =
                 IF p <= q THEN Deletion(f, q + 1, x) ELSE Deletion(f, q, x)
           /\ Transform(Deletion(f, q, x), Insertion(e, p))[2] =
                 IF p <= q THEN Insertion(e, p) ELSE Insertion(e, p - 1)
<1> DEFINE a == Insertion(e, p)
           b == Deletion(f, q, x)
<1>1. Transform(a, b) = InsertDelete(a, b) /\ Transform(b, a) = Reversed(InsertDelete(a, b))
  BY DEF Transform, PathsConflict, TransformByType, Insertion, Deletion
<1>2. Shifted(b, 1) = Deletion(f, q + 1, x)
  BY DEF Shifted, Deletion
<1>3. Shifted(a, -1) = Insertion(e, p + (-1)) /\ p + (-1) = p - 1
  BY DEF Shifted, Insertion
<1>4. a.pos = p /\ b.pos = q
  BY DEF Insertion, Deletion
<1> HIDE DEF a, b
<1>5. InsertDelete(a, b) = IF p <= q THEN <<a, Deletion(f, q + 1, x)>> ELSE <<Insertion(e, p - 1), b>>
  BY <1>2, <1>3, <1>4 DEF InsertDelete
<1>6. /\ Transform(a, b)[2] = IF p <= q THEN Deletion(f, q + 1, x) ELSE b
      /\ Transform(b, a)[2] = IF p <= q THEN a ELSE Insertion(e, p - 1)
  BY <1>1, <1>5 DEF Reversed
<1> QED BY <1>6 DEF a, b

LEMMA InsertEditTransformed ==
    ASSUME NEW e \in Editors, NEW f \in Editors, NEW p \in Int, NEW i \in Nat, NEW x
    PROVE  /\ Transform(Insertion(e, p), Revision(f, i, x))[2] = Revision(f, AdjustPath(i, p), x)
           /\ Transform(Revision(f, i, x), Insertion(e, p))[2] = Insertion(e, p)
<1> DEFINE a == Insertion(e, p)
           b == Revision(f, i, x)
<1>1. Transform(a, b) = InsertUpdate(a, b) /\ Transform(b, a) = Reversed(InsertUpdate(a, b))
  BY DEF Transform, PathsConflict, TransformByType, Insertion, Revision
<1>2. InsertUpdate(a, b) = <<a, Revision(f, AdjustPath(i, p), x)>>
  BY DEF InsertUpdate, Insertion, Revision
<1> HIDE DEF a, b
<1>3. Transform(a, b)[2] = Revision(f, AdjustPath(i, p), x) /\ Transform(b, a)[2] = a
  BY <1>1, <1>2 DEF Reversed
<1> QED BY <1>3 DEF a, b

-----------------------------------------------------------------------------
(* The law of transform() (operational-transform-service.ts:26), for an     *)
(* insertion and any operation on the list.                                 *)

Agree(doc, o1, o2) ==
    Apply(Apply(doc, o1), Transform(o1, o2)[2]) = Apply(Apply(doc, o2), Transform(o2, o1)[2])

LEMMA InsertsAgree ==
    ASSUME Clocked, NEW doc, HasList(doc), NEW e \in Editors, NEW f \in Editors,
           NEW p \in 0..Len(doc.actions), NEW q \in 0..Len(doc.actions),
           p # q \/ clock[e] # clock[f]
    PROVE  Agree(doc, Insertion(e, p), Insertion(f, q))
<1> DEFINE s == doc.actions
           a == Insertion(e, p)
           b == Insertion(f, q)
<1>0. s \in Seq(Item) /\ doc = WithList(doc, s) /\ p \in Int /\ q \in Int
  BY SMT DEF HasList
<1>1. clock[e] \in Nat /\ clock[f] \in Nat /\ Fresh(e) \in Item /\ Fresh(f) \in Item
  BY SMT DEF Clocked, Fresh, Item, Editors
<1>2. /\ Transform(a, b)[2] =
            IF p < q \/ (p = q /\ clock[e] < clock[f]) THEN Insertion(f, q + 1) ELSE b
      /\ Transform(b, a)[2] =
            IF q < p \/ (q = p /\ clock[f] < clock[e]) THEN Insertion(e, p + 1) ELSE a
  BY <1>0, <1>1, InsertsTransformed
<1>3. /\ Apply(doc, a) = WithList(doc, Inserted(s, p, Fresh(e)))
      /\ Apply(doc, b) = WithList(doc, Inserted(s, q, Fresh(f)))
  <2>1. Apply(WithList(doc, s), a) = WithList(doc, Inserted(s, p, Fresh(e)))
    BY InsertionApplied
  <2>2. Apply(WithList(doc, s), b) = WithList(doc, Inserted(s, q, Fresh(f)))
    BY <1>0, InsertionApplied
  <2> HIDE DEF a, b, s
  <2> QED BY <1>0, <2>1, <2>2
<1>4. CASE p < q \/ (p = q /\ clock[e] < clock[f])
  <2>1. Transform(a, b)[2] = Insertion(f, q + 1) /\ Transform(b, a)[2] = a /\ p <= q
    BY <1>0, <1>1, <1>2, <1>4, SMT
  <2>2. Inserted(Inserted(s, p, Fresh(e)), q + 1, Fresh(f)) = Inserted(Inserted(s, q, Fresh(f)), p, Fresh(e))
    BY <1>0, <1>1, <2>1, InsertsCommute
  <2>8. Apply(WithList(doc, Inserted(s, p, Fresh(e))), Insertion(f, q + 1)) = WithList(doc, Inserted(Inserted(s, p, Fresh(e)), q + 1, Fresh(f)))
    BY <1>0, InsertionApplied
  <2>9. Apply(WithList(doc, Inserted(s, q, Fresh(f))), a) = WithList(doc, Inserted(Inserted(s, q, Fresh(f)), p, Fresh(e)))
    BY <1>0, InsertionApplied
  <2> QED BY <1>3, <2>1, <2>2, <2>8, <2>9 DEF Agree
<1>5. CASE q < p \/ (q = p /\ clock[f] < clock[e])
  <2>1. Transform(b, a)[2] = Insertion(e, p + 1) /\ Transform(a, b)[2] = b /\ q <= p
    BY <1>0, <1>1, <1>2, <1>5, SMT
  <2>2. Inserted(Inserted(s, q, Fresh(f)), p + 1, Fresh(e)) = Inserted(Inserted(s, p, Fresh(e)), q, Fresh(f))
    BY <1>0, <1>1, <2>1, InsertsCommute
  <2>8. Apply(WithList(doc, Inserted(s, p, Fresh(e))), b) = WithList(doc, Inserted(Inserted(s, p, Fresh(e)), q, Fresh(f)))
    BY <1>0, InsertionApplied
  <2>9. Apply(WithList(doc, Inserted(s, q, Fresh(f))), Insertion(e, p + 1)) = WithList(doc, Inserted(Inserted(s, q, Fresh(f)), p + 1, Fresh(e)))
    BY <1>0, InsertionApplied
  <2> QED BY <1>3, <2>1, <2>2, <2>8, <2>9 DEF Agree
<1> QED BY <1>0, <1>1, <1>4, <1>5, SMT

LEMMA InsertDeleteAgree ==
    ASSUME NEW doc, HasList(doc), NEW e \in Editors, NEW f \in Editors,
           NEW p \in 0..Len(doc.actions), NEW q \in 0..(Len(doc.actions) - 1), NEW x
    PROVE  Agree(doc, Insertion(e, p), Deletion(f, q, x)) /\ Agree(doc, Deletion(f, q, x), Insertion(e, p))
<1> DEFINE s == doc.actions
           a == Insertion(e, p)
           b == Deletion(f, q, x)
<1>0. s \in Seq(Item) /\ doc = WithList(doc, s) /\ p \in Int /\ q \in Int
  BY SMT DEF HasList
<1>1. Fresh(e) \in Item
  BY SMT DEF Fresh, Item, Editors
<1>2. /\ Transform(a, b)[2] = IF p <= q THEN Deletion(f, q + 1, x) ELSE b
      /\ Transform(b, a)[2] = IF p <= q THEN a ELSE Insertion(e, p - 1)
  BY <1>0, InsertDeleteTransformed
<1>3. /\ Apply(doc, a) = WithList(doc, Inserted(s, p, Fresh(e)))
      /\ Apply(doc, b) = WithList(doc, Removed(s, q))
  <2>1. Apply(WithList(doc, s), a) = WithList(doc, Inserted(s, p, Fresh(e)))
    BY InsertionApplied
  <2>2. Apply(WithList(doc, s), b) = WithList(doc, Removed(s, q))
    BY <1>0, DeletionApplied
  <2> HIDE DEF a, b, s
  <2> QED BY <1>0, <2>1, <2>2
<1>4. CASE p <= q
  <2>1. Removed(Inserted(s, p, Fresh(e)), q + 1) = Inserted(Removed(s, q), p, Fresh(e))
    BY <1>0, <1>1, <1>4, InsertBeforeDelete
  <2>2. Transform(a, b)[2] = Deletion(f, q + 1, x) /\ Transform(b, a)[2] = a
    BY <1>2, <1>4
  <2>8. Apply(WithList(doc, Inserted(s, p, Fresh(e))), Deletion(f, q + 1, x)) = WithList(doc, Removed(Inserted(s, p, Fresh(e)), q + 1))
    BY <1>0, DeletionApplied
  <2>9. Apply(WithList(doc, Removed(s, q)), a) = WithList(doc, Inserted(Removed(s, q), p, Fresh(e)))
    BY <1>0, InsertionApplied
  <2> QED BY <1>3, <2>1, <2>2, <2>8, <2>9 DEF Agree
<1>5. CASE p > q
  <2>1. Removed(Inserted(s, p, Fresh(e)), q) = Inserted(Removed(s, q), p - 1, Fresh(e))
    BY <1>0, <1>1, <1>5, InsertBehindDelete
  <2>2. Transform(a, b)[2] = b /\ Transform(b, a)[2] = Insertion(e, p - 1)
    BY <1>0, <1>2, <1>5, SMT
  <2>8. Apply(WithList(doc, Inserted(s, p, Fresh(e))), b) = WithList(doc, Removed(Inserted(s, p, Fresh(e)), q))
    BY <1>0, DeletionApplied
  <2>9. Apply(WithList(doc, Removed(s, q)), Insertion(e, p - 1)) = WithList(doc, Inserted(Removed(s, q), p - 1, Fresh(e)))
    BY <1>0, InsertionApplied
  <2> QED BY <1>3, <2>1, <2>2, <2>8, <2>9 DEF Agree
<1> QED BY <1>0, <1>4, <1>5, SMT

LEMMA InsertEditAgree ==
    ASSUME NEW doc, HasList(doc), NEW e \in Editors, NEW f \in Editors,
           NEW p \in 0..Len(doc.actions), NEW i \in 0..(Len(doc.actions) - 1), NEW x
    PROVE  Agree(doc, Insertion(e, p), Revision(f, i, x)) /\ Agree(doc, Revision(f, i, x), Insertion(e, p))
<1> DEFINE s == doc.actions
           a == Insertion(e, p)
           b == Revision(f, i, x)
<1>0. /\ s \in Seq(Item) /\ doc = WithList(doc, s)
      /\ p \in Int /\ i \in Nat
      /\ i # Whole /\ AdjustPath(i, p) # Whole
  BY SMT DEF HasList, Whole, AdjustPath
<1>1. Fresh(e) \in Item
  BY SMT DEF Fresh, Item, Editors
<1>2. Transform(a, b)[2] = Revision(f, AdjustPath(i, p), x) /\ Transform(b, a)[2] = a
  BY <1>0, InsertEditTransformed
<1>3. /\ Apply(doc, a) = WithList(doc, Inserted(s, p, Fresh(e)))
      /\ Apply(doc, b) = WithList(doc, Rewritten(s, i, f))
  <2>1. Apply(WithList(doc, s), a) = WithList(doc, Inserted(s, p, Fresh(e)))
    BY InsertionApplied
  <2>2. Apply(WithList(doc, s), b) = WithList(doc, Rewritten(s, i, f))
    BY <1>0, RevisionApplied
  <2> HIDE DEF a, b, s
  <2> QED BY <1>0, <2>1, <2>2
<1>4. Rewritten(Inserted(s, p, Fresh(e)), AdjustPath(i, p), f) = Inserted(Rewritten(s, i, f), p, Fresh(e))
  BY <1>0, <1>1, InsertAndEdit
<1>5. Agree(doc, a, b) /\ Agree(doc, b, a)
  <2>8. Apply(WithList(doc, Inserted(s, p, Fresh(e))), Revision(f, AdjustPath(i, p), x)) = WithList(doc, Rewritten(Inserted(s, p, Fresh(e)), AdjustPath(i, p), f))
    BY <1>0, RevisionApplied
  <2>9. Apply(WithList(doc, Rewritten(s, i, f)), a) = WithList(doc, Inserted(Rewritten(s, i, f), p, Fresh(e)))
    BY <1>0, InsertionApplied
  <2> QED BY <1>2, <1>3, <1>4, <2>8, <2>9 DEF Agree
<1> QED BY <1>5

LEMMA MadeAgree ==
    ASSUME Clocked, NEW doc, HasList(doc), NEW e \in Editors, NEW f \in Editors,
           NEW kind \in ListKinds,
           NEW a \in Made("insert", e, doc), NEW b \in Made(kind, f, doc),
           kind = "insert" => a.pos # b.pos \/ clock[e] # clock[f]
    PROVE  Agree(doc, a, b) /\ Agree(doc, b, a)
<1>1. PICK p \in 0..Len(doc.actions) : a = Insertion(e, p)
  BY InsertionsMade
<1>2. CASE kind = "insert"
  <2>1. PICK q \in 0..Len(doc.actions) : b = Insertion(f, q)
    BY <1>2, InsertionsMade
  <2>2. p # q \/ clock[e] # clock[f]
    BY <1>1, <1>2, <2>1 DEF Insertion
  <2>3. Agree(doc, Insertion(e, p), Insertion(f, q))
    BY <2>2, InsertsAgree
  <2>4. Agree(doc, Insertion(f, q), Insertion(e, p))
    BY <2>2, InsertsAgree
  <2> QED BY <1>1, <2>1, <2>3, <2>4
<1>3. CASE kind = "delete"
  <2>1. PICK q \in 0..(Len(doc.actions) - 1) : b = Deletion(f, q, doc.actions[q + 1])
    BY <1>3, DeletionsMade
  <2> QED BY <1>1, <2>1, InsertDeleteAgree
<1>4. CASE kind = "edit"
  <2>1. PICK i \in 0..(Len(doc.actions) - 1) : b = Revision(f, i, doc.actions[i + 1])
    BY <1>4, RevisionsMade
  <2> QED BY <1>1, <2>1, InsertEditAgree
<1> QED BY <1>2, <1>3, <1>4 DEF ListKinds

-----------------------------------------------------------------------------
(* What undoes a step on the list. *)

LEMMA InsertUndone ==
    ASSUME NEW s \in Seq(Item), NEW p \in 0..Len(s), NEW x \in Item
    PROVE  Removed(Inserted(s, p, x), p) = s
<1> DEFINE a == Inserted(s, p, x)
           u == Removed(a, p)
<1>0. Len(s) \in Nat
  BY SMT
<1>1. /\ a \in Seq(Item)
      /\ Len(a) = Len(s) + 1
      /\ \A j \in 1..(Len(s) + 1) : a[j] = IF j <= p THEN s[j] ELSE IF j = p + 1 THEN x ELSE s[j - 1]
  <2>1. IsInserted(a, s, p, x)
    BY InsertedItems
  <2> QED BY <2>1 DEF IsInserted
<1>a. a \in Seq(Item)
  BY <1>1
<1> HIDE DEF a
<1>2. p \in 0..(Len(a) - 1)
  BY <1>0, <1>1, SMT
<1>3. /\ u \in Seq(Item)
      /\ Len(u) = Len(a) - 1
      /\ \A j \in 1..(Len(a) - 1) : u[j] = IF j <= p THEN a[j] ELSE a[j + 1]
  <2>1. IsRemoved(u, a, p)
    BY <1>a, <1>2, RemovedItems
  <2> QED BY <2>1 DEF IsRemoved
<1> HIDE DEF u
<1>4. Len(u) = Len(s)
  BY <1>0, <1>1, <1>3, SMT
<1>5. ASSUME NEW j \in 1..Len(s)
      PROVE  u[j] = s[j]
  <2>1. u[j] = IF j <= p THEN a[j] ELSE a[j + 1]
    BY <1>0, <1>1, <1>3, SMT
  <2>2. j <= p => a[j] = s[j]
    BY <1>0, <1>1, SMT
  <2>3. j > p => a[j + 1] = s[j]
    <3>1. j + 1 \in 1..(Len(s) + 1) /\ (j + 1) - 1 = j
      BY <1>0, SMT
    <3>2. a[j + 1] = IF j + 1 <= p THEN s[j + 1] ELSE IF j + 1 = p + 1 THEN x ELSE s[j]
      BY <1>1, <3>1
    <3> QED BY <1>0, <3>2, SMT
  <2> QED BY <1>0, <2>1, <2>2, <2>3, SMT
<1>6. u = s
  BY <1>3, <1>4, <1>5, SameItems
<1> QED BY <1>6 DEF u, a

LEMMA DeleteUndone ==
    ASSUME NEW s \in Seq(Item), NEW p \in 0..(Len(s) - 1)
    PROVE  Inserted(Removed(s, p), p, s[p + 1]) = s
<1> DEFINE b == Removed(s, p)
           w == Inserted(b, p, s[p + 1])
<1>0. Len(s) \in Nat /\ s[p + 1] \in Item
  BY SMT
<1>1. /\ b \in Seq(Item)
      /\ Len(b) = Len(s) - 1
      /\ \A j \in 1..(Len(s) - 1) : b[j] = IF j <= p THEN s[j] ELSE s[j + 1]
  <2>1. IsRemoved(b, s, p)
    BY RemovedItems
  <2> QED BY <2>1 DEF IsRemoved
<1>b. b \in Seq(Item)
  BY <1>1
<1> HIDE DEF b
<1>2. p \in 0..Len(b)
  BY <1>0, <1>1, SMT
<1>3. /\ w \in Seq(Item)
      /\ Len(w) = Len(b) + 1
      /\ \A j \in 1..(Len(b) + 1) :
            w[j] = IF j <= p THEN b[j] ELSE IF j = p + 1 THEN s[p + 1] ELSE b[j - 1]
  <2>1. IsInserted(w, b, p, s[p + 1])
    BY <1>0, <1>b, <1>2, InsertedItems
  <2> QED BY <2>1 DEF IsInserted
<1> HIDE DEF w
<1>4. Len(w) = Len(s)
  BY <1>0, <1>1, <1>3, SMT
<1>5. ASSUME NEW j \in 1..Len(s)
      PROVE  w[j] = s[j]
  <2>1. w[j] = IF j <= p THEN b[j] ELSE IF j = p + 1 THEN s[p + 1] ELSE b[j - 1]
    BY <1>0, <1>1, <1>3, SMT
  <2>2. j <= p => b[j] = s[j]
    BY <1>0, <1>1, SMT
  <2>3. j > p + 1 => b[j - 1] = s[j]
    BY <1>0, <1>1, SMT
  <2> QED BY <1>0, <2>1, <2>2, <2>3, SMT
<1>6. w = s
  BY <1>3, <1>4, <1>5, SameItems
<1> QED BY <1>6 DEF w, b

\* A move is a deletion and an insertion of what was deleted, and so is its inverse.
LEMMA MoveUndone ==
    ASSUME NEW s \in Seq(Item), NEW p \in 0..(Len(s) - 1), NEW t \in 0..(Len(s) - 1)
    PROVE  Moved(Moved(s, p, t), t, p) = s
<1> DEFINE x == s[p + 1]
           b == Removed(s, p)
           m == Inserted(b, t, x)
<1>0. Len(s) \in Nat /\ x \in Item /\ p \in Nat /\ t \in Nat
  BY SMT
<1>1. Moved(s, p, t) = m
  BY <1>0, SMT DEF Moved, SpliceStart
<1>2. b \in Seq(Item) /\ Len(b) = Len(s) - 1
  <2>1. IsRemoved(b, s, p)
    BY RemovedItems
  <2> QED BY <2>1 DEF IsRemoved
<1>3. Inserted(b, p, x) = s
  BY DeleteUndone
<1> HIDE DEF b, x
<1>4. t \in 0..Len(b)
  BY <1>0, <1>2, SMT
<1>5. m \in Seq(Item) /\ Len(m) = Len(s) /\ m[t + 1] = x
  <2>1. IsInserted(m, b, t, x)
    BY <1>0, <1>2, <1>4, InsertedItems
  <2>2. /\ m \in Seq(Item)
        /\ Len(m) = Len(b) + 1
        /\ \A j \in 1..(Len(b) + 1) : m[j] = IF j <= t THEN b[j] ELSE IF j = t + 1 THEN x ELSE b[j - 1]
    BY <2>1 DEF IsInserted
  <2>3. t + 1 \in 1..(Len(b) + 1) /\ ~(t + 1 <= t)
    BY <1>0, <1>2, <1>4, SMT
  <2>4. m[t + 1] = x
    BY <2>2, <2>3
  <2> QED BY <1>0, <1>2, <2>2, <2>4, SMT
<1>6. Removed(m, t) = b
  BY <1>0, <1>2, <1>4, InsertUndone
<1> HIDE DEF m
<1>7. Moved(m, t, p) = Inserted(Removed(m, t), p, m[t + 1])
  BY <1>0, <1>5, SMT DEF Moved, SpliceStart
<1> QED BY <1>1, <1>3, <1>5, <1>6, <1>7

LEMMA EditUndone ==
    ASSUME NEW s \in Seq(Item), NEW i \in 0..(Len(s) - 1), NEW v \in Editors
    PROVE  Rewritten(Rewritten(s, i, v), i, s[i + 1].val) = s
<1> DEFINE a == Rewritten(s, i, v)
           u == Rewritten(a, i, s[i + 1].val)
<1>0. Len(s) \in Nat /\ \A j \in 1..Len(s) : s[j] \in Item
  BY SMT
<1>1. s[i + 1].val \in {0} \cup Editors
  <2>1. s[i + 1] \in Item
    BY <1>0, SMT
  <2> QED BY <2>1 DEF Item
<1>2. /\ a \in Seq(Item)
      /\ Len(a) = Len(s)
      /\ \A j \in 1..Len(s) : a[j] = IF j = i + 1 THEN [s[j] EXCEPT !.val = v] ELSE s[j]
  <2>1. IsRewritten(a, s, i, v)
    BY RewrittenItems
  <2> QED BY <2>1 DEF IsRewritten
<1>a. a \in Seq(Item)
  BY <1>2
<1> HIDE DEF a
<1>3. /\ u \in Seq(Item)
      /\ Len(u) = Len(a)
      /\ \A j \in 1..Len(a) :
            u[j] = IF j = i + 1 THEN [a[j] EXCEPT !.val = s[i + 1].val] ELSE a[j]
  <2>1. IsRewritten(u, a, i, s[i + 1].val)
    BY <1>1, <1>a, <1>2, RewrittenItems
  <2> QED BY <2>1 DEF IsRewritten
<1> HIDE DEF u
<1>4. ASSUME NEW j \in 1..Len(s)
      PROVE  u[j] = s[j]
  <2>1. CASE j = i + 1
    <3>1. u[j] = [[s[j] EXCEPT !.val = v] EXCEPT !.val = s[j].val]
      BY <1>2, <1>3, <2>1
    <3>2. \A y \in Item : [[y EXCEPT !.val = v] EXCEPT !.val = y.val] = y
      BY DEF Item
    <3> QED BY <1>0, <3>1, <3>2
  <2>2. CASE j # i + 1
    BY <1>2, <1>3, <2>2
  <2> QED BY <2>1, <2>2
<1>5. u = s
  BY <1>2, <1>3, <1>4, SameItems
<1> QED BY <1>5 DEF u, a

-----------------------------------------------------------------------------
(* Every operation an editor makes, and its inverse. *)

IsDocument(doc) ==
    /\ HasList(doc)
    /\ doc.name \in {0} \cup Editors \cup Absent

Movement(e, p, t) ==
    [type |-> "move", root |-> "actions", index |-> Whole, pos |-> p, to |-> t,
     value |-> Missing, old |-> Missing, link |-> Missing, ts |-> clock[e]]
OnName(e, type, v, x) ==
    [type |-> type, root |-> "name", index |-> Whole, pos |-> 0, to |-> 0,
     value |-> v, old |-> x, link |-> Missing, ts |-> clock[e]]
OnLink(e, type, l) ==
    [type |-> type, root |-> "connections", index |-> Whole, pos |-> 0, to |-> 0,
     value |-> Missing, old |-> Missing, link |-> l, ts |-> clock[e]]

\* What an operation on the field keeps of the name.
OldName(doc) == IF doc.name \in Absent THEN doc.name ELSE [id |-> 0, val |-> doc.name]

LEMMA MovementsMade ==
    ASSUME NEW e \in Editors, NEW doc, NEW o \in Made("move", e, doc)
    PROVE  \E p, t \in 0..(Len(doc.actions) - 1) : o = Movement(e, p, t)
<1> DEFINE places == 0..(Len(doc.actions) - 1)
<1>1. PICK pt \in {qt \in places \X places : qt[1] # qt[2]} :
        o = [Plain("move", "actions", clock[e]) EXCEPT !.pos = pt[1], !.to = pt[2]]
  BY DEF Made, MadeAt
<1>2. pt[1] \in places /\ pt[2] \in places
  OBVIOUS
<1>3. o = Movement(e, pt[1], pt[2])
  BY <1>1 DEF Plain, Movement
<1> QED BY <1>2, <1>3

LEMMA OnNamesMade ==
    ASSUME NEW e \in Editors, NEW doc
    PROVE  /\ \A o \in Made("rename", e, doc) : o = OnName(e, "update", Mine(e), OldName(doc))
           /\ \A o \in Made("clear", e, doc) :
                 doc.name \notin Absent /\ o = OnName(e, "delete", Missing, OldName(doc))
<1>1. ASSUME NEW o \in Made("rename", e, doc)
      PROVE  o = OnName(e, "update", Mine(e), OldName(doc))
  <2>1. o = [Plain("update", "name", clock[e]) EXCEPT !.value = Mine(e), !.old = OldName(doc)]
    BY <1>1 DEF Made, MadeAt, OldName
  <2> QED BY <2>1 DEF Plain, OnName
<1>2. ASSUME NEW o \in Made("clear", e, doc)
      PROVE  doc.name \notin Absent /\ o = OnName(e, "delete", Missing, OldName(doc))
  <2>1. /\ doc.name \notin Absent
        /\ o = [Plain("delete", "name", clock[e]) EXCEPT !.old = [id |-> 0, val |-> doc.name]]
    BY <1>2 DEF Made, MadeAt
  <2> QED BY <2>1 DEF Plain, OnName, OldName
<1> QED BY <1>1, <1>2

LEMMA OnLinksMade ==
    ASSUME NEW e \in Editors, NEW doc
    PROVE  /\ \A o \in Made("connect", e, doc) : \E l \in Links : o = OnLink(e, "connect", l)
           /\ \A o \in Made("disconnect", e, doc) : \E l \in Links : o = OnLink(e, "disconnect", l)
<1>1. ASSUME NEW o \in Made("connect", e, doc)
      PROVE  \E l \in Links : o = OnLink(e, "connect", l)
  <2>1. PICK l \in Links : o = [Plain("connect", "connections", clock[e]) EXCEPT !.link = l]
    BY <1>1 DEF Made, MadeAt
  <2> QED BY <2>1 DEF Plain, OnLink
<1>2. ASSUME NEW o \in Made("disconnect", e, doc)
      PROVE  \E l \in Links : o = OnLink(e, "disconnect", l)
  <2>1. PICK l \in Links : o = [Plain("disconnect", "connections", clock[e]) EXCEPT !.link = l]
    BY <1>2 DEF Made, MadeAt
  <2> QED BY <2>1 DEF Plain, OnLink
<1> QED BY <1>1, <1>2

\* The inserted and the written items, and what is kept of a name.
LEMMA ValuesAre ==
    ASSUME Clocked, NEW e \in Editors, NEW doc, IsDocument(doc)
    PROVE  /\ clock[e] \in Nat
           /\ Fresh(e) \in Item
           /\ Mine(e) \in Item /\ Mine(e) \notin Absent /\ Mine(e).val = e
           /\ OldName(doc) \in Item \cup Absent
           /\ doc.name \notin Absent => OldName(doc) \notin Absent /\ OldName(doc).val = doc.name
           /\ doc.name \in Absent => OldName(doc) = doc.name
<1>1. clock[e] \in Nat /\ Fresh(e) \in Item /\ Mine(e) \in Item /\ Mine(e).val = e
  BY SMT DEF Clocked, Fresh, Mine, Item, Editors
<1>2. ASSUME doc.name \notin Absent
      PROVE  OldName(doc) \in Item /\ OldName(doc).val = doc.name
  BY <1>2 DEF OldName, IsDocument, Item
<1> QED BY <1>1, <1>2, AbsentAssumption DEF OldName

LEMMA AllAreOperations ==
    ASSUME Clocked, NEW e \in Editors, NEW doc, IsDocument(doc),
           NEW kind \in Kinds, NEW o \in Made(kind, e, doc)
    PROVE  o # Null /\ Kind(o) = kind
<1>1. CASE kind \in ListKinds
  BY <1>1, MadeIsOperation DEF IsDocument
<1>2. CASE kind = "move"
  <2>1. PICK p, t \in 0..(Len(doc.actions) - 1) : o = Movement(e, p, t)
    BY <1>2, MovementsMade
  <2>2. p \in Int /\ t \in Int
    BY SMT
  <2>3. o \in Operation
    BY <2>1, <2>2, ValuesAre DEF Movement, Operation, Whole, Absent
  <2> QED BY <1>2, <2>1, <2>3, NullAssumption DEF Kind, Movement
<1>3. CASE kind = "rename"
  <2>1. o = OnName(e, "update", Mine(e), OldName(doc))
    BY <1>3, OnNamesMade
  <2>2. o \in Operation
    BY <2>1, ValuesAre DEF OnName, Operation, Whole, Absent
  <2> QED BY <1>3, <2>1, <2>2, NullAssumption DEF Kind, OnName
<1>4. CASE kind = "clear"
  <2>1. o = OnName(e, "delete", Missing, OldName(doc))
    BY <1>4, OnNamesMade
  <2>2. o \in Operation
    BY <2>1, ValuesAre DEF OnName, Operation, Whole, Absent
  <2> QED BY <1>4, <2>1, <2>2, NullAssumption DEF Kind, OnName
<1>5. CASE kind \in {"connect", "disconnect"}
  <2>1. PICK l \in Links : o = OnLink(e, kind, l)
    BY <1>5, OnLinksMade
  <2>2. o \in Operation
    BY <1>5, <2>1, ValuesAre DEF OnLink, Operation, Whole, Absent
  <2> QED BY <1>5, <2>1, <2>2, NullAssumption DEF Kind, OnLink
<1> QED BY <1>1, <1>2, <1>3, <1>4, <1>5 DEF Kinds, ListKinds

\* What apply() does with them, whatever the list or the name.
LEMMA MovementApplied ==
    ASSUME NEW doc, NEW s, NEW e \in Editors, NEW p, NEW t
    PROVE  Apply(WithList(doc, s), Movement(e, p, t)) = WithList(doc, Moved(s, p, t))
  BY DEF Apply, ApplyToList, Movement, WithList

WithName(doc, m) == [actions |-> doc.actions, name |-> m, connections |-> doc.connections]

LEMMA OnNameApplied ==
    ASSUME NEW doc, NEW m, NEW e, NEW type, NEW v, NEW x
    PROVE  Apply(WithName(doc, m), OnName(e, type, v, x)) =
             WithName(doc, IF type = "delete" THEN Missing ELSE IF v \in Absent THEN v ELSE v.val)
  BY DEF Apply, ApplyToName, OnName, WithName

\* The inverses of a deletion and of an edit put the old item back.
Restoring(e, p, x) ==
    [type |-> "insert", root |-> "actions", index |-> Whole, pos |-> p, to |-> 0,
     value |-> x, old |-> Missing, link |-> Missing, ts |-> clock[e]]
Reverting(e, i, x) ==
    [type |-> "update", root |-> "actions", index |-> i, pos |-> 0, to |-> 0,
     value |-> x, old |-> Mine(e), link |-> Missing, ts |-> clock[e]]

LEMMA OldPutBack ==
    ASSUME NEW e \in Editors, NEW p, NEW x
    PROVE  /\ Invert(Deletion(e, p, x)) = Restoring(e, p, x)
           /\ Invert(Revision(e, p, x)) = Reverting(e, p, x)
<1>1. Invert(Deletion(e, p, x)) = Restoring(e, p, x)
  BY DEF Invert, Deletion, Restoring
<1>2. Invert(Revision(e, p, x)) = Reverting(e, p, x)
  BY DEF Invert, Revision, Reverting
<1> QED BY <1>1, <1>2

LEMMA MadeUndone ==
    ASSUME Clocked, NEW e \in Editors, NEW doc, IsDocument(doc),
           NEW kind \in UndoableKinds, NEW o \in Made(kind, e, doc)
    PROVE  Apply(Apply(doc, o), Invert(o)) = doc
<1> DEFINE s == doc.actions
<1>0. s \in Seq(Item) /\ doc = WithList(doc, s) /\ doc = WithName(doc, doc.name)
  BY DEF IsDocument, HasList, WithList, WithName
<1>1. CASE kind = "insert"
  <2>1. PICK p \in 0..Len(s) : o = Insertion(e, p)
    BY <1>1, InsertionsMade
  <2>2. Invert(o) = Deletion(e, p, Fresh(e))
    BY <2>1 DEF Invert, Insertion, Deletion
  <2>3. Apply(doc, o) = WithList(doc, Inserted(s, p, Fresh(e)))
    BY <1>0, <2>1, InsertionApplied
  <2>4. Apply(Apply(doc, o), Invert(o)) = WithList(doc, Removed(Inserted(s, p, Fresh(e)), p))
    BY <2>2, <2>3, DeletionApplied
  <2>5. Removed(Inserted(s, p, Fresh(e)), p) = s
    BY <1>0, ValuesAre, InsertUndone
  <2> QED BY <1>0, <2>4, <2>5
<1>2. CASE kind = "delete"
  <2>1. PICK p \in 0..(Len(s) - 1) : o = Deletion(e, p, s[p + 1])
    BY <1>2, DeletionsMade
  <2> DEFINE b == Removed(s, p)
             undo == Restoring(e, p, s[p + 1])
  <2>2. Invert(o) = undo
    BY <2>1, OldPutBack
  <2>3. Apply(doc, o) = WithList(doc, b)
    BY <1>0, <2>1, DeletionApplied
  <2>4. Apply(WithList(doc, b), undo) = WithList(doc, Inserted(b, p, s[p + 1]))
    BY DEF Apply, ApplyToList, Restoring, WithList
  <2>5. Inserted(b, p, s[p + 1]) = s
    BY <1>0, DeleteUndone
  <2> QED BY <1>0, <2>2, <2>3, <2>4, <2>5
<1>3. CASE kind = "move"
  <2>1. PICK p, t \in 0..(Len(s) - 1) : o = Movement(e, p, t)
    BY <1>3, MovementsMade
  <2>2. Invert(o) = Movement(e, t, p)
    BY <2>1 DEF Invert, Movement
  <2>3. Apply(doc, o) = WithList(doc, Moved(s, p, t))
    BY <1>0, <2>1, MovementApplied
  <2>4. Apply(Apply(doc, o), Invert(o)) = WithList(doc, Moved(Moved(s, p, t), t, p))
    BY <2>2, <2>3, MovementApplied
  <2>5. Moved(Moved(s, p, t), t, p) = s
    BY <1>0, MoveUndone
  <2> QED BY <1>0, <2>4, <2>5
<1>4. CASE kind = "edit"
  <2>1. PICK i \in 0..(Len(s) - 1) : o = Revision(e, i, s[i + 1])
    BY <1>4, RevisionsMade
  <2> DEFINE a == Rewritten(s, i, e)
             undo == Reverting(e, i, s[i + 1])
  <2>2. Invert(o) = undo
    BY <2>1, OldPutBack
  <2>3. i # Whole
    BY <1>0, SMT DEF Whole
  <2>4. Apply(doc, o) = WithList(doc, a)
    BY <1>0, <2>1, <2>3, RevisionApplied
  <2>5. Apply(WithList(doc, a), undo) = WithList(doc, Rewritten(a, i, s[i + 1].val))
    BY <2>3 DEF Apply, ApplyToList, Reverting, WithList
  <2>6. Rewritten(a, i, s[i + 1].val) = s
    BY <1>0, EditUndone
  <2> QED BY <1>0, <2>2, <2>4, <2>5, <2>6
<1>5. CASE kind = "rename"
  <2>1. o = OnName(e, "update", Mine(e), OldName(doc))
    BY <1>5, OnNamesMade
  <2>2. Invert(o) = OnName(e, "update", OldName(doc), Mine(e))
    BY <2>1 DEF Invert, OnName
  <2>3. Apply(doc, o) = WithName(doc, e)
    BY <1>0, <2>1, OnNameApplied, ValuesAre
  <2>4. Apply(WithName(doc, e), Invert(o)) =
          WithName(doc, IF OldName(doc) \in Absent THEN OldName(doc) ELSE OldName(doc).val)
    BY <2>2, OnNameApplied
  <2>5. (IF OldName(doc) \in Absent THEN OldName(doc) ELSE OldName(doc).val) = doc.name
    BY ValuesAre
  <2> QED BY <1>0, <2>3, <2>4, <2>5
<1>6. CASE kind = "clear"
  <2>1. doc.name \notin Absent /\ o = OnName(e, "delete", Missing, OldName(doc))
    BY <1>6, OnNamesMade
  <2>2. Invert(o) = OnName(e, "insert", OldName(doc), Missing)
    BY <2>1 DEF Invert, OnName
  <2>3. Apply(doc, o) = WithName(doc, Missing)
    BY <1>0, <2>1, OnNameApplied
  <2>4. Apply(WithName(doc, Missing), Invert(o)) =
          WithName(doc, IF OldName(doc) \in Absent THEN OldName(doc) ELSE OldName(doc).val)
    BY <2>2, OnNameApplied
  <2> QED BY <1>0, <2>1, <2>3, <2>4, ValuesAre
<1> QED BY <1>1, <1>2, <1>3, <1>4, <1>5, <1>6 DEF UndoableKinds, Kinds

-----------------------------------------------------------------------------
(* An editor who has not been told of the other's operation shows its own, *)
(* made on the document both began with.                                   *)

OwnOf(e) == IF op[e] = Null THEN base ELSE Apply(base, op[e])

OwnMade ==
    /\ Clocked
    /\ IsDocument(base)
    /\ op = [e \in Editors |-> op[e]]
    /\ DOMAIN shown = Editors
    /\ got \in [Editors -> BOOLEAN]
    /\ confirmed \in [Editors -> BOOLEAN]
    /\ \A e \in Editors : got[e] \/ shown[e] = OwnOf(e)
    /\ \A e \in Editors : op[e] # Null =>
         Kind(op[e]) \in Kinds /\ op[e] \in Made(Kind(op[e]), e, base)

LEMMA KindsKnown ==
    ASSUME NEW pair \in Pairs, NEW e \in Editors
    PROVE  pair[e] \in Kinds
  BY TransformAssumption DEF Editors

LEMMA OtherEditor ==
    /\ \A e \in Editors : Other(e) \in Editors /\ Other(e) # e
    /\ \A e, f \in Editors : f = e \/ f = Other(e)
    /\ \A e, f \in Editors : Other(f) = e => f = Other(e)
  BY SMT DEF Editors, Other

LEMMA InitClocked ==
    ASSUME Init
    PROVE  Clocked
<1>1. clock \in [Editors -> Times]
  BY DEF Init
<1>2. \A t \in Times : t \in Nat
  BY TransformAssumption
<1> QED BY <1>1, <1>2 DEF Clocked

LEMMA InitList ==
    ASSUME Init
    PROVE  HasList(base)
<1>1. PICK n \in 0..MaxLength, m \in {0, Missing}, c \in {<<>>} \cup {<<l>> : l \in Links} :
        base = [actions |-> [j \in 1..n |-> [id |-> j, val |-> 0]], name |-> m, connections |-> c]
  BY DEF Init
<1> DEFINE s == [j \in 1..n |-> [id |-> j, val |-> 0]]
<1>2. n \in Nat /\ \A j \in 1..n : j \in Int
  BY TransformAssumption, SMT
<1>3. s \in [1..n -> Item]
  BY <1>2 DEF Item
<1> HIDE DEF s
<1>4. s \in Seq(Item)
  BY <1>2, <1>3, SMT
<1>5. base.actions = s /\ base = WithList(base, s)
  BY <1>1 DEF WithList, s
<1> QED BY <1>4, <1>5 DEF HasList

LEMMA NotInformed ==
    ASSUME [Next]_vars, ~informed'
    PROVE  ~informed /\ \A e \in Editors : Make(e) => ~got[e]
<1>1. CASE UNCHANGED vars
  <2>1. ~informed
    BY <1>1 DEF vars
  <2> QED BY <2>1 DEF Make
<1>2. ASSUME NEW e \in Editors, Make(e) \/ Confirm(e) \/ Receive(e)
      PROVE  ~informed
  BY <1>2 DEF Make, Confirm, Receive
<1>3. \A e \in Editors : Make(e) => ~got[e]
  BY DEF Make
<1> QED BY <1>1, <1>2, <1>3 DEF Next

LEMMA OwnMadeStep ==
    ASSUME ~informed', OwnMade, [Next]_vars
    PROVE  OwnMade'
<1>1. CASE UNCHANGED vars
  BY <1>1 DEF OwnMade, OwnOf, vars, IsDocument, HasList, WithList, Clocked, Made
<1>2. ASSUME NEW e \in Editors, Make(e)
      PROVE  OwnMade'
  <2>1. PICK kind \in KindsOf(e) : \E o \in Made(kind, e, shown[e]) :
          /\ op' = [op EXCEPT ![e] = o]
          /\ shown' = [shown EXCEPT ![e] = Apply(@, o)]
    BY <1>2 DEF Make
  <2>2. PICK o \in Made(kind, e, shown[e]) :
          /\ op' = [op EXCEPT ![e] = o]
          /\ shown' = [shown EXCEPT ![e] = Apply(@, o)]
    BY <2>1
  <2>3. op[e] = Null /\ ~got[e] /\ UNCHANGED <<base, got, confirmed, clock>>
    BY <1>2, NotInformed DEF Make
  <2>4. shown[e] = base
    BY <2>3 DEF OwnMade, OwnOf
  <2>5. kind \in Kinds
    BY KindsKnown DEF KindsOf
  <2>6. o # Null /\ Kind(o) = kind
    BY <2>2, <2>4, <2>5, AllAreOperations DEF OwnMade
  <2>7. /\ op'[e] = o /\ shown'[e] = Apply(base, o)
        /\ \A d \in Editors : d # e => op'[d] = op[d] /\ shown'[d] = shown[d]
        /\ op' = [d \in Editors |-> op'[d]]
        /\ DOMAIN shown' = Editors
    BY <2>2, <2>4 DEF OwnMade
  <2>8. \A d \in Editors : got'[d] \/ shown'[d] = OwnOf(d)'
    BY <2>3, <2>6, <2>7 DEF OwnMade, OwnOf
  <2>9. \A d \in Editors : op'[d] # Null =>
          Kind(op'[d]) \in Kinds /\ op'[d] \in Made(Kind(op'[d]), d, base)
    <3> HIDE DEF Made
    <3>1. Kind(op'[e]) = kind /\ op'[e] \in Made(kind, e, base)
      BY <2>2, <2>4, <2>6, <2>7
    <3> QED BY <2>5, <2>7, <3>1 DEF OwnMade
  <2>10. \A d \in Editors : op'[d] # Null =>
           Kind(op'[d]) \in Kinds /\ op'[d] \in MadeAt(Kind(op'[d]), d, base', clock'[d])
    BY <2>3, <2>9 DEF Made
  <2> QED BY <2>3, <2>7, <2>8, <2>10 DEF OwnMade, IsDocument, HasList, WithList, Clocked, Made
<1>3. ASSUME NEW e \in Editors, Confirm(e)
      PROVE  OwnMade'
  BY <1>3 DEF Confirm, OwnMade, OwnOf, IsDocument, HasList, WithList, Clocked, Made
<1>4. ASSUME NEW e \in Editors, Receive(e)
      PROVE  OwnMade'
  <2>1. /\ got' = [got EXCEPT ![e] = TRUE]
        /\ UNCHANGED <<base, op, confirmed, clock>>
        /\ DOMAIN shown' = DOMAIN shown
        /\ \A d \in Editors : d # e => shown'[d] = shown[d]
    BY <1>4 DEF Receive, OwnMade
  <2>2. got'[e] /\ \A d \in Editors : d # e => got'[d] = got[d]
    BY <2>1 DEF OwnMade
  <2>3. \A d \in Editors : got'[d] \/ shown'[d] = OwnOf(d)'
    BY <2>1, <2>2 DEF OwnMade, OwnOf
  <2>4. got' \in [Editors -> BOOLEAN]
    BY <2>1 DEF OwnMade
  <2> QED BY <2>1, <2>3, <2>4 DEF OwnMade, IsDocument, HasList, WithList, Clocked, Made
<1> QED BY <1>1, <1>2, <1>3, <1>4 DEF Next

LEMMA OwnMadeAlways == Spec => [](informed \/ OwnMade)
<1>1. Init => informed \/ OwnMade
  <2> SUFFICES ASSUME Init PROVE OwnMade
    OBVIOUS
  <2>1. HasList(base)
    BY InitList
  <2>2. base.name \in {0} \cup Editors \cup Absent
    BY DEF Init, Absent
  <2>3. \A e \in Editors : op[e] = Null /\ shown[e] = base
    BY DEF Init
  <2>4. Clocked
    BY InitClocked
  <2> QED BY <2>1, <2>2, <2>3, <2>4 DEF Init, OwnMade, OwnOf, IsDocument
<1>2. (informed \/ OwnMade) /\ [Next]_vars => (informed \/ OwnMade)'
  BY OwnMadeStep, NotInformed
<1> QED BY <1>1, <1>2, PTL DEF Spec

\* Whatever the length of the list, undoing an insertion, a deletion, a move, an edit, a
\* rename or a clearing at once restores the document (invert(),
\* operational-transform-service.ts:594); links are not undone.
THEOREM UndoAlwaysRestores == Spec => []UndoRestoresItems
<1>1. informed \/ OwnMade => UndoRestoresItems
  BY MadeUndone DEF OwnMade, UndoRestoresItems, UndoneOf
<1> QED BY <1>1, OwnMadeAlways, PTL

-----------------------------------------------------------------------------
(* The path of an item of the list. *)

\* An item that is behind an insertion is found one further.
LEMMA FollowsInsertion ==
    ASSUME NEW s \in Seq(Item), NEW p \in 0..Len(s), NEW x \in Item, NEW i \in 0..(Len(s) - 1)
    PROVE  /\ AdjustPath(i, p) = IF p <= i THEN i + 1 ELSE i
           /\ AdjustPath(i, p) \in 0..(Len(Inserted(s, p, x)) - 1)
           /\ Inserted(s, p, x)[AdjustPath(i, p) + 1] = s[i + 1]
<1> DEFINE a == Inserted(s, p, x)
           k == AdjustPath(i, p)
<1>0. Len(s) \in Nat /\ i \in Nat /\ p \in Nat /\ i + 1 \in 1..Len(s) /\ i # Whole
  BY SMT DEF Whole
<1>1. /\ Len(a) = Len(s) + 1
      /\ \A j \in 1..(Len(s) + 1) : a[j] = IF j <= p THEN s[j] ELSE IF j = p + 1 THEN x ELSE s[j - 1]
  <2>1. IsInserted(a, s, p, x)
    BY InsertedItems
  <2> QED BY <2>1 DEF IsInserted
<1>2. k = IF p <= i THEN i + 1 ELSE i
  BY <1>0, SMT DEF AdjustPath
<1> HIDE DEF a, k
<1>3. k \in 0..(Len(a) - 1)
  BY <1>0, <1>1, <1>2, SMT
<1>4. CASE p <= i
  <2>1. k + 1 \in 1..(Len(s) + 1) /\ (k + 1) - 1 = i + 1 /\ k + 1 > p + 1
    BY <1>0, <1>2, <1>4, SMT
  <2>2. a[k + 1] = s[(k + 1) - 1]
    BY <1>0, <1>1, <1>2, <2>1, SMT
  <2> QED BY <1>2, <1>3, <2>1, <2>2 DEF a, k
<1>5. CASE i < p
  <2>1. k + 1 \in 1..(Len(s) + 1) /\ k + 1 = i + 1 /\ k + 1 <= p
    BY <1>0, <1>2, <1>5, SMT
  <2>2. a[k + 1] = s[i + 1]
    BY <1>1, <2>1
  <2> QED BY <1>2, <1>3, <2>2 DEF a, k
<1> QED BY <1>0, <1>4, <1>5, SMT

LEMMA PathKept ==
    ASSUME Clocked, NEW e \in Editors, NEW doc, IsDocument(doc),
           NEW kind \in FollowedKinds, NEW o \in Made(kind, e, doc),
           NEW i \in 0..(Len(doc.actions) - 1)
    PROVE  PathOf(doc, i, o)
<1> DEFINE s == doc.actions
<1>0. /\ s \in Seq(Item) /\ doc = WithList(doc, s) /\ doc = WithName(doc, doc.name)
      /\ Len(s) \in Nat /\ i \in Nat /\ i + 1 \in 1..Len(s) /\ i # Whole
  BY SMT DEF IsDocument, HasList, WithList, WithName, Whole
<1>1. CASE kind = "insert"
  <2>1. PICK p \in 0..Len(s) : o = Insertion(e, p)
    BY <1>1, InsertionsMade
  <2>2. ~Deletes(o, s[i + 1])
    BY <2>1 DEF Deletes, Insertion
  <2>3. TransformPath(i, o) = [exists |-> TRUE, index |-> AdjustPath(i, p)]
    BY <2>1 DEF TransformPath, Insertion
  <2>4. Apply(doc, o) = WithList(doc, Inserted(s, p, Fresh(e)))
    BY <1>0, <2>1, InsertionApplied
  <2>5. Apply(doc, o).actions = Inserted(s, p, Fresh(e))
    BY <2>4 DEF WithList
  <2>a. Fresh(e) \in Item
    BY ValuesAre
  <2>6. Inserted(s, p, Fresh(e))[AdjustPath(i, p) + 1] = s[i + 1]
    <3> HIDE DEF s
    <3> QED BY <1>0, <2>a, FollowsInsertion
  <2>7. TransformPath(i, o).index = AdjustPath(i, p) /\ TransformPath(i, o).exists
    BY <2>3
  <2> QED BY <2>2, <2>5, <2>6, <2>7 DEF PathOf
<1>2. CASE kind = "edit"
  <2>1. PICK h \in 0..(Len(s) - 1) : o = Revision(e, h, s[h + 1])
    BY <1>2, RevisionsMade
  <2>2. ~Deletes(o, s[i + 1])
    BY <2>1 DEF Deletes, Revision
  <2>3. TransformPath(i, o) = [exists |-> TRUE, index |-> i]
    BY <2>1 DEF TransformPath, Revision
  <2>4. h # Whole
    BY <1>0, SMT DEF Whole
  <2>5. Apply(doc, o).actions = Rewritten(s, h, e)
    <3>1. Apply(doc, o) = WithList(doc, Rewritten(s, h, e))
      BY <1>0, <2>1, <2>4, RevisionApplied
    <3> QED BY <3>1 DEF WithList
  <2>6. Rewritten(s, h, e)[i + 1] = IF i + 1 = h + 1 THEN [s[i + 1] EXCEPT !.val = e] ELSE s[i + 1]
    <3>1. IsRewritten(Rewritten(s, h, e), s, h, e)
      BY <1>0, RewrittenItems
    <3> QED BY <1>0, <3>1 DEF IsRewritten
  <2>7. s[i + 1] \in Item
    BY <1>0, SMT
  <2>8. Rewritten(s, h, e)[i + 1].id = s[i + 1].id
    BY <2>6, <2>7 DEF Item
  <2>9. TransformPath(i, o).index = i /\ TransformPath(i, o).exists
    BY <2>3
  <2> QED BY <2>2, <2>5, <2>8, <2>9 DEF PathOf
<1>3. CASE kind \notin {"insert", "edit"}
  <2>1. o.root # "actions"
    <3>1. CASE kind \in {"rename", "clear"}
      BY <3>1, OnNamesMade DEF OnName
    <3>2. CASE kind \in {"connect", "disconnect"}
      BY <3>2, OnLinksMade DEF OnLink
    <3> QED BY <1>3, <3>1, <3>2 DEF FollowedKinds, Kinds
  <2>2. Apply(doc, o).actions = s
    BY <1>0, <2>1 DEF Apply, WithList
  <2>3. TransformPath(i, o).index = i /\ TransformPath(i, o).exists
    BY <2>1 DEF TransformPath
  <2>4. ~Deletes(o, s[i + 1])
    BY <2>1 DEF Deletes
  <2> QED BY <2>2, <2>3, <2>4 DEF PathOf
<1> QED BY <1>1, <1>2, <1>3

\* Whatever the length of the list, the path of an item leads to it after an insertion or
\* an edit (transformPath, operational-transform-service.ts:809).
THEOREM PathsFollow == Spec => []PathFollowsKept
<1>1. informed \/ OwnMade => PathFollowsKept
  BY PathKept DEF OwnMade, PathFollowsKept, FollowedOf
<1> QED BY <1>1, OwnMadeAlways, PTL

-----------------------------------------------------------------------------
(* Two operations of one editor, one after the other. *)

LEMMA RewrittenTwice ==
    ASSUME NEW s \in Seq(Item), NEW i \in 0..(Len(s) - 1), NEW v \in Editors
    PROVE  Rewritten(Rewritten(s, i, v), i, v) = Rewritten(s, i, v)
<1> DEFINE a == Rewritten(s, i, v)
           u == Rewritten(a, i, v)
<1>0. Len(s) \in Nat /\ \A j \in 1..Len(s) : s[j] \in Item
  BY SMT
<1>1. /\ a \in Seq(Item)
      /\ Len(a) = Len(s)
      /\ \A j \in 1..Len(s) : a[j] = IF j = i + 1 THEN [s[j] EXCEPT !.val = v] ELSE s[j]
  <2>1. IsRewritten(a, s, i, v)
    BY RewrittenItems
  <2> QED BY <2>1 DEF IsRewritten
<1>a. a \in Seq(Item)
  BY <1>1
<1> HIDE DEF a
<1>2. /\ u \in Seq(Item)
      /\ Len(u) = Len(a)
      /\ \A j \in 1..Len(a) : u[j] = IF j = i + 1 THEN [a[j] EXCEPT !.val = v] ELSE a[j]
  <2>1. IsRewritten(u, a, i, v)
    BY <1>a, <1>1, RewrittenItems
  <2> QED BY <2>1 DEF IsRewritten
<1> HIDE DEF u
<1>3. ASSUME NEW j \in 1..Len(s)
      PROVE  u[j] = a[j]
  <2>1. CASE j = i + 1
    <3>1. u[j] = [[s[j] EXCEPT !.val = v] EXCEPT !.val = v] /\ a[j] = [s[j] EXCEPT !.val = v]
      BY <1>1, <1>2, <2>1
    <3>2. \A y \in Item : [[y EXCEPT !.val = v] EXCEPT !.val = v] = [y EXCEPT !.val = v]
      BY DEF Item
    <3> QED BY <1>0, <3>1, <3>2
  <2>2. CASE j # i + 1
    BY <1>1, <1>2, <2>2
  <2> QED BY <2>1, <2>2
<1>4. u = a
  BY <1>1, <1>2, <1>3, SameItems
<1> QED BY <1>4 DEF u, a

LEMMA NamesComposed ==
    ASSUME NEW e \in Editors, NEW doc, IsDocument(doc),
           NEW k \in {"rename", "clear"}, NEW l \in {"rename", "clear"},
           NEW o \in Made(k, e, doc), NEW n \in Made(l, e, Apply(doc, o))
    PROVE  Apply(doc, Compose(o, n)) = Apply(Apply(doc, o), n)
<1>0. doc = WithName(doc, doc.name)
  BY DEF IsDocument, HasList, WithList, WithName
<1>1. PICK type, v, x :
        /\ type \in {"update", "delete"} /\ v \in {Mine(e), Missing}
        /\ o = OnName(e, type, v, x)
        /\ type = "update" => v = Mine(e)
  BY OnNamesMade
<1>2. PICK type2, v2, y :
        /\ type2 \in {"update", "delete"} /\ v2 \in {Mine(e), Missing}
        /\ n = OnName(e, type2, v2, y)
        /\ type2 = "update" => v2 = Mine(e)
  BY OnNamesMade
<1>3. PICK m : Apply(doc, o) = WithName(doc, m)
  BY <1>0, <1>1, OnNameApplied
<1>4. Apply(Apply(doc, o), n) = Apply(doc, n)
  BY <1>0, <1>2, <1>3, OnNameApplied
<1>5. CASE type = "update" /\ type2 = "update"
  <2>1. Compose(o, n) = OnName(e, "update", Mine(e), x)
    BY <1>1, <1>2, <1>5 DEF Compose, OnName
  <2>2. Apply(doc, Compose(o, n)) = Apply(doc, n)
    BY <1>0, <1>2, <1>5, <2>1, OnNameApplied
  <2> QED BY <1>4, <2>2
<1>6. CASE ~(type = "update" /\ type2 = "update")
  <2>1. Compose(o, n) = n
    BY <1>1, <1>2, <1>6 DEF Compose, OnName
  <2> QED BY <1>4, <2>1
<1> QED BY <1>5, <1>6

LEMMA EditsComposed ==
    ASSUME NEW e \in Editors, NEW doc, IsDocument(doc),
           NEW o \in Made("edit", e, doc), NEW n \in Made("edit", e, Apply(doc, o)),
           PathsEqual(o, n)
    PROVE  Apply(doc, Compose(o, n)) = Apply(Apply(doc, o), n)
<1> DEFINE s == doc.actions
           t == Apply(doc, o).actions
<1>0. s \in Seq(Item) /\ doc = WithList(doc, s)
  BY DEF IsDocument, HasList
<1>1. PICK i \in 0..(Len(s) - 1) : o = Revision(e, i, s[i + 1])
  BY RevisionsMade
<1>2. PICK h \in 0..(Len(t) - 1) : n = Revision(e, h, t[h + 1])
  BY RevisionsMade
<1>3. h = i /\ i # Whole
  <2>1. h = i
    BY <1>1, <1>2 DEF PathsEqual, Revision
  <2>2. i # Whole
    BY <1>0, SMT DEF Whole
  <2> QED BY <2>1, <2>2
<1>4. Compose(o, n) = o
  <2>1. o.type = "update" /\ n.type = "update" /\ n.value = o.value
    BY <1>1, <1>2 DEF Revision
  <2>2. Compose(o, n) = [o EXCEPT !.value = o.value]
    BY <2>1 DEF Compose
  <2>3. [o EXCEPT !.value = o.value] = o
    BY <1>1 DEF Revision
  <2> QED BY <2>2, <2>3
<1>5. Apply(doc, o) = WithList(doc, Rewritten(s, i, e))
  BY <1>0, <1>1, <1>3, RevisionApplied
<1>6. Apply(Apply(doc, o), n) = WithList(doc, Rewritten(Rewritten(s, i, e), i, e))
  BY <1>2, <1>3, <1>5, RevisionApplied
<1>7. Rewritten(Rewritten(s, i, e), i, e) = Rewritten(s, i, e)
  BY <1>0, RewrittenTwice
<1> QED BY <1>4, <1>5, <1>6, <1>7

\* Whatever the length of the list, two operations of one editor on the field or on one
\* item compose to what they do one after the other (compose(),
\* operational-transform-service.ts:546).
THEOREM ComposeAlwaysAgrees == Spec => []ComposeAgreesOnTexts
<1>0. ASSUME NEW pair \in ComposedPairs
      PROVE  \/ pair[1] \in {"rename", "clear"} /\ pair[2] \in {"rename", "clear"}
             \/ pair[1] = "edit" /\ pair[2] = "edit"
             \/ pair[1] = "insert" /\ pair[2] = "edit"
             \/ pair[1] = "edit" /\ pair[2] = "insert"
  BY <1>0 DEF ComposedPairs
<1>1. informed \/ OwnMade => ComposeAgreesOnTexts
  <2> SUFFICES ASSUME OwnMade, ~informed, NEW e \in Editors, op[e] # Null, ~got[e],
                      NEW pair \in ComposedPairs, pair[1] = Kind(op[e]),
                      NEW next \in Made(pair[2], e, shown[e]), PathsEqual(op[e], next)
               PROVE  Apply(base, Compose(op[e], next)) = Apply(shown[e], next)
    BY DEF ComposeAgreesOnTexts, ComposedOf
  <2>1. shown[e] = Apply(base, op[e]) /\ IsDocument(base)
    BY DEF OwnMade, OwnOf
  <2>2. op[e] \in Made(pair[1], e, base)
    BY DEF OwnMade
  <2>3. CASE pair[1] \in {"rename", "clear"} /\ pair[2] \in {"rename", "clear"}
    BY <2>1, <2>2, <2>3, NamesComposed
  <2>4. CASE pair[1] = "edit" /\ pair[2] = "edit"
    BY <2>1, <2>2, <2>4, EditsComposed
  <2>5. CASE pair[1] = "insert" /\ pair[2] = "edit"
    <3>1. PICK p : op[e] = Insertion(e, p)
      BY <2>2, <2>5, InsertionsMade
    <3>2. PICK i \in 0..(Len(shown[e].actions) - 1) : next = Revision(e, i, shown[e].actions[i + 1])
      BY <2>5, RevisionsMade
    <3>3. i # Whole
      BY <3>2, SMT DEF Whole
    <3> QED BY <3>1, <3>2, <3>3 DEF PathsEqual, Insertion, Revision
  <2>6. CASE pair[1] = "edit" /\ pair[2] = "insert"
    <3>1. PICK p : next = Insertion(e, p)
      BY <2>6, InsertionsMade
    <3>2. PICK i \in 0..(Len(base.actions) - 1) : op[e] = Revision(e, i, base.actions[i + 1])
      BY <2>2, <2>6, RevisionsMade
    <3>3. i # Whole
      BY <3>2, SMT DEF Whole
    <3> QED BY <3>1, <3>2, <3>3 DEF PathsEqual, Insertion, Revision
  <2> QED BY <1>0, <2>3, <2>4, <2>5, <2>6
<1> QED BY <1>1, OwnMadeAlways, PTL

-----------------------------------------------------------------------------
(* The editors: what each shows is what it has made and been told of, in   *)
(* its own order.                                                          *)

ViewOf(e) ==
    IF ~got[e] THEN OwnOf(e)
    ELSE IF op[e] = Null THEN Apply(base, op[Other(e)])
    ELSE Apply(OwnOf(e), Transform(op[e], op[Other(e)])[2])

MadeOnBase ==
    \A e \in Editors : op[e] # Null =>
        /\ Kind(op[e]) \in ListKinds
        /\ op[e] \in Made(Kind(op[e]), e, base)
PairMade ==
    op[1] # Null /\ op[2] # Null => Kind(op[1]) = "insert" \/ Kind(op[2]) = "insert"

Viewed ==
    /\ Clocked
    /\ HasList(base)
    /\ op = [e \in Editors |-> op[e]]
    /\ shown = [e \in Editors |-> ViewOf(e)]
    /\ got \in [Editors -> BOOLEAN]
    /\ confirmed = [e \in Editors |-> FALSE]
    /\ \A e \in Editors : got[e] => op[Other(e)] # Null
    /\ MadeOnBase
    /\ PairMade

LEMMA InitViewed ==
    ASSUME Init
    PROVE  Viewed
<1>1. \A e \in Editors : op[e] = Null /\ got[e] = FALSE /\ shown[e] = base
  BY DEF Init
<1>2. shown = [e \in Editors |-> ViewOf(e)]
  BY <1>1 DEF Init, ViewOf, OwnOf
<1>3. Clocked
  BY InitClocked
<1>4. HasList(base) /\ MadeOnBase /\ PairMade /\ \A e \in Editors : got[e] => op[Other(e)] # Null
  BY <1>1, InitList, OtherEditor DEF MadeOnBase, PairMade, Editors
<1>5. /\ op = [e \in Editors |-> op[e]]
      /\ got \in [Editors -> BOOLEAN]
      /\ confirmed = [e \in Editors |-> FALSE]
  BY DEF Init
<1> QED BY <1>2, <1>3, <1>4, <1>5 DEF Viewed

\* An operation stays as it was made, and a save that is answered stays so.
LEMMA StillMergeable ==
    ASSUME OwnMade, [Next]_vars, Mergeable'
    PROVE  Mergeable
<1>0. ~informed /\ ~wired
  BY NotInformed DEF Mergeable, Next, Make, Confirm, Receive, vars
<1>1. \A e \in Editors : /\ op[e] # Null => op'[e] = op[e]
                         /\ confirmed[e] => confirmed'[e]
  BY DEF OwnMade, Next, Make, Confirm, Receive, vars
<1> QED BY <1>0, <1>1 DEF Mergeable

LEMMA MakeViewed ==
    ASSUME OwnMade, Viewed, NEW e \in Editors, Make(e), Mergeable'
    PROVE  Viewed'
<1> DEFINE f == Other(e)
<1>1. PICK kind \in KindsOf(e) :
        /\ Paired(e, kind)
        /\ \E o \in Made(kind, e, shown[e]) :
              /\ op' = [op EXCEPT ![e] = o]
              /\ shown' = [shown EXCEPT ![e] = Apply(@, o)]
  BY DEF Make
<1>2. PICK o \in Made(kind, e, shown[e]) :
        /\ op' = [op EXCEPT ![e] = o]
        /\ shown' = [shown EXCEPT ![e] = Apply(@, o)]
  BY <1>1
<1>3. /\ op[e] = Null /\ ~got[e]
      /\ base' = base /\ got' = got /\ confirmed' = confirmed /\ clock' = clock
  BY DEF Make, Mergeable
<1>4. f \in Editors /\ f # e /\ Other(f) = e /\ \A d \in Editors : d = e \/ d = f
  BY OtherEditor, SMT DEF Editors, Other
<1> HIDE DEF f
<1>5. ~got[f]
  BY <1>3, <1>4 DEF Viewed
<1>6. shown[e] = base
  BY <1>3 DEF Viewed, ViewOf, OwnOf
<1>7. kind \in Kinds
  BY KindsKnown DEF KindsOf
<1>8. o # Null /\ Kind(o) = kind
  BY <1>2, <1>6, <1>7, AllAreOperations DEF OwnMade
<1>9. op'[e] = o /\ op'[f] = op[f] /\ op' = [d \in Editors |-> op'[d]]
  BY <1>2, <1>4 DEF Viewed
<1>10. kind \in ListKinds
  BY <1>8, <1>9 DEF Mergeable
<1>11. shown' = [d \in Editors |-> ViewOf(d)']
  <2>1. shown'[e] = Apply(base, o) /\ ViewOf(e)' = Apply(base, o)
    BY <1>2, <1>3, <1>6, <1>8, <1>9 DEF Viewed, ViewOf, OwnOf
  <2>2. shown'[f] = shown[f] /\ ViewOf(f)' = ViewOf(f) /\ shown[f] = ViewOf(f)
    BY <1>2, <1>3, <1>4, <1>5, <1>9 DEF Viewed, ViewOf, OwnOf
  <2>3. DOMAIN shown' = Editors /\ shown' = [d \in DOMAIN shown' |-> shown'[d]]
    BY <1>2 DEF Viewed
  <2>4. \A d \in Editors : shown'[d] = ViewOf(d)'
    BY <1>4, <2>1, <2>2
  <2> QED BY <2>3, <2>4
<1>12. MadeOnBase'
  <2>1. \A d \in Editors : op'[d] # Null =>
          Kind(op'[d]) \in ListKinds /\ op'[d] \in Made(Kind(op'[d]), d, base)
    BY <1>2, <1>3, <1>4, <1>6, <1>10, <1>8, <1>9 DEF Viewed, MadeOnBase
  <2> QED BY <1>3, <2>1 DEF MadeOnBase, Made
<1>13. PairMade'
  BY DEF Mergeable, PairMade, Editors
<1>14. \A d \in Editors : got'[d] => op'[Other(d)] # Null
  BY <1>3, <1>4, <1>5
<1> QED BY <1>3, <1>9, <1>11, <1>12, <1>13, <1>14 DEF Viewed, HasList, WithList, Clocked

LEMMA ReceiveViewed ==
    ASSUME ~wired, Viewed, NEW e \in Editors, Receive(e)
    PROVE  Viewed'
<1> DEFINE f == Other(e)
<1>1. f \in Editors /\ f # e /\ Other(f) = e /\ \A d \in Editors : d = e \/ d = f
  BY OtherEditor, SMT DEF Editors, Other
<1>2. /\ op[f] # Null
      /\ ~got[e]
      /\ got' = [got EXCEPT ![e] = TRUE]
      /\ shown' = [shown EXCEPT ![e] =
                     Apply(@, IF op[e] # Null /\ ~confirmed[e] THEN Transform(op[e], op[f])[2] ELSE op[f])]
      /\ base' = base /\ op' = op /\ confirmed' = confirmed /\ clock' = clock
  BY DEF Receive, AsSent
<1> HIDE DEF f
<1>3. ~confirmed[e] /\ shown[e] = OwnOf(e) /\ DOMAIN shown = Editors
  BY <1>2 DEF Viewed, ViewOf
<1>4. got'[e] = TRUE /\ got'[f] = got[f] /\ got' \in [Editors -> BOOLEAN]
  BY <1>1, <1>2 DEF Viewed
<1>5. shown' = [d \in Editors |-> ViewOf(d)']
  <2>1. shown'[e] = Apply(shown[e], IF op[e] # Null THEN Transform(op[e], op[f])[2] ELSE op[f])
    BY <1>2, <1>3
  <2>2. ViewOf(e)' = IF op[e] = Null THEN Apply(base, op[f]) ELSE Apply(OwnOf(e), Transform(op[e], op[f])[2])
    BY <1>2, <1>4 DEF ViewOf, OwnOf, f
  <2>3. shown'[e] = ViewOf(e)'
    BY <1>3, <2>1, <2>2 DEF OwnOf
  <2>4. shown'[f] = shown[f] /\ ViewOf(f)' = ViewOf(f) /\ shown[f] = ViewOf(f)
    BY <1>1, <1>2, <1>4 DEF Viewed, ViewOf, OwnOf
  <2>5. DOMAIN shown' = Editors /\ shown' = [d \in DOMAIN shown' |-> shown'[d]]
    BY <1>2, <1>3 DEF Viewed
  <2>6. \A d \in Editors : shown'[d] = ViewOf(d)'
    BY <1>1, <2>3, <2>4
  <2> QED BY <2>5, <2>6
<1>6. \A d \in Editors : got'[d] => op'[Other(d)] # Null
  BY <1>1, <1>2, <1>4 DEF Viewed, f
<1> QED BY <1>2, <1>4, <1>5, <1>6 DEF Viewed, HasList, WithList, MadeOnBase, PairMade, Clocked, Made

LEMMA StepViewed ==
    ASSUME OwnMade, Viewed, [Next]_vars, Mergeable'
    PROVE  Viewed'
<1>1. CASE UNCHANGED vars
  BY <1>1 DEF Viewed, vars, ViewOf, OwnOf, HasList, WithList, MadeOnBase, PairMade, Clocked, Made
<1>2. ASSUME NEW e \in Editors, Make(e)
      PROVE  Viewed'
  BY <1>2, MakeViewed
<1>3. ASSUME NEW e \in Editors, Confirm(e)
      PROVE  Viewed'
  <2>1. op'[e] # Null /\ confirmed'[e]
    BY <1>3 DEF Confirm, OwnMade
  <2> QED BY <2>1 DEF Mergeable
<1>4. ASSUME NEW e \in Editors, Receive(e)
      PROVE  Viewed'
  <2>1. ~wired
    BY <1>4 DEF Receive, Mergeable
  <2> QED BY <1>4, <2>1, ReceiveViewed
<1> QED BY <1>1, <1>2, <1>3, <1>4 DEF Next

LEMMA ViewsConverge ==
    ASSUME Viewed, ~Tied
    PROVE  Converges
<1> SUFFICES ASSUME Delivered
             PROVE  shown[1] = shown[2]
  BY DEF Converges
<1>0. 1 \in Editors /\ 2 \in Editors /\ Other(1) = 2 /\ Other(2) = 1
  BY SMT DEF Editors, Other
<1>1. /\ shown[1] = ViewOf(1) /\ shown[2] = ViewOf(2)
      /\ got[1] = (op[2] # Null) /\ got[2] = (op[1] # Null)
  BY <1>0 DEF Viewed, Delivered
<1>2. CASE op[1] = Null \/ op[2] = Null
  BY <1>0, <1>1, <1>2 DEF ViewOf, OwnOf
<1>3. CASE op[1] # Null /\ op[2] # Null
  <2>1. /\ HasList(base)
        /\ Kind(op[1]) \in ListKinds /\ op[1] \in Made(Kind(op[1]), 1, base)
        /\ Kind(op[2]) \in ListKinds /\ op[2] \in Made(Kind(op[2]), 2, base)
        /\ Kind(op[1]) = "insert" \/ Kind(op[2]) = "insert"
        /\ Clocked
    BY <1>0, <1>3 DEF Viewed, MadeOnBase, PairMade
  <2>a. Kind(op[1]) = "insert" /\ Kind(op[2]) = "insert" =>
           op[1].pos # op[2].pos \/ clock[1] # clock[2]
    BY <1>3 DEF Tied, Editors
  <2>2. Agree(base, op[1], op[2])
    <3>1. CASE Kind(op[1]) = "insert"
      BY <1>0, <2>1, <2>a, <3>1, MadeAgree
    <3>2. CASE Kind(op[2]) = "insert"
      BY <1>0, <2>1, <2>a, <3>2, MadeAgree
    <3> QED BY <2>1, <3>1, <3>2
  <2> QED BY <1>0, <1>1, <1>3, <2>2 DEF ViewOf, OwnOf, Agree
<1> QED BY <1>2, <1>3

\* What holds of the two views.
MergeInv == (informed \/ OwnMade) /\ (Mergeable => Viewed)

LEMMA MergeAlways == Spec => []MergeInv
<1>1. Init => (Mergeable => Viewed)
  BY InitViewed
<1>2. MergeInv /\ [Next]_vars => (Mergeable => Viewed)'
  <2> SUFFICES ASSUME MergeInv, [Next]_vars, Mergeable' PROVE Viewed'
    OBVIOUS
  <2>1. ~informed
    BY NotInformed DEF Mergeable
  <2> QED BY <2>1, StepViewed, StillMergeable DEF MergeInv
<1> QED BY <1>1, <1>2, OwnMadeAlways, PTL DEF Spec, MergeInv

\* Two editors of a list of any length end with one document, when their operations are
\* on the list and one is an insertion, but for two insertions at one place and time:
\* transform() is right about insertions (operational-transform-service.ts:26).
THEOREM InsertionsConverge == Spec => []ListsConverge
<1>1. MergeInv => ListsConverge
  BY ViewsConverge DEF ListsConverge, MergeInv
<1> QED BY <1>1, MergeAlways, PTL

-----------------------------------------------------------------------------
(* What an operation, made on a list and applied to the same list or to    *)
(* what an insertion has made of it, does to the items.                    *)

Outcome(a, t, o) ==
    /\ t \in Seq(Item)
    /\ \A x \in ItemsOf(a) : Deletes(o, x) \/ \E y \in ItemsOf(t) : y.id = x.id
    /\ o.type = "insert" => o.value \in ItemsOf(t)
    /\ \A y \in ItemsOf(t) :
         \/ y \in ItemsOf(a)
         \/ y.val = 0
         \/ o.type = "update" /\ y.id = o.old.id

LEMMA InsertionOutcome ==
    ASSUME NEW a \in Seq(Item), NEW e \in Editors, NEW p \in 0..Len(a), NEW q
    PROVE  Outcome(a, Inserted(a, p, Fresh(e)), Insertion(e, q))
<1> DEFINE x == Fresh(e)
           t == Inserted(a, p, x)
<1>0. x \in Item /\ x.val = 0 /\ Len(a) \in Nat /\ p \in Nat
  BY SMT DEF Fresh, Item, Editors
<1>1. /\ t \in Seq(Item)
      /\ Len(t) = Len(a) + 1
      /\ \A j \in 1..(Len(a) + 1) : t[j] = IF j <= p THEN a[j] ELSE IF j = p + 1 THEN x ELSE a[j - 1]
  <2>1. IsInserted(t, a, p, x)
    BY <1>0, InsertedItems
  <2> QED BY <2>1 DEF IsInserted
<1> HIDE DEF t, x
<1>2. x \in ItemsOf(t)
  <2>1. p + 1 \in 1..Len(t) /\ t[p + 1] = x
    BY <1>0, <1>1, SMT
  <2> QED BY <2>1 DEF ItemsOf
<1>3. ASSUME NEW j \in 1..Len(a)
      PROVE  a[j] \in ItemsOf(t)
  <2>1. CASE j <= p
    <3>1. j \in 1..Len(t) /\ t[j] = a[j]
      BY <1>0, <1>1, <2>1, SMT
    <3> QED BY <3>1 DEF ItemsOf
  <2>2. CASE j > p
    <3>1. j + 1 \in 1..Len(t) /\ (j + 1) - 1 = j /\ ~(j + 1 <= p) /\ j + 1 # p + 1
      BY <1>0, <1>1, <2>2, SMT
    <3>2. t[j + 1] = a[j]
      BY <1>1, <3>1
    <3> QED BY <3>1, <3>2 DEF ItemsOf
  <2> QED BY <1>0, <2>1, <2>2, SMT
<1>4. ASSUME NEW j \in 1..Len(t)
      PROVE  t[j] = x \/ t[j] \in ItemsOf(a)
  <2>1. CASE j <= p
    <3>1. j \in 1..Len(a) /\ t[j] = a[j]
      BY <1>0, <1>1, <2>1, SMT
    <3> QED BY <3>1 DEF ItemsOf
  <2>2. CASE j > p + 1
    <3>1. j - 1 \in 1..Len(a) /\ t[j] = a[j - 1]
      BY <1>0, <1>1, <2>2, SMT
    <3> QED BY <3>1 DEF ItemsOf
  <2>3. CASE j = p + 1
    BY <1>0, <1>1, <2>3, SMT
  <2> QED BY <1>0, <2>1, <2>2, <2>3, SMT
<1>5. Insertion(e, q).type = "insert" /\ Insertion(e, q).value = x
  BY DEF Insertion, x
<1>6. \A y \in ItemsOf(a) : y \in ItemsOf(t)
  BY <1>3 DEF ItemsOf
<1>7. \A y \in ItemsOf(t) : y = x \/ y \in ItemsOf(a)
  BY <1>4 DEF ItemsOf
<1>8. Outcome(a, t, Insertion(e, q))
  BY <1>0, <1>1, <1>2, <1>5, <1>6, <1>7 DEF Outcome
<1> QED BY <1>8 DEF t, x

\* At the place where the item it was made to remove is.
LEMMA DeletionOutcome ==
    ASSUME NEW a \in Seq(Item), NEW f \in Editors, NEW k \in 0..(Len(a) - 1), NEW q, NEW x,
           a[k + 1] = x, Deletion(f, q, x) # Null
    PROVE  Outcome(a, Removed(a, k), Deletion(f, q, x))
<1> DEFINE t == Removed(a, k)
<1>0. Len(a) \in Nat /\ k \in Nat
  BY SMT
<1>1. /\ t \in Seq(Item)
      /\ Len(t) = Len(a) - 1
      /\ \A j \in 1..(Len(a) - 1) : t[j] = IF j <= k THEN a[j] ELSE a[j + 1]
  <2>1. IsRemoved(t, a, k)
    BY RemovedItems
  <2> QED BY <2>1 DEF IsRemoved
<1> HIDE DEF t
<1>2. ASSUME NEW j \in 1..Len(a)
      PROVE  a[j] = x \/ a[j] \in ItemsOf(t)
  <2>1. CASE j <= k
    <3>1. j \in 1..Len(t) /\ t[j] = a[j]
      BY <1>0, <1>1, <2>1, SMT
    <3> QED BY <3>1 DEF ItemsOf
  <2>2. CASE j > k + 1
    <3>1. j - 1 \in 1..Len(t) /\ (j - 1) + 1 = j /\ ~(j - 1 <= k)
      BY <1>0, <1>1, <2>2, SMT
    <3>2. t[j - 1] = a[j]
      BY <1>1, <3>1
    <3> QED BY <3>1, <3>2 DEF ItemsOf
  <2>3. CASE j = k + 1
    BY <2>3
  <2> QED BY <1>0, <2>1, <2>2, <2>3, SMT
<1>3. ASSUME NEW j \in 1..Len(t)
      PROVE  t[j] \in ItemsOf(a)
  <2>1. \/ j \in 1..Len(a) /\ t[j] = a[j]
        \/ j + 1 \in 1..Len(a) /\ t[j] = a[j + 1]
    BY <1>0, <1>1, SMT
  <2> QED BY <2>1 DEF ItemsOf
<1>4. \A y \in ItemsOf(a) : y = x \/ y \in ItemsOf(t)
  BY <1>2 DEF ItemsOf
<1>5. \A y \in ItemsOf(t) : y \in ItemsOf(a)
  BY <1>3 DEF ItemsOf
<1>6. Deletes(Deletion(f, q, x), x) /\ Deletion(f, q, x).type = "delete"
  BY DEF Deletes, Deletion
<1>7. Outcome(a, t, Deletion(f, q, x))
  BY <1>1, <1>4, <1>5, <1>6 DEF Outcome
<1> QED BY <1>7 DEF t

\* At the place where the item it was made for is.
LEMMA RevisionOutcome ==
    ASSUME NEW a \in Seq(Item), NEW f \in Editors, NEW k \in 0..(Len(a) - 1), NEW i, NEW x,
           a[k + 1] = x
    PROVE  Outcome(a, Rewritten(a, k, f), Revision(f, i, x))
<1> DEFINE t == Rewritten(a, k, f)
<1>0. Len(a) \in Nat /\ \A j \in 1..Len(a) : a[j] \in Item
  BY SMT
<1>1. /\ t \in Seq(Item)
      /\ Len(t) = Len(a)
      /\ \A j \in 1..Len(a) : t[j] = IF j = k + 1 THEN [a[j] EXCEPT !.val = f] ELSE a[j]
  <2>1. IsRewritten(t, a, k, f)
    BY RewrittenItems
  <2> QED BY <2>1 DEF IsRewritten
<1> HIDE DEF t
<1>2. \A y \in Item : [y EXCEPT !.val = f].id = y.id
  BY DEF Item
<1>3. \A j \in 1..Len(a) : t[j].id = a[j].id /\ (j # k + 1 => t[j] = a[j])
  BY <1>0, <1>1, <1>2
<1>4. \A y \in ItemsOf(a) : \E z \in ItemsOf(t) : z.id = y.id
  BY <1>1, <1>3 DEF ItemsOf
<1>5. \A z \in ItemsOf(t) : z \in ItemsOf(a) \/ z.id = x.id
  BY <1>1, <1>3 DEF ItemsOf
<1>6. Revision(f, i, x).type = "update" /\ Revision(f, i, x).old = x
  BY DEF Revision
<1>7. Outcome(a, t, Revision(f, i, x))
  BY <1>1, <1>4, <1>5, <1>6 DEF Outcome
<1> QED BY <1>7 DEF t

\* One operation, and an insertion followed by the other editor's operation as it
\* is transformed.
LEMMA MadeOutcome ==
    ASSUME Clocked, NEW doc, HasList(doc), NEW e \in Editors,
           NEW kind \in ListKinds, NEW o \in Made(kind, e, doc)
    PROVE  \E t : Outcome(doc.actions, t, o) /\ Apply(doc, o) = WithList(doc, t)
<1> DEFINE s == doc.actions
<1>0. s \in Seq(Item) /\ Len(s) \in Nat /\ doc = WithList(doc, s)
  BY SMT DEF HasList
<1>1. CASE kind = "insert"
  <2>1. PICK p \in 0..Len(s) : o = Insertion(e, p)
    BY <1>1, InsertionsMade
  <2>2. Apply(WithList(doc, s), Insertion(e, p)) = WithList(doc, Inserted(s, p, Fresh(e)))
    BY InsertionApplied
  <2>3. Outcome(s, Inserted(s, p, Fresh(e)), o)
    BY <1>0, <2>1, InsertionOutcome
  <2> HIDE DEF s
  <2> QED BY <1>0, <2>1, <2>2, <2>3 DEF s
<1>2. CASE kind = "delete"
  <2>1. PICK q \in 0..(Len(s) - 1) : o = Deletion(e, q, s[q + 1])
    BY <1>2, DeletionsMade
  <2>2. Apply(WithList(doc, s), Deletion(e, q, s[q + 1])) = WithList(doc, Removed(s, q))
    BY DeletionApplied
  <2>3. o # Null
    BY MadeIsOperation
  <2>4. Outcome(s, Removed(s, q), o)
    BY <1>0, <2>1, <2>3, DeletionOutcome
  <2> HIDE DEF s
  <2> QED BY <1>0, <2>1, <2>2, <2>4 DEF s
<1>3. CASE kind = "edit"
  <2>1. PICK i \in 0..(Len(s) - 1) : o = Revision(e, i, s[i + 1])
    BY <1>3, RevisionsMade
  <2>2. i # Whole
    BY <1>0, SMT DEF Whole
  <2>3. Apply(WithList(doc, s), Revision(e, i, s[i + 1])) = WithList(doc, Rewritten(s, i, e))
    BY <2>2, RevisionApplied
  <2>4. Outcome(s, Rewritten(s, i, e), o)
    BY <1>0, <2>1, RevisionOutcome
  <2> HIDE DEF s
  <2> QED BY <1>0, <2>1, <2>3, <2>4 DEF s
<1> QED BY <1>1, <1>2, <1>3 DEF ListKinds

LEMMA TransformedOutcome ==
    ASSUME Clocked, NEW doc, HasList(doc), NEW e \in Editors, NEW f \in Editors, NEW kind \in ListKinds,
           NEW a \in Made("insert", e, doc), NEW b \in Made(kind, f, doc)
    PROVE  \E m, t : /\ Outcome(doc.actions, m, a)
                     /\ Outcome(m, t, b)
                     /\ Apply(Apply(doc, a), Transform(a, b)[2]) = WithList(doc, t)
<1> DEFINE s == doc.actions
<1>0. s \in Seq(Item) /\ Len(s) \in Nat /\ doc = WithList(doc, s)
  BY SMT DEF HasList
<1>1. PICK p \in 0..Len(s) : a = Insertion(e, p)
  BY InsertionsMade
<1> DEFINE m == Inserted(s, p, Fresh(e))
<1>2. Fresh(e) \in Item /\ clock[e] \in Nat /\ clock[f] \in Nat /\ p \in Int
  BY <1>0, SMT DEF Clocked, Fresh, Item, Editors
<1>3. m \in Seq(Item) /\ Len(m) = Len(s) + 1
  <2>1. IsInserted(m, s, p, Fresh(e))
    BY <1>0, <1>2, InsertedItems
  <2> QED BY <2>1 DEF IsInserted
<1>4. Apply(WithList(doc, s), a) = WithList(doc, m)
  BY <1>1, InsertionApplied
<1>5. Outcome(s, m, a)
  BY <1>0, <1>1, InsertionOutcome
<1>6. ASSUME NEW i \in 0..(Len(s) - 1)
      PROVE  /\ AdjustPath(i, p) = IF p <= i THEN i + 1 ELSE i
             /\ AdjustPath(i, p) \in 0..(Len(m) - 1)
             /\ m[AdjustPath(i, p) + 1] = s[i + 1]
  <2> HIDE DEF s
  <2> QED BY <1>0, <1>2, FollowsInsertion DEF m
<1>7. Apply(doc, a) = WithList(doc, m)
  <2> HIDE DEF s, m
  <2> QED BY <1>0, <1>4
<1> HIDE DEF s, m
<1>8. CASE kind = "insert"
  <2>1. PICK q \in 0..Len(s) : b = Insertion(f, q)
    BY <1>8, InsertionsMade DEF s
  <2>2. PICK k \in 0..Len(m) : Transform(a, b)[2] = Insertion(f, k)
    <3>1. q \in Int /\ q \in 0..Len(m) /\ q + 1 \in 0..Len(m)
      BY <1>0, <1>3, SMT
    <3> QED BY <1>1, <1>2, <2>1, <3>1, InsertsTransformed
  <2>3. Apply(WithList(doc, m), Insertion(f, k)) = WithList(doc, Inserted(m, k, Fresh(f)))
    BY InsertionApplied
  <2>4. Outcome(m, Inserted(m, k, Fresh(f)), b)
    BY <1>3, <2>1, InsertionOutcome
  <2> QED BY <1>5, <1>7, <2>2, <2>3, <2>4 DEF s
<1>9. CASE kind = "delete"
  <2>1. PICK q \in 0..(Len(s) - 1) : b = Deletion(f, q, s[q + 1])
    BY <1>9, DeletionsMade DEF s
  <2> DEFINE k == AdjustPath(q, p)
  <2>2. Transform(a, b)[2] = Deletion(f, k, s[q + 1])
    <3>1. q \in Int
      BY <1>0, SMT
    <3> QED BY <1>1, <1>2, <1>6, <2>1, <3>1, InsertDeleteTransformed
  <2>3. Apply(WithList(doc, m), Deletion(f, k, s[q + 1])) = WithList(doc, Removed(m, k))
    BY DeletionApplied
  <2>4. b # Null
    BY MadeIsOperation
  <2>5. Outcome(m, Removed(m, k), b)
    BY <1>3, <1>6, <2>1, <2>4, DeletionOutcome
  <2> QED BY <1>5, <1>7, <2>2, <2>3, <2>5 DEF s
<1>10. CASE kind = "edit"
  <2>1. PICK i \in 0..(Len(s) - 1) : b = Revision(f, i, s[i + 1])
    BY <1>10, RevisionsMade DEF s
  <2> DEFINE k == AdjustPath(i, p)
  <2>2. Transform(a, b)[2] = Revision(f, k, s[i + 1])
    <3>1. i \in Nat
      BY <1>0, SMT
    <3> QED BY <1>1, <1>2, <2>1, <3>1, InsertEditTransformed
  <2>3. k # Whole
    BY <1>6, <1>3, <1>0, SMT DEF Whole
  <2>4. Apply(WithList(doc, m), Revision(f, k, s[i + 1])) = WithList(doc, Rewritten(m, k, f))
    BY <2>3, RevisionApplied
  <2>5. Outcome(m, Rewritten(m, k, f), b)
    BY <1>3, <1>6, <2>1, RevisionOutcome
  <2> QED BY <1>5, <1>7, <2>2, <2>4, <2>5 DEF s
<1> QED BY <1>8, <1>9, <1>10 DEF ListKinds

\* What two operations on a list nobody has written in leave of its items, and where
\* the text of an edit is.
Unwritten(s) == \A y \in ItemsOf(s) : y.val = 0

Kept(s, t, os) ==
    /\ t \in Seq(Item)
    /\ \A x : /\ x \in ItemsOf(s) \/ \E o \in os : Inserts(o, x)
              /\ \A o \in os : ~Deletes(o, x)
              => \E y \in ItemsOf(t) : y.id = x.id
    /\ \A y \in ItemsOf(t) : y.val = 0 \/ \E o \in os : o.type = "update" /\ y.id = o.old.id

LEMMA OneKept ==
    ASSUME NEW s, Unwritten(s), NEW t, NEW o, Outcome(s, t, o)
    PROVE  Kept(s, t, {o})
  BY DEF Outcome, Kept, Unwritten, Inserts

LEMMA BothKept ==
    ASSUME NEW s, Unwritten(s), NEW m, NEW t, NEW a, NEW b,
           Outcome(s, m, a), Outcome(m, t, b)
    PROVE  Kept(s, t, {a, b})
<1>1. ASSUME NEW x, ~Deletes(b, x), NEW y \in ItemsOf(m), y.id = x.id
      PROVE  \E z \in ItemsOf(t) : z.id = x.id
  <2>1. ~Deletes(b, y)
    BY <1>1 DEF Deletes
  <2>2. PICK z \in ItemsOf(t) : z.id = y.id
    BY <2>1 DEF Outcome
  <2> QED BY <1>1, <2>2
<1>2. ASSUME NEW x,
             x \in ItemsOf(s) \/ \E o \in {a, b} : Inserts(o, x),
             \A o \in {a, b} : ~Deletes(o, x)
      PROVE  \E z \in ItemsOf(t) : z.id = x.id
  <2>1. CASE x \in ItemsOf(s)
    <3>1. PICK y \in ItemsOf(m) : y.id = x.id
      BY <1>2, <2>1 DEF Outcome
    <3> QED BY <1>1, <1>2, <3>1
  <2>2. CASE Inserts(a, x)
    <3>1. x \in ItemsOf(m)
      BY <2>2 DEF Inserts, Outcome
    <3> QED BY <1>1, <1>2, <3>1
  <2>3. CASE Inserts(b, x)
    <3>1. x \in ItemsOf(t)
      BY <2>3 DEF Inserts, Outcome
    <3> QED BY <3>1
  <2> QED BY <1>2, <2>1, <2>2, <2>3
<1>3. ASSUME NEW y \in ItemsOf(t)
      PROVE  y.val = 0 \/ \E o \in {a, b} : o.type = "update" /\ y.id = o.old.id
  BY DEF Outcome, Unwritten
<1>4. t \in Seq(Item)
  BY DEF Outcome
<1> QED BY <1>2, <1>3, <1>4 DEF Kept

-----------------------------------------------------------------------------
(* What both editors show in the end, item by item. *)

LEMMA InitUnwritten ==
    ASSUME Init
    PROVE  Unwritten(base.actions)
<1>1. PICK n \in 0..MaxLength : base.actions = [j \in 1..n |-> [id |-> j, val |-> 0]]
  BY DEF Init
<1> DEFINE s == [j \in 1..n |-> [id |-> j, val |-> 0]]
<1>2. \A j \in 1..n : s[j].val = 0
  OBVIOUS
<1>3. Len(s) = n
  <2>1. n \in Nat /\ DOMAIN s = 1..n
    BY TransformAssumption, SMT
  <2>2. s \in Seq(Item)
    <3>1. \A j \in 1..n : s[j] \in Item
      BY SMT DEF Item
    <3>2. s \in [1..n -> Item]
      BY <3>1
    <3> HIDE DEF s
    <3> QED BY <2>1, <3>2, SMT
  <2> HIDE DEF s
  <2> QED BY <2>1, <2>2, SMT
<1> HIDE DEF s
<1>4. ItemsOf(s) = {s[j] : j \in 1..n}
  BY <1>3 DEF ItemsOf
<1> QED BY <1>1, <1>2, <1>4 DEF Unwritten, s

\* The two operations, whoever made the insertion.
LEMMA DeliveredKept ==
    ASSUME Viewed, Unwritten(base.actions), Delivered, NEW d \in Editors
    PROVE  \E os : /\ \A o \in os : \E e \in Editors : o = op[e] /\ op[e] # Null
                   /\ \A e \in Editors : op[e] # Null => op[e] \in os
                   /\ Kept(base.actions, shown[d].actions, os)
<1>0. 1 \in Editors /\ 2 \in Editors /\ Other(1) = 2 /\ Other(2) = 1
  BY SMT DEF Editors, Other
<1>1. /\ shown[1] = ViewOf(1) /\ shown[2] = ViewOf(2)
      /\ got[1] = (op[2] # Null) /\ got[2] = (op[1] # Null)
  BY <1>0 DEF Viewed, Delivered
<1>2. Tied \/ shown[1] = shown[2]
  BY ViewsConverge DEF Converges
<1>a. Clocked
  BY DEF Viewed
<1>b. shown[d] = shown[1] \/ shown[d] = shown[2]
  BY DEF Editors
<1>3. HasList(base) /\ \A s : WithList(base, s).actions = s
  BY DEF Viewed, WithList
<1>4. CASE op[1] = Null /\ op[2] = Null
  <2>1. shown[1] = base /\ ~Tied
    BY <1>0, <1>1, <1>4 DEF ViewOf, OwnOf, Tied
  <2>2. Kept(base.actions, base.actions, {})
    BY <1>3 DEF Kept, HasList, Unwritten
  <2> QED BY <1>2, <1>b, <1>4, <2>1, <2>2, <1>0 DEF Editors
<1>5. ASSUME NEW e \in Editors, NEW f \in Editors, \A c \in Editors : c = e \/ c = f,
             op[e] # Null, op[f] = Null, shown[d] = Apply(base, op[e])
      PROVE  \E os : /\ \A o \in os : \E c \in Editors : o = op[c] /\ op[c] # Null
                     /\ \A c \in Editors : op[c] # Null => op[c] \in os
                     /\ Kept(base.actions, shown[d].actions, os)
  <2>1. Kind(op[e]) \in ListKinds /\ op[e] \in Made(Kind(op[e]), e, base)
    BY <1>5 DEF Viewed, MadeOnBase
  <2>2. PICK t : Outcome(base.actions, t, op[e]) /\ Apply(base, op[e]) = WithList(base, t)
    BY <1>3, <1>a, <2>1, MadeOutcome
  <2>3. Kept(base.actions, t, {op[e]})
    BY <2>2, OneKept
  <2>4. t = shown[d].actions
    BY <1>3, <1>5, <2>2
  <2> WITNESS {op[e]}
  <2> QED BY <1>5, <2>3, <2>4
<1>6. ASSUME NEW e \in Editors, NEW f \in Editors, \A c \in Editors : c = e \/ c = f,
             op[e] # Null, op[f] # Null, Kind(op[e]) = "insert",
             shown[d] = Apply(Apply(base, op[e]), Transform(op[e], op[f])[2])
      PROVE  \E os : /\ \A o \in os : \E c \in Editors : o = op[c] /\ op[c] # Null
                     /\ \A c \in Editors : op[c] # Null => op[c] \in os
                     /\ Kept(base.actions, shown[d].actions, os)
  <2>1. /\ op[e] \in Made("insert", e, base)
        /\ Kind(op[f]) \in ListKinds /\ op[f] \in Made(Kind(op[f]), f, base)
    BY <1>6 DEF Viewed, MadeOnBase
  <2>2. PICK m, t : /\ Outcome(base.actions, m, op[e])
                    /\ Outcome(m, t, op[f])
                    /\ Apply(Apply(base, op[e]), Transform(op[e], op[f])[2]) = WithList(base, t)
    BY <1>3, <1>a, <2>1, TransformedOutcome
  <2>3. Kept(base.actions, t, {op[e], op[f]})
    BY <2>2, BothKept
  <2>4. t = shown[d].actions
    BY <1>3, <1>6, <2>2
  <2> WITNESS {op[e], op[f]}
  <2> QED BY <1>6, <2>3, <2>4
<1>7. \A c \in Editors : c = 1 \/ c = 2
  BY DEF Editors
<1>8. CASE op[1] # Null /\ op[2] = Null
  <2>1. shown[1] = Apply(base, op[1]) /\ ~Tied
    BY <1>0, <1>1, <1>8 DEF ViewOf, OwnOf, Tied
  <2> QED BY <1>0, <1>2, <1>b, <1>5, <1>7, <1>8, <2>1
<1>9. CASE op[2] # Null /\ op[1] = Null
  <2>1. shown[1] = Apply(base, op[2]) /\ ~Tied
    BY <1>0, <1>1, <1>9 DEF ViewOf, OwnOf, Tied
  <2> QED BY <1>0, <1>2, <1>b, <1>5, <1>7, <1>9, <2>1
<1>10. CASE op[1] # Null /\ op[2] # Null
  <2>1. shown[1] = Apply(Apply(base, op[1]), Transform(op[1], op[2])[2])
    BY <1>0, <1>1, <1>10 DEF ViewOf, OwnOf
  <2>2. shown[2] = Apply(Apply(base, op[2]), Transform(op[2], op[1])[2])
    BY <1>0, <1>1, <1>10 DEF ViewOf, OwnOf
  <2>3. Kind(op[1]) = "insert" \/ Kind(op[2]) = "insert"
    BY <1>10 DEF Viewed, PairMade
  <2>4. CASE Tied
    <3>1. Kind(op[1]) = "insert" /\ Kind(op[2]) = "insert"
      BY <1>0, <2>4 DEF Tied
    <3>2. CASE d = 1
      BY <1>0, <1>6, <1>7, <1>10, <2>1, <3>1, <3>2
    <3>3. CASE d = 2
      BY <1>0, <1>6, <1>7, <1>10, <2>2, <3>1, <3>3
    <3> QED BY <1>7, <3>2, <3>3
  <2>5. CASE ~Tied
    <3>1. shown[d] = shown[1] /\ shown[d] = shown[2]
      BY <1>2, <1>b, <2>5
    <3>2. CASE Kind(op[1]) = "insert"
      BY <1>0, <1>6, <1>7, <1>10, <2>1, <3>1, <3>2
    <3>3. CASE Kind(op[2]) = "insert"
      BY <1>0, <1>6, <1>7, <1>10, <2>2, <3>1, <3>3
    <3> QED BY <2>3, <3>2, <3>3
  <2> QED BY <2>4, <2>5
<1> QED BY <1>4, <1>8, <1>9, <1>10

\* Of two list operations at most one edits, and whoever inserts does not.
LEMMA ViewsKeep ==
    ASSUME Viewed, Unwritten(base.actions)
    PROVE  NothingLost
<1>1. ASSUME Delivered, NEW e \in Editors
      PROVE  /\ shown[e].actions # Null
             /\ \A x \in ItemsOf(base.actions) \cup {Fresh(d) : d \in Editors} :
                   (x \in ItemsOf(base.actions) \/ \E d \in Editors : Inserts(op[d], x))
                     /\ (\A d \in Editors : ~Deletes(op[d], x))
                   => \E y \in ItemsOf(shown[e].actions) : y.id = x.id
  <2>1. PICK os : /\ \A o \in os : \E d \in Editors : o = op[d] /\ op[d] # Null
                  /\ \A d \in Editors : op[d] # Null => op[d] \in os
                  /\ Kept(base.actions, shown[e].actions, os)
    BY <1>1, DeliveredKept
  <2>2. shown[e].actions # Null
    BY <2>1, NullAssumption DEF Kept
  <2>3. ASSUME NEW x,
               x \in ItemsOf(base.actions) \/ \E d \in Editors : Inserts(op[d], x),
               \A d \in Editors : ~Deletes(op[d], x)
        PROVE  \E y \in ItemsOf(shown[e].actions) : y.id = x.id
    <3>1. x \in ItemsOf(base.actions) \/ \E o \in os : Inserts(o, x)
      BY <2>1, <2>3 DEF Inserts
    <3>2. \A o \in os : ~Deletes(o, x)
      BY <2>1, <2>3
    <3> QED BY <2>1, <3>1, <3>2 DEF Kept
  <2> QED BY <2>2, <2>3
<1>2. ASSUME NEW d \in Editors, NEW e \in Editors, Delivered,
             op[d] # Null, op[d].type = "update", op[d].root = "actions",
             NEW x \in ItemsOf(shown[e].actions), x.val = d
      PROVE  x.id = op[d].old.id
  <2>1. PICK os : /\ \A o \in os : \E c \in Editors : o = op[c] /\ op[c] # Null
                  /\ \A c \in Editors : op[c] # Null => op[c] \in os
                  /\ Kept(base.actions, shown[e].actions, os)
    BY <1>2, DeliveredKept
  <2>2. x.val # 0
    BY <1>2 DEF Editors
  <2>3. PICK c \in Editors : op[c] # Null /\ op[c].type = "update" /\ x.id = op[c].old.id
    BY <2>1, <2>2 DEF Kept
  <2>4. c = d
    <3> SUFFICES ASSUME c # d PROVE FALSE
      OBVIOUS
    <3>1. Kind(op[c]) = "insert" \/ Kind(op[d]) = "insert"
      BY <1>2, <2>3 DEF Viewed, PairMade, Editors
    <3>2. \A b \in Editors : op[b] # Null /\ Kind(op[b]) = "insert" => op[b].type = "insert"
      <4> SUFFICES ASSUME NEW b \in Editors, op[b] # Null, Kind(op[b]) = "insert"
                   PROVE  op[b].type = "insert"
        OBVIOUS
      <4>1. op[b] \in Made("insert", b, base)
        BY DEF Viewed, MadeOnBase
      <4>2. PICK p : op[b] = Insertion(b, p)
        BY <4>1, InsertionsMade
      <4> QED BY <4>2 DEF Insertion
    <3> QED BY <1>2, <2>3, <3>1, <3>2
  <2> QED BY <2>3, <2>4
<1> QED BY <1>1, <1>2 DEF NothingLost, ItemsKept, EditLands

-----------------------------------------------------------------------------
(* Whatever the way between the editors, their times and what they have    *)
(* seen: insertions, edits and operations off the list take no item away.  *)

IsInsertion(o, e) == \E p \in Nat : o = Insertion(e, p)
IsRevision(o, e) == \E i \in Nat : \E x : o = Revision(e, i, x)
OffList(o) == "root" \in DOMAIN o /\ o.root # "actions"
Harmless(o, e) == IsInsertion(o, e) \/ IsRevision(o, e) \/ OffList(o)

\* An item is found again by its id.
Holds(doc, x) == \E y \in ItemsOf(doc.actions) : y.id = x.id

\* An operation off the list stays off it, whatever is made of its other parts.
LEMMA OffListKept ==
    ASSUME NEW o, OffList(o)
    PROVE  /\ OffList([o EXCEPT !.pos = 0, !.to = 0, !.link = Missing])
           /\ OffList(Voided(o))
           /\ \A v : OffList([o EXCEPT !.old = v])
           /\ \A d : OffList(Shifted(o, d))
           /\ \A i : OffList([o EXCEPT !.index = i])
           /\ \A p, t : OffList([o EXCEPT !.pos = p, !.to = t])
<1>1. OffList([o EXCEPT !.pos = 0, !.to = 0, !.link = Missing])
  BY DEF OffList
<1>2. OffList(Voided(o))
  BY DEF OffList, Voided
<1>3. ASSUME NEW v PROVE OffList([o EXCEPT !.old = v])
  BY DEF OffList
<1>4. ASSUME NEW d PROVE OffList(Shifted(o, d))
  BY DEF OffList, Shifted
<1>5. ASSUME NEW i PROVE OffList([o EXCEPT !.index = i])
  BY DEF OffList
<1>6. ASSUME NEW p, NEW t PROVE OffList([o EXCEPT !.pos = p, !.to = t])
  BY DEF OffList
<1> QED BY <1>1, <1>2, <1>3, <1>4, <1>5, <1>6

LEMMA HarmlessMade ==
    ASSUME NEW e \in Editors, NEW doc, HasList(doc),
           NEW kind \in Kinds \ {"delete", "move"}, NEW o \in Made(kind, e, doc)
    PROVE  Harmless(o, e) /\ (o.type = "insert" => IsInsertion(o, e))
<1>0. Len(doc.actions) \in Nat
  BY SMT DEF HasList
<1>1. CASE kind = "insert"
  <2>1. PICK p \in 0..Len(doc.actions) : o = Insertion(e, p)
    BY <1>1, InsertionsMade
  <2>2. p \in Nat
    BY <1>0, SMT
  <2> QED BY <2>1, <2>2 DEF Harmless, IsInsertion
<1>2. CASE kind = "edit"
  <2>1. PICK i \in 0..(Len(doc.actions) - 1) : o = Revision(e, i, doc.actions[i + 1])
    BY <1>2, RevisionsMade
  <2>2. i \in Nat
    BY <1>0, SMT
  <2>3. o.type # "insert"
    BY <2>1 DEF Revision
  <2> QED BY <2>1, <2>2, <2>3 DEF Harmless, IsRevision
<1>3. CASE kind \in {"rename", "clear"}
  <2>1. \/ o = OnName(e, "update", Mine(e), OldName(doc))
        \/ o = OnName(e, "delete", Missing, OldName(doc))
    BY <1>3, OnNamesMade
  <2>2. OffList(o) /\ o.type # "insert"
    BY <2>1 DEF OffList, OnName
  <2> QED BY <2>2 DEF Harmless
<1>4. CASE kind \in {"connect", "disconnect"}
  <2>1. PICK l \in Links : o = OnLink(e, kind, l)
    BY <1>4, OnLinksMade
  <2>2. OffList(o) /\ o.type # "insert"
    BY <1>4, <2>1 DEF OffList, OnLink
  <2> QED BY <2>2 DEF Harmless
<1> QED BY <1>1, <1>2, <1>3, <1>4 DEF Kinds

\* What a deletion or a move is called.
LEMMA RemovalMade ==
    ASSUME Clocked, NEW e \in Editors, NEW doc, HasList(doc),
           NEW kind \in {"delete", "move"}, NEW o \in Made(kind, e, doc)
    PROVE  o # Null /\ Kind(o) \in {"delete", "move"}
<1>1. CASE kind = "delete"
  BY <1>1, MadeIsOperation DEF ListKinds
<1>2. CASE kind = "move"
  <2>1. PICK p, t \in 0..(Len(doc.actions) - 1) : o = Movement(e, p, t)
    BY <1>2, MovementsMade
  <2>2. p \in Int /\ t \in Int /\ clock[e] \in Nat
    BY SMT DEF Clocked
  <2>3. o \in Operation
    BY <2>1, <2>2 DEF Movement, Operation, Whole, Absent
  <2> QED BY <1>2, <2>1, <2>3, NullAssumption DEF Kind, Movement
<1> QED BY <1>1, <1>2

\* On its way an operation stays harmless, and an insertion an insertion.
LEMMA HarmlessSent ==
    ASSUME NEW e \in Editors, NEW o, Harmless(o, e)
    PROVE  Harmless(AsSent(o), e) /\ (IsInsertion(o, e) => IsInsertion(AsSent(o), e))
<1>1. CASE ~wired
  BY <1>1 DEF AsSent
<1>2. CASE wired
  <2> DEFINE r == [o EXCEPT !.pos = 0, !.to = 0, !.link = Missing]
  <2>1. AsSent(o) = r
    BY <1>2 DEF AsSent
  <2>2. ASSUME NEW p \in Nat, o = Insertion(e, p)
        PROVE  r = Insertion(e, 0)
    <3>1. r = [[[o EXCEPT !.pos = 0] EXCEPT !.to = 0] EXCEPT !.link = Missing]
      BY <2>2 DEF Insertion
    <3>2. /\ [o EXCEPT !.pos = 0] = Insertion(e, 0)
          /\ [Insertion(e, 0) EXCEPT !.to = 0] = Insertion(e, 0)
          /\ [Insertion(e, 0) EXCEPT !.link = Missing] = Insertion(e, 0)
      BY <2>2 DEF Insertion
    <3> HIDE DEF r
    <3> QED BY <3>1, <3>2
  <2>3. ASSUME NEW i \in Nat, NEW x, o = Revision(e, i, x)
        PROVE  r = Revision(e, i, x)
    <3>1. r = [[[o EXCEPT !.pos = 0] EXCEPT !.to = 0] EXCEPT !.link = Missing]
      BY <2>3 DEF Revision
    <3>2. /\ [o EXCEPT !.pos = 0] = o
          /\ [o EXCEPT !.to = 0] = o
          /\ [o EXCEPT !.link = Missing] = o
      BY <2>3 DEF Revision
    <3> HIDE DEF r
    <3> QED BY <2>3, <3>1, <3>2
  <2>4. OffList(o) => OffList(r)
    BY OffListKept
  <2> HIDE DEF r
  <2>5. IsInsertion(o, e) => IsInsertion(r, e)
    BY <2>2 DEF IsInsertion
  <2>6. IsRevision(o, e) => IsRevision(r, e)
    BY <2>3 DEF IsRevision
  <2> QED BY <2>1, <2>4, <2>5, <2>6 DEF Harmless
<1> QED BY <1>1, <1>2

\* All that transform() makes of the second of two operations.
Remade(b, r) ==
    \/ r = b
    \/ r = Voided(b)
    \/ \E v : r = [b EXCEPT !.old = v]
    \/ \E d : r = Shifted(b, d)
    \/ \E i : r = [b EXCEPT !.index = i]
    \/ \E p, t : r = [b EXCEPT !.pos = p, !.to = t]

LEMMA SecondRemade ==
    ASSUME NEW a, NEW b
    PROVE  Remade(b, Transform(a, b)[2])
<1>1. /\ Remade(b, InsertInsert(a, b)[2])
      /\ Remade(b, InsertDelete(a, b)[2])
      /\ Remade(b, InsertDelete(b, a)[1])
      /\ Remade(b, DeleteDelete(a, b)[2])
  BY DEF Remade, InsertInsert, InsertDelete, DeleteDelete
<1>2. /\ Remade(b, InsertUpdate(a, b)[2])
      /\ Remade(b, InsertUpdate(b, a)[1])
  BY DEF Remade, InsertUpdate
<1>3. /\ Remade(b, DeleteUpdate(a, b)[2])
      /\ Remade(b, DeleteUpdate(b, a)[1])
  BY DEF Remade, DeleteUpdate
<1>4. Remade(b, UpdateUpdate(a, b)[2])
  BY DEF Remade, UpdateUpdate
<1>5. Remade(b, MoveMove(a, b)[2])
  BY DEF Remade, MoveMove
<1>6. /\ Remade(b, MoveDelete(a, b)[2])
      /\ Remade(b, MoveDelete(b, a)[1])
  BY DEF Remade, MoveDelete
<1>7. /\ Remade(b, ConnectDisconnect(a, b)[2])
      /\ Remade(b, ConnectDisconnect(b, a)[1])
      /\ Remade(b, SameOnLink(a, b)[2])
  BY DEF Remade, ConnectDisconnect, SameOnLink
<1>8. \A x, y : Reversed(<<x, y>>)[2] = x /\ \A pair : Reversed(pair)[2] = pair[1]
  BY DEF Reversed
<1>9. Remade(b, <<a, b>>[2])
  BY DEF Remade
<1>10. Remade(b, TransformByType(a, b)[2])
  BY <1>1, <1>2, <1>3, <1>4, <1>5, <1>6, <1>7, <1>8, <1>9 DEF TransformByType
<1> QED BY <1>9, <1>10 DEF Transform

LEMMA HarmlessTransformed ==
    ASSUME Clocked, NEW e \in Editors, NEW f \in Editors, NEW a, NEW b,
           Harmless(a, e), Harmless(b, f)
    PROVE  /\ Harmless(Transform(a, b)[2], f)
           /\ IsInsertion(b, f) => IsInsertion(Transform(a, b)[2], f)
<1> DEFINE r == Transform(a, b)[2]
<1>0. /\ clock[e] \in Nat /\ clock[f] \in Nat
      /\ \A p \in Nat : p \in Int /\ p + 1 \in Nat
  BY SMT DEF Clocked
<1>1. CASE OffList(b)
  <2>1. Remade(b, r)
    BY SecondRemade
  <2> HIDE DEF r
  <2>2. OffList(r)
    <3>1. /\ OffList(Voided(b))
          /\ \A v : OffList([b EXCEPT !.old = v])
          /\ \A d : OffList(Shifted(b, d))
          /\ \A i : OffList([b EXCEPT !.index = i])
          /\ \A p, t : OffList([b EXCEPT !.pos = p, !.to = t])
      BY <1>1, OffListKept
    <3>2. CASE r = b
      BY <1>1, <3>2
    <3>3. CASE r = Voided(b)
      BY <3>1, <3>3
    <3>4. ASSUME NEW v, r = [b EXCEPT !.old = v] PROVE OffList(r)
      BY <3>1, <3>4
    <3>5. ASSUME NEW d, r = Shifted(b, d) PROVE OffList(r)
      BY <3>1, <3>5
    <3>6. ASSUME NEW i, r = [b EXCEPT !.index = i] PROVE OffList(r)
      BY <3>1, <3>6
    <3>7. ASSUME NEW p, NEW t, r = [b EXCEPT !.pos = p, !.to = t] PROVE OffList(r)
      BY <3>1, <3>7
    <3> QED BY <2>1, <3>2, <3>3, <3>4, <3>5, <3>6, <3>7 DEF Remade
  <2>3. ~IsInsertion(b, f)
    BY <1>1 DEF OffList, IsInsertion, Insertion
  <2> QED BY <2>2, <2>3 DEF Harmless, r
<1>2. ASSUME NEW q \in Nat, b = Insertion(f, q)
      PROVE  IsInsertion(r, f)
  <2>1. ASSUME NEW p \in Nat, a = Insertion(e, p)
        PROVE  IsInsertion(r, f)
    <3>1. r = Insertion(f, q + 1) \/ r = Insertion(f, q)
      BY <1>0, <1>2, <2>1, InsertsTransformed
    <3> HIDE DEF r
    <3> QED BY <1>0, <3>1 DEF IsInsertion
  <2>2. ASSUME NEW i \in Nat, NEW x, a = Revision(e, i, x)
        PROVE  IsInsertion(r, f)
    <3>1. r = Insertion(f, q)
      BY <1>0, <1>2, <2>2, InsertEditTransformed
    <3> QED BY <3>1 DEF IsInsertion
  <2>3. ASSUME OffList(a)
        PROVE  IsInsertion(r, f)
    <3>1. a.root # b.root
      BY <1>2, <2>3 DEF OffList, Insertion
    <3>2. r = b
      BY <3>1 DEF Transform, PathsConflict
    <3> QED BY <1>2, <3>2 DEF IsInsertion
  <2> QED BY <2>1, <2>2, <2>3 DEF Harmless, IsInsertion, IsRevision
<1>3. ASSUME NEW i \in Nat, NEW x, b = Revision(f, i, x)
      PROVE  IsRevision(r, f)
  <2>0. \A p \in Nat : AdjustPath(i, p) \in Nat
    BY <1>0 DEF AdjustPath
  <2>1. ASSUME NEW p \in Nat, a = Insertion(e, p)
        PROVE  IsRevision(r, f)
    <3>1. r = Revision(f, AdjustPath(i, p), x)
      BY <1>0, <1>3, <2>1, InsertEditTransformed
    <3> QED BY <2>0, <3>1 DEF IsRevision
  <2>2. ASSUME NEW j \in Nat, NEW y, a = Revision(e, j, y)
        PROVE  IsRevision(r, f)
    <3>1. r = b \/ r = UpdateUpdate(a, b)[2]
      BY <1>3, <2>2 DEF Transform, TransformByType, Revision
    <3>2. UpdateUpdate(a, b)[2] = b \/ UpdateUpdate(a, b)[2] = [b EXCEPT !.old = a.value]
      BY DEF UpdateUpdate
    <3>3. [b EXCEPT !.old = a.value] = Revision(f, i, a.value)
      BY <1>3 DEF Revision
    <3> HIDE DEF r
    <3> QED BY <1>3, <3>1, <3>2, <3>3 DEF IsRevision
  <2>3. ASSUME OffList(a)
        PROVE  IsRevision(r, f)
    <3>1. a.root # b.root
      BY <1>3, <2>3 DEF OffList, Revision
    <3>2. r = b
      BY <3>1 DEF Transform, PathsConflict
    <3> QED BY <1>3, <3>2 DEF IsRevision
  <2> QED BY <2>1, <2>2, <2>3 DEF Harmless, IsInsertion, IsRevision
<1>4. IsInsertion(b, f) => IsInsertion(r, f)
  BY <1>2 DEF IsInsertion
<1>5. IsRevision(b, f) => IsRevision(r, f)
  BY <1>3 DEF IsRevision
<1> HIDE DEF r
<1> QED BY <1>1, <1>4, <1>5 DEF Harmless, r

\* Applied to a document, it takes no item away.
LEMMA HarmlessApplied ==
    ASSUME NEW e \in Editors, NEW o, Harmless(o, e), NEW doc, HasList(doc)
    PROVE  /\ HasList(Apply(doc, o))
           /\ \A x : Holds(doc, x) => Holds(Apply(doc, o), x)
           /\ IsInsertion(o, e) => Holds(Apply(doc, o), Fresh(e))
<1> DEFINE s == doc.actions
<1>0. s \in Seq(Item) /\ Len(s) \in Nat /\ doc = WithList(doc, s) /\ Fresh(e) \in Item
  BY SMT DEF HasList, Fresh, Item, Editors
<1>1. ASSUME NEW t \in Seq(Item), Apply(doc, o) = WithList(doc, t),
             \A x \in ItemsOf(s) : \E y \in ItemsOf(t) : y.id = x.id
      PROVE  HasList(Apply(doc, o)) /\ \A x : Holds(doc, x) => Holds(Apply(doc, o), x)
  <2>1. WithList(doc, t).actions = t /\ WithList(doc, t) = WithList(WithList(doc, t), t)
    BY DEF WithList
  <2> QED BY <1>1, <2>1 DEF HasList, Holds
<1>2. ASSUME NEW p \in Nat, o = Insertion(e, p)
      PROVE  /\ HasList(Apply(doc, o)) /\ \A x : Holds(doc, x) => Holds(Apply(doc, o), x)
             /\ Holds(Apply(doc, o), Fresh(e))
  <2> DEFINE k == SpliceStart(s, p)
             t == Inserted(s, p, Fresh(e))
  <2>1. k \in 0..Len(s) /\ SpliceStart(s, k) = k
    <3> HIDE DEF s
    <3> QED BY <1>0, SMT DEF SpliceStart, k
  <2>2. t = Inserted(s, k, Fresh(e))
    BY <2>1 DEF Inserted
  <2>3. IsInserted(t, s, k, Fresh(e))
    BY <1>0, <2>1, <2>2, InsertedItems
  <2>4. Apply(WithList(doc, s), Insertion(e, p)) = WithList(doc, t)
    BY InsertionApplied
  <2>5. Apply(doc, o) = WithList(doc, t)
    BY <1>0, <1>2, <2>4
  <2>6. Outcome(s, t, Insertion(e, k))
    BY <1>0, <2>1, <2>2, InsertionOutcome
  <2>7. /\ t \in Seq(Item)
        /\ Fresh(e) \in ItemsOf(t)
        /\ \A x \in ItemsOf(s) : \E y \in ItemsOf(t) : y.id = x.id
    <3>1. ~\E x : Deletes(Insertion(e, k), x)
      BY DEF Deletes, Insertion
    <3>2. Insertion(e, k).type = "insert" /\ Insertion(e, k).value = Fresh(e)
      BY DEF Insertion
    <3> QED BY <2>6, <3>1, <3>2 DEF Outcome
  <2>8. WithList(doc, t).actions = t
    BY DEF WithList
  <2> HIDE DEF s, t
  <2>9. Holds(Apply(doc, o), Fresh(e))
    BY <2>5, <2>7, <2>8 DEF Holds
  <2> QED BY <1>1, <2>5, <2>7, <2>9
<1>3. ASSUME NEW i \in Nat, NEW x, o = Revision(e, i, x)
      PROVE  HasList(Apply(doc, o)) /\ \A z : Holds(doc, z) => Holds(Apply(doc, o), z)
  <2> DEFINE t == Rewritten(s, i, e)
  <2>1. i # Whole
    BY SMT DEF Whole
  <2>2. Apply(WithList(doc, s), Revision(e, i, x)) = WithList(doc, t)
    BY <2>1, RevisionApplied
  <2>3. Apply(doc, o) = WithList(doc, t)
    BY <1>0, <1>3, <2>2
  <2>4. CASE i < Len(s)
    <3>1. i \in 0..(Len(s) - 1)
      BY <1>0, <2>4, SMT
    <3>2. IsRewritten(t, s, i, e)
      BY <1>0, <3>1, RewrittenItems
    <3>3. \A z \in ItemsOf(s) : \E y \in ItemsOf(t) : y.id = z.id
      <4> SUFFICES ASSUME NEW j \in 1..Len(s)
                   PROVE  \E y \in ItemsOf(t) : y.id = s[j].id
        BY DEF ItemsOf
      <4>1. s[j] \in Item
        BY <1>0, SMT
      <4>2. t[j] \in ItemsOf(t)
        BY <3>2 DEF IsRewritten, ItemsOf
      <4>3. t[j] = [s[j] EXCEPT !.val = e] \/ t[j] = s[j]
        BY <3>2 DEF IsRewritten
      <4>4. t[j].id = s[j].id
        BY <4>1, <4>3 DEF Item
      <4> QED BY <4>2, <4>4
    <3>4. t \in Seq(Item)
      BY <3>2 DEF IsRewritten
    <3> HIDE DEF s, t
    <3> QED BY <1>1, <2>3, <3>3, <3>4
  <2>5. CASE ~(i < Len(s))
    <3> DEFINE z == [id |-> 0, val |-> e]
    <3>1. t = Append(s, z) /\ z \in Item
      BY <2>5, SMT DEF Rewritten, Item, Editors
    <3> HIDE DEF z
    <3>2. t \in Seq(Item) /\ Len(t) = Len(s) + 1 /\ \A j \in 1..Len(s) : t[j] = s[j]
      BY <1>0, <3>1, SMT
    <3>3. \A j \in 1..Len(s) : j \in 1..Len(t)
      BY <1>0, <3>2, SMT
    <3>4. \A y \in ItemsOf(s) : y \in ItemsOf(t)
      BY <3>2, <3>3 DEF ItemsOf
    <3> HIDE DEF s, t
    <3> QED BY <1>1, <2>3, <3>2, <3>4
  <2> QED BY <2>4, <2>5
<1>4. ASSUME OffList(o)
      PROVE  /\ HasList(Apply(doc, o)) /\ \A z : Holds(doc, z) => Holds(Apply(doc, o), z)
             /\ ~IsInsertion(o, e)
  <2>1. o.root # "actions"
    BY <1>4 DEF OffList
  <2>2. \/ Apply(doc, o) = [doc EXCEPT !.name = ApplyToName(o)]
        \/ Apply(doc, o) = [doc EXCEPT !.connections = ApplyToLinks(@, o)]
    BY <2>1 DEF Apply
  <2>3. \E m, c : Apply(doc, o) = [actions |-> s, name |-> m, connections |-> c]
    BY <1>0, <2>2 DEF WithList
  <2>4. PICK m, c : Apply(doc, o) = [actions |-> s, name |-> m, connections |-> c]
    BY <2>3
  <2> HIDE DEF s
  <2>5. Apply(doc, o).actions = s /\ Apply(doc, o) = WithList(Apply(doc, o), s)
    BY <2>4 DEF WithList
  <2>6. HasList(Apply(doc, o)) /\ \A z : Holds(doc, z) => Holds(Apply(doc, o), z)
    BY <1>0, <2>5 DEF HasList, Holds, s
  <2> QED BY <2>1, <2>6 DEF IsInsertion, Insertion
<1>5. IsInsertion(o, e) => Holds(Apply(doc, o), Fresh(e))
  BY <1>2 DEF IsInsertion
<1> QED BY <1>2, <1>3, <1>4, <1>5 DEF Harmless, IsInsertion, IsRevision

\* What is there of the editors in every state.
Formed ==
    /\ Clocked
    /\ HasList(base)
    /\ op = [e \in Editors |-> op[e]]
    /\ DOMAIN shown = Editors
    /\ got \in [Editors -> BOOLEAN]

LEMMA FormedStep == Formed /\ [Next]_vars => Formed'
<1> SUFFICES ASSUME Formed, [Next]_vars PROVE Formed'
  OBVIOUS
<1>1. CASE UNCHANGED vars
  BY <1>1 DEF Formed, vars, Clocked, HasList, WithList
<1>2. ASSUME NEW e \in Editors, Make(e)
      PROVE  Formed'
  <2>1. PICK o : op' = [op EXCEPT ![e] = o] /\ shown' = [shown EXCEPT ![e] = Apply(@, o)]
    BY <1>2 DEF Make
  <2>2. op' = [d \in Editors |-> op'[d]] /\ DOMAIN shown' = Editors
    BY <2>1 DEF Formed
  <2> QED BY <1>2, <2>2 DEF Make, Formed, Clocked, HasList, WithList
<1>3. ASSUME NEW e \in Editors, Confirm(e)
      PROVE  Formed'
  BY <1>3 DEF Confirm, Formed, Clocked, HasList, WithList
<1>4. ASSUME NEW e \in Editors, Receive(e)
      PROVE  Formed'
  <2>1. DOMAIN shown' = Editors /\ got' \in [Editors -> BOOLEAN]
    BY <1>4 DEF Receive, Formed
  <2> QED BY <1>4, <2>1 DEF Receive, Formed, Clocked, HasList, WithList
<1> QED BY <1>1, <1>2, <1>3, <1>4 DEF Next

\* What an editor shows as long as nobody deletes or moves an item.
Sent(e) == op[e] # Null => Harmless(op[e], e) /\ (op[e].type = "insert" => IsInsertion(op[e], e))
InsertedIn(e, d) == op[d] # Null /\ IsInsertion(op[d], d) => Holds(shown[e], Fresh(d))
Keeping ==
    \A e \in Editors :
        /\ HasList(shown[e])
        /\ Sent(e)
        /\ \A x \in ItemsOf(base.actions) : Holds(shown[e], x)
        /\ InsertedIn(e, e)
        /\ got[e] => op[Other(e)] # Null /\ InsertedIn(e, Other(e))

\* An operation on its way to e keeps what e shows and adds what it inserts.
LEMMA ReceiveKeeps ==
    ASSUME Formed, Keeping, NEW e \in Editors, Receive(e)
    PROVE  Keeping'
<1> DEFINE f == Other(e)
<1>1. f \in Editors /\ f # e /\ Other(f) = e /\ \A d \in Editors : d = e \/ d = f
  BY OtherEditor, SMT DEF Editors, Other
<1> DEFINE r == AsSent(IF op[e] # Null /\ ~confirmed[e]
                         THEN Transform(AsSent(op[e]), AsSent(op[f]))[2] ELSE op[f])
<1>2. /\ op[f] # Null
      /\ got' = [got EXCEPT ![e] = TRUE]
      /\ shown' = [shown EXCEPT ![e] = Apply(@, r)]
      /\ base' = base /\ op' = op /\ clock' = clock /\ wired' = wired
  BY DEF Receive
<1>3. Harmless(r, f) /\ (IsInsertion(op[f], f) => IsInsertion(r, f))
  <2>1. Harmless(op[f], f)
    BY <1>1, <1>2 DEF Keeping, Sent
  <2>2. CASE op[e] # Null /\ ~confirmed[e]
    <3> DEFINE a == AsSent(op[e])
               b == AsSent(op[f])
               t == Transform(a, b)[2]
    <3>1. Harmless(op[e], e)
      BY <2>2 DEF Keeping, Sent
    <3>2. Harmless(a, e)
      BY <3>1, HarmlessSent
    <3>3. Harmless(b, f) /\ (IsInsertion(op[f], f) => IsInsertion(b, f))
      BY <1>1, <2>1, HarmlessSent
    <3> HIDE DEF a, b
    <3>4. Harmless(t, f) /\ (IsInsertion(b, f) => IsInsertion(t, f))
      BY <1>1, <3>2, <3>3, HarmlessTransformed DEF Formed
    <3> HIDE DEF t
    <3>5. Harmless(AsSent(t), f) /\ (IsInsertion(t, f) => IsInsertion(AsSent(t), f))
      BY <1>1, <3>4, HarmlessSent
    <3>6. r = AsSent(t)
      BY <2>2 DEF t, a, b
    <3> HIDE DEF r
    <3> QED BY <3>3, <3>4, <3>5, <3>6
  <2>3. CASE ~(op[e] # Null /\ ~confirmed[e])
    <3>1. r = AsSent(op[f])
      BY <2>3
    <3> HIDE DEF r
    <3> QED BY <1>1, <2>1, <3>1, HarmlessSent
  <2> QED BY <2>2, <2>3
<1> HIDE DEF r
<1>4. /\ shown'[e] = Apply(shown[e], r) /\ shown'[f] = shown[f]
      /\ got'[e] = TRUE /\ got'[f] = got[f]
  BY <1>1, <1>2 DEF Formed
<1> HIDE DEF f
<1>5. HasList(shown[e])
  BY DEF Keeping
<1>6. /\ HasList(Apply(shown[e], r))
      /\ \A x : Holds(shown[e], x) => Holds(Apply(shown[e], r), x)
      /\ IsInsertion(r, f) => Holds(Apply(shown[e], r), Fresh(f))
  BY <1>1, <1>3, <1>5, HarmlessApplied
<1>7. /\ HasList(shown'[e]) /\ \A x : Holds(shown[e], x) => Holds(shown'[e], x)
      /\ IsInsertion(op[f], f) => Holds(shown'[e], Fresh(f))
  BY <1>3, <1>4, <1>6
<1>8. \A d \in Editors : Sent(d)'
  BY <1>2 DEF Keeping, Sent, Harmless, IsInsertion, IsRevision, Insertion, Revision
<1>9. \A d \in Editors, g \in Editors :
        InsertedIn(d, g)' = (op[g] # Null /\ IsInsertion(op[g], g) => Holds(shown'[d], Fresh(g)))
  BY <1>2 DEF InsertedIn, IsInsertion, Insertion
<1>10. /\ HasList(shown'[f]) /\ \A x : Holds(shown[f], x) => Holds(shown'[f], x)
  BY <1>1, <1>4 DEF Keeping
<1>11. \A d \in Editors :
         /\ HasList(shown'[d])
         /\ \A x \in ItemsOf(base.actions) : Holds(shown'[d], x)
         /\ InsertedIn(d, d)'
  BY <1>1, <1>7, <1>9, <1>10 DEF Keeping, InsertedIn
<1>12. \A d \in Editors : got'[d] => op'[Other(d)] # Null /\ InsertedIn(d, Other(d))'
  <2>1. op'[f] # Null /\ InsertedIn(e, f)'
    BY <1>1, <1>2, <1>7, <1>9
  <2>2. got'[f] => op'[e] # Null /\ InsertedIn(f, e)'
    BY <1>1, <1>2, <1>4, <1>9, <1>10 DEF Keeping, InsertedIn
  <2> QED BY <1>1, <2>1, <2>2 DEF f
<1> QED BY <1>2, <1>8, <1>11, <1>12 DEF Keeping

LEMMA MakeKeeps ==
    ASSUME Formed, Keeping, NEW e \in Editors, Make(e), NoneRemoved'
    PROVE  Keeping'
<1> DEFINE f == Other(e)
<1>1. f \in Editors /\ f # e /\ Other(f) = e /\ \A d \in Editors : d = e \/ d = f
  BY OtherEditor, SMT DEF Editors, Other
<1>0. PICK kind \in KindsOf(e) : \E o \in Made(kind, e, shown[e]) :
        /\ op' = [op EXCEPT ![e] = o]
        /\ shown' = [shown EXCEPT ![e] = Apply(@, o)]
  BY DEF Make
<1>2. PICK o \in Made(kind, e, shown[e]) :
        /\ op' = [op EXCEPT ![e] = o]
        /\ shown' = [shown EXCEPT ![e] = Apply(@, o)]
  BY <1>0
<1>3. /\ op[e] = Null /\ base' = base /\ got' = got /\ clock' = clock
      /\ kind \in Kinds
  BY KindsKnown DEF Make, KindsOf
<1> HIDE DEF f
<1>4. /\ op'[e] = o /\ op'[f] = op[f]
      /\ shown'[e] = Apply(shown[e], o) /\ shown'[f] = shown[f]
  BY <1>1, <1>2 DEF Formed
<1>5. HasList(shown[e]) /\ Clocked
  BY DEF Keeping, Formed
<1>6. kind \notin {"delete", "move"}
  <2>1. kind \in {"delete", "move"} => o # Null /\ Kind(o) \in {"delete", "move"}
    BY <1>2, <1>5, RemovalMade
  <2>2. o # Null => Kind(o) \notin {"delete", "move"}
    BY <1>4 DEF NoneRemoved
  <2> QED BY <2>1, <2>2
<1>7. Harmless(o, e) /\ (o.type = "insert" => IsInsertion(o, e))
  <2>1. kind \in Kinds \ {"delete", "move"}
    BY <1>3, <1>6
  <2> QED BY <1>2, <1>5, <2>1, HarmlessMade
<1>8. ~got[f]
  BY <1>1, <1>3 DEF Keeping
<1>9. /\ HasList(Apply(shown[e], o))
      /\ \A x : Holds(shown[e], x) => Holds(Apply(shown[e], o), x)
      /\ IsInsertion(o, e) => Holds(Apply(shown[e], o), Fresh(e))
  BY <1>5, <1>7, HarmlessApplied
<1>10. \A q : \A d \in Editors : IsInsertion(q, d)' = IsInsertion(q, d) /\ Harmless(q, d)' = Harmless(q, d)
  BY <1>3 DEF Harmless, IsInsertion, IsRevision, Insertion, Revision
<1>11. \A d \in Editors : Sent(d)'
  <2>1. Sent(e)'
    BY <1>4, <1>7, <1>3 DEF Sent, Harmless, IsInsertion, IsRevision, Insertion, Revision
  <2>2. Sent(f)'
    <3>1. Sent(f)
      BY <1>1 DEF Keeping
    <3> QED BY <1>3, <1>4, <3>1
            DEF Sent, Harmless, IsInsertion, IsRevision, OffList, Insertion, Revision
  <2> QED BY <1>1, <2>1, <2>2
<1>12. \A d \in Editors :
         /\ HasList(shown'[d])
         /\ \A x \in ItemsOf(base.actions) : Holds(shown'[d], x)
  BY <1>1, <1>4, <1>9 DEF Keeping
<1>13. InsertedIn(e, e)' /\ InsertedIn(f, f)' /\ (got[e] => InsertedIn(e, f)')
  <2>1. InsertedIn(e, e)'
    BY <1>3, <1>4, <1>9 DEF InsertedIn, IsInsertion, Insertion
  <2>2. InsertedIn(f, f)'
    BY <1>1, <1>3, <1>4 DEF Keeping, InsertedIn, IsInsertion, Insertion
  <2>3. got[e] => InsertedIn(e, f)'
    BY <1>1, <1>3, <1>4, <1>9 DEF Keeping, InsertedIn, IsInsertion, Insertion, f
  <2> QED BY <2>1, <2>2, <2>3
<1>14. \A d \in Editors : got'[d] => op'[Other(d)] # Null /\ InsertedIn(d, Other(d))'
  <2>1. got[e] => op'[f] # Null
    BY <1>1, <1>4 DEF Keeping, f
  <2> QED BY <1>1, <1>3, <1>8, <1>13, <2>1 DEF f
<1> QED BY <1>1, <1>3, <1>11, <1>12, <1>13, <1>14 DEF Keeping

\* An operation is not taken back.
LEMMA StillNoneRemoved ==
    ASSUME Formed, [Next]_vars, NoneRemoved'
    PROVE  NoneRemoved
<1>1. \A e \in Editors : op[e] # Null => op'[e] = op[e]
  BY DEF Formed, Next, Make, Confirm, Receive, vars
<1> QED BY <1>1 DEF NoneRemoved

LEMMA KeepingStep ==
    ASSUME Formed, Keeping, [Next]_vars, NoneRemoved'
    PROVE  Keeping'
<1>1. CASE UNCHANGED <<base, op, shown, got, clock>>
  BY <1>1 DEF Keeping, Sent, InsertedIn, Harmless, IsInsertion, IsRevision, Insertion, Revision
<1>2. CASE UNCHANGED vars
  BY <1>1, <1>2 DEF vars
<1>3. ASSUME NEW e \in Editors, Confirm(e)
      PROVE  Keeping'
  BY <1>1, <1>3 DEF Confirm
<1> QED BY <1>2, <1>3, MakeKeeps, ReceiveKeeps DEF Next

LEMMA InitKeeping ==
    ASSUME Init
    PROVE  Formed /\ Keeping
<1>1. Clocked /\ HasList(base)
  BY InitClocked, InitList
<1>2. \A e \in Editors : op[e] = Null /\ shown[e] = base /\ ~got[e]
  BY DEF Init
<1>3. Formed
  BY <1>1 DEF Init, Formed
<1> QED BY <1>1, <1>2, <1>3 DEF Keeping, Sent, InsertedIn, Holds

LEMMA KeepingHolds ==
    ASSUME Keeping
    PROVE  ItemsKept
<1> SUFFICES ASSUME Delivered, NEW e \in Editors
             PROVE  /\ shown[e].actions # Null
                    /\ \A x \in ItemsOf(base.actions) \cup {Fresh(d) : d \in Editors} :
                          (x \in ItemsOf(base.actions) \/ \E d \in Editors : Inserts(op[d], x))
                            => Holds(shown[e], x)
  BY DEF ItemsKept, Holds
<1>1. shown[e].actions # Null
  BY NullAssumption DEF Keeping, HasList
<1>2. ASSUME NEW x, NEW d \in Editors, Inserts(op[d], x)
      PROVE  Holds(shown[e], x)
  <2>1. op[d] # Null /\ IsInsertion(op[d], d) /\ op[d].value = x
    BY <1>2 DEF Inserts, Keeping, Sent
  <2>2. x = Fresh(d)
    BY <2>1 DEF IsInsertion, Insertion
  <2>3. d = e \/ (d = Other(e) /\ got[e])
    BY <2>1, OtherEditor DEF Delivered
  <2> QED BY <2>1, <2>2, <2>3 DEF Keeping, InsertedIn
<1> QED BY <1>1, <1>2 DEF Keeping

\* What every state of InsertionsLoseNothing has: operations well formed, items nobody
\* has written, and, while none removes or moves an item, the items all kept.
KeepInv ==
    /\ Formed
    /\ Unwritten(base.actions)
    /\ NoneRemoved => Keeping

\* Two editors of a list of any length.  Of two operations handed over with their
\* positions, of which one is an insertion, both end with every item that neither has
\* deleted and with an edited text on the item it was written on.  And however they are
\* handed over, saved or timed, if neither deletes or moves an item both end with all of
\* them (transform(), operational-transform-service.ts:26; sync-service.ts:402).
THEOREM InsertionsLoseNothing == Spec => []ListsLoseNothing
<1>1. Init => KeepInv
  BY InitKeeping, InitUnwritten DEF KeepInv
<1>2. KeepInv /\ [Next]_vars => KeepInv'
  <2> SUFFICES ASSUME KeepInv, [Next]_vars PROVE KeepInv'
    OBVIOUS
  <2>1. base' = base
    BY DEF Next, Make, Confirm, Receive, vars
  <2>2. Unwritten(base.actions)'
    BY <2>1 DEF KeepInv, Unwritten, ItemsOf
  <2>3. Formed'
    BY FormedStep DEF KeepInv
  <2>4. NoneRemoved' => Keeping'
    BY StillNoneRemoved, KeepingStep DEF KeepInv
  <2> QED BY <2>2, <2>3, <2>4 DEF KeepInv
<1>3. MergeInv /\ KeepInv => ListsLoseNothing
  BY ViewsKeep, KeepingHolds DEF MergeInv, KeepInv, ListsLoseNothing
<1> QED BY <1>1, <1>2, <1>3, MergeAlways, PTL DEF Spec
=============================================================================
