------------------------- MODULE Analytics_proofs -------------------------
(***************************************************************************)
(* Machine-checked proofs about the query functions, for any data set that *)
(* Olist admits: any number of orders, customers, sellers and products.    *)
(***************************************************************************)
EXTENDS Analytics, FiniteSetTheorems, WellFoundedInduction, TLAPS

(***************************************************************************)
(* The invariant: orders are finitely many and carry what the data set     *)
(* promises; items, payments and reviews are finitely many and belong to   *)
(* orders.                                                                 *)
(***************************************************************************)
OrderOk(order) ==
    /\ order.customer \in DOMAIN Customers /\ order.status \in Statuses
    /\ order.purchase \in Int /\ order.purchase % 3 # 2
    /\ order.delivered # None => order.delivered \in Int
    /\ order.estimated # None => order.estimated \in Int

ItemOk(i, placed) ==
    /\ i.order \in placed
    /\ i.product \in DOMAIN Products /\ i.seller \in DOMAIN Sellers /\ i.value \in Nat
PaymentOk(p, placed) == p.order \in placed /\ p.value \in Nat
ReviewOk(r, placed) == r \in ReviewRows /\ r.order \in placed

Data ==
    /\ today \in Today
    /\ IsFiniteSet(DOMAIN orders) /\ DOMAIN orders \subseteq OrderIds
    /\ \A o \in DOMAIN orders : OrderOk(orders[o])
    /\ IsFiniteSet(items) /\ \A i \in items : ItemOk(i, DOMAIN orders)
    /\ IsFiniteSet(payments) /\ \A p \in payments : PaymentOk(p, DOMAIN orders)
    /\ IsFiniteSet(reviews) /\ \A r \in reviews : ReviewOk(r, DOMAIN orders)

\* The values of a function on a finite set are finitely many.
LEMMA ImageFinite ==
    ASSUME NEW S, IsFiniteSet(S), NEW f
    PROVE  IsFiniteSet({f[x] : x \in S})
<1> DEFINE T == {f[x] : x \in S}
           g == [x \in S |-> f[x]]
<1>1. g \in Surjection(S, T)  BY DEF Surjection
<1>2. IsFiniteSet(T)
  <2> HIDE DEF T, g
  <2> QED  BY <1>1, FS_Surjection
<1>3. QED  BY <1>2

LEMMA DataInit == Init => Data
BY FS_EmptySet DEF Init, Data

LEMMA DataImport ==
    ASSUME Data, NEW o \in OrderIds, NEW shape \in Shapes, Import(o, shape)
    PROVE  Data'
<1> DEFINE item == [i \in shape.items |-> [order |-> o, item |-> i.item, product |-> i.product,
                                           seller |-> i.seller, value |-> i.value]]
           payment == [p \in shape.payments |-> [order |-> o, seq |-> p.seq, type |-> p.type,
                                                 value |-> p.value]]
           review == [r \in shape.reviews |-> [order |-> o, id |-> r.id, score |-> r.score,
                                               created |-> r.created]]
           new == {item[i] : i \in shape.items}
           rated == {review[r] : r \in shape.reviews}
           paid == {payment[p] : p \in shape.payments}
<1>1. /\ DOMAIN orders' = DOMAIN orders \cup {o}
      /\ \A x \in DOMAIN orders' : orders'[x] = IF x = o THEN shape.order ELSE orders[x]
      /\ today' = today
  BY DEF Import
<1>2. items' = items \cup new /\ payments' = payments \cup paid /\ reviews' = reviews \cup rated
  BY DEF Import
<1>3. IsFiniteSet(DOMAIN orders')
  <2>1. IsFiniteSet(DOMAIN orders)  BY DEF Data
  <2>2. IsFiniteSet(DOMAIN orders \cup {o})  BY <2>1, FS_AddElement
  <2>3. QED  BY <2>2, <1>1
<1>4. OrderOk(shape.order)  BY DataSet DEF OrderOk
<1>5. \A x \in DOMAIN orders' : OrderOk(orders'[x])
  BY <1>1, <1>4 DEF Data
<1>6. IsFiniteSet(items')
  <2>1. IsFiniteSet(shape.items)  BY DataSet
  <2>2. IsFiniteSet(new)  BY <2>1, ImageFinite
  <2>3. IsFiniteSet(items)  BY DEF Data
  <2> HIDE DEF new
  <2>4. IsFiniteSet(items \cup new)  BY <2>2, <2>3, FS_Union
  <2>5. QED  BY <2>4, <1>2
<1>7. IsFiniteSet(payments')
  <2>1. IsFiniteSet(shape.payments)  BY DataSet
  <2>2. IsFiniteSet(paid)  BY <2>1, ImageFinite
  <2>3. IsFiniteSet(payments)  BY DEF Data
  <2> HIDE DEF paid
  <2>4. IsFiniteSet(payments \cup paid)  BY <2>2, <2>3, FS_Union
  <2>5. QED  BY <2>4, <1>2
<1>8. \A i \in items' : ItemOk(i, DOMAIN orders')
  <2>1. \A i \in items : ItemOk(i, DOMAIN orders')  BY <1>1 DEF Data, ItemOk
  <2>2. \A i \in shape.items : /\ item[i].order = o /\ item[i].product = i.product
                              /\ item[i].seller = i.seller /\ item[i].value = i.value
    OBVIOUS
  <2>3. \A i \in shape.items : ItemOk(item[i], DOMAIN orders')
    <3> HIDE DEF item
    <3> QED  BY <2>2, <1>1, DataSet DEF ItemOk
  <2>4. \A i \in new : ItemOk(i, DOMAIN orders')
    <3> HIDE DEF item
    <3> QED  BY <2>3
  <2>5. QED
    <3> HIDE DEF new
    <3> QED  BY <2>1, <2>4, <1>2
<1>9. \A p \in payments' : PaymentOk(p, DOMAIN orders')
  <2>1. \A p \in payments : PaymentOk(p, DOMAIN orders')  BY <1>1 DEF Data, PaymentOk
  <2>2. \A p \in shape.payments : payment[p].order = o /\ payment[p].value = p.value
    OBVIOUS
  <2>3. \A p \in shape.payments : PaymentOk(payment[p], DOMAIN orders')
    <3> HIDE DEF payment
    <3> QED  BY <2>2, <1>1, DataSet DEF PaymentOk
  <2>4. \A p \in paid : PaymentOk(p, DOMAIN orders')
    <3> HIDE DEF payment
    <3> QED  BY <2>3
  <2>5. QED
    <3> HIDE DEF paid
    <3> QED  BY <2>1, <2>4, <1>2
<1>10. IsFiniteSet(reviews')
  <2>1. IsFiniteSet(shape.reviews)  BY DataSet
  <2>2. IsFiniteSet(rated)  BY <2>1, ImageFinite
  <2>3. IsFiniteSet(reviews)  BY DEF Data
  <2> HIDE DEF rated
  <2>4. IsFiniteSet(reviews \cup rated)  BY <2>2, <2>3, FS_Union
  <2>5. QED  BY <2>4, <1>2
<1>11. \A r \in reviews' : ReviewOk(r, DOMAIN orders')
  <2>1. \A r \in reviews : ReviewOk(r, DOMAIN orders')  BY <1>1 DEF Data, ReviewOk
  <2>2. \A r \in shape.reviews : r.id \in Int /\ r.score \in 1..5 /\ r.created \in Int  BY DataSet
  <2>3. \A r \in shape.reviews : review[r] \in ReviewRows /\ review[r].order = o
    BY <2>2 DEF ReviewRows
  <2>4. \A r \in shape.reviews : ReviewOk(review[r], DOMAIN orders')
    <3> HIDE DEF review
    <3> QED  BY <2>3, <1>1 DEF ReviewOk
  <2>5. \A r \in rated : ReviewOk(r, DOMAIN orders')
    <3> HIDE DEF review
    <3> QED  BY <2>4
  <2>6. QED
    <3> HIDE DEF rated
    <3> QED  BY <2>1, <2>5, <1>2
<1>12. QED
  <2> HIDE DEF new, paid, rated, item, payment, review
  <2> QED  BY <1>1, <1>3, <1>5, <1>6, <1>7, <1>8, <1>9, <1>10, <1>11 DEF Data

LEMMA DataNext == Data /\ [Next]_vars => Data'
<1> SUFFICES ASSUME Data, [Next]_vars PROVE Data'  OBVIOUS
<1>1. CASE Next  BY <1>1, DataImport DEF Next
<1>2. CASE UNCHANGED vars  BY <1>2 DEF vars, Data
<1>3. QED  BY <1>1, <1>2

LEMMA DataKept == Spec => []Data
BY DataInit, DataNext, PTL DEF Spec

(***************************************************************************)
(* Filters: the orders a handler selects, and how many they are.           *)
(***************************************************************************)
LEMMA MinMax ==
    ASSUME NEW a \in Int, NEW b \in Int
    PROVE  /\ Min({a, b}) = IF a =< b THEN a ELSE b
           /\ Max({a, b}) = IF a =< b THEN b ELSE a
<1>1. \A m \in {a, b} : (\A y \in {a, b} : m =< y) <=> m = IF a =< b THEN a ELSE b  OBVIOUS
<1>2. \A m \in {a, b} : (\A y \in {a, b} : m >= y) <=> m = IF a =< b THEN b ELSE a  OBVIOUS
<1>3. (IF a =< b THEN a ELSE b) \in {a, b} /\ (IF a =< b THEN b ELSE a) \in {a, b}  OBVIOUS
<1>4. Min({a, b}) = IF a =< b THEN a ELSE b  BY <1>1, <1>3 DEF Min
<1>5. Max({a, b}) = IF a =< b THEN b ELSE a  BY <1>2, <1>3 DEF Max
<1>6. QED  BY <1>4, <1>5

LEMMA ClampIs ==
    ASSUME NEW most \in Nat, NEW n \in 1 .. most
    PROVE  Clamp(n, 1, most) = n
<1>1. Min({most, n}) = n
  <2>1. \A x : x \in {most, n} /\ (\A y \in {most, n} : x =< y) <=> x = n  OBVIOUS
  <2>2. QED  BY <2>1 DEF Min
<1>2. Max({1, n}) = n
  <2>1. \A x : x \in {1, n} /\ (\A y \in {1, n} : x >= y) <=> x = n  OBVIOUS
  <2>2. QED  BY <2>1 DEF Max
<1>3. QED  BY <1>1, <1>2 DEF Clamp

\* What is placed is Error or some of the orders.
LEMMA PlacedOrders ==
    ASSUME Data, NEW city, NEW state, NEW status, NEW date, Placed(city, state, status, date) # Error
    PROVE  /\ Placed(city, state, status, date) \subseteq DOMAIN orders
           /\ IsFiniteSet(Placed(city, state, status, date))
<1> DEFINE sel == Placed(city, state, status, date)
<1>1. sel \subseteq DOMAIN orders  BY DEF Placed
<1>2. IsFiniteSet(DOMAIN orders)  BY DEF Data
<1> HIDE DEF sel
<1>3. IsFiniteSet(sel)  BY <1>1, <1>2, FS_Subset
<1>4. QED  BY <1>1, <1>3 DEF sel

\* A part of a finite set is finite and no larger.
LEMMA PartOf ==
    ASSUME NEW S, IsFiniteSet(S), NEW T \in SUBSET S
    PROVE  /\ IsFiniteSet(T) /\ Cardinality(T) \in Nat /\ Cardinality(S) \in Nat
           /\ Cardinality(T) =< Cardinality(S)
<1>1. IsFiniteSet(T) /\ Cardinality(T) =< Cardinality(S)  BY FS_Subset
<1>2. Cardinality(T) \in Nat  BY <1>1, FS_CardinalityType
<1>3. Cardinality(S) \in Nat  BY FS_CardinalityType
<1>4. QED  BY <1>1, <1>2, <1>3

\* Two parts without a common element are together no larger than the whole.
LEMMA DisjointParts ==
    ASSUME NEW S, IsFiniteSet(S), NEW A \in SUBSET S, NEW B \in SUBSET S, A \cap B = {}
    PROVE  /\ Cardinality(A) \in Nat /\ Cardinality(B) \in Nat
           /\ Cardinality(A \cup B) = Cardinality(A) + Cardinality(B)
           /\ Cardinality(A) + Cardinality(B) =< Cardinality(S)
<1>1. IsFiniteSet(A) /\ IsFiniteSet(B) /\ Cardinality(A) \in Nat /\ Cardinality(B) \in Nat  BY PartOf
<1>2. Cardinality(A \cup B) = Cardinality(A) + Cardinality(B) - Cardinality(A \cap B)  BY <1>1, FS_Union
<1>3. Cardinality(A \cap B) = 0  BY FS_EmptySet
<1>4. A \cup B \in SUBSET S  OBVIOUS
<1>5. Cardinality(A \cup B) =< Cardinality(S)  BY <1>4, PartOf
<1>6. QED  BY <1>1, <1>2, <1>3, <1>5

(***************************************************************************)
(* Windows.                                                                *)
(***************************************************************************)
\* A non-empty set of naturals has a least element.
LEMMA LeastOf ==
    ASSUME NEW T, T \subseteq Nat, T # {}
    PROVE  \E m \in T : \A n \in T : m =< n
<1>1. PICK m \in T : \A n \in T : ~ (<<n, m>> \in OpToRel(<, Nat))
  BY WFMin, NatLessThanWellFounded
<1>2. \A n \in T : n \in Nat /\ m \in Nat /\ ~ (n < m)  BY <1>1 DEF OpToRel
<1>3. QED  BY <1>2

\* Among the days a calendar marks, one of which is not after d, there is a last
\* one not after d.
LEMMA LastMark ==
    ASSUME NEW S \in SUBSET Int, NEW d \in Int, NEW x \in S, x =< d
    PROVE  /\ Max({s \in S : s =< d}) \in S /\ Max({s \in S : s =< d}) =< d
           /\ x =< Max({s \in S : s =< d})
<1> DEFINE marks == {s \in S : s =< d}
           gaps == {d - s : s \in marks}
<1>1. gaps \subseteq Nat /\ gaps # {}
  <2>1. \A s \in marks : d - s \in Nat  OBVIOUS
  <2>2. x \in marks  OBVIOUS
  <2> HIDE DEF marks
  <2>3. QED  BY <2>1, <2>2
<1> HIDE DEF gaps
<1>2. PICK m \in gaps : \A n \in gaps : m =< n  BY <1>1, LeastOf
<1> USE DEF gaps
<1>3. PICK last \in marks : m = d - last  OBVIOUS
<1>4. \A s \in marks : d - s \in gaps  OBVIOUS
<1>5. \A s \in marks : last >= s  BY <1>2, <1>3, <1>4
<1> HIDE DEF gaps, marks
<1>6. Max(marks) \in marks /\ \A s \in marks : Max(marks) >= s  BY <1>3, <1>5 DEF Max
<1>7. QED  BY <1>6 DEF marks

\* The orders placed between two instants.
InRange(lo, hi) == {o \in DOMAIN orders : lo =< orders[o].purchase /\ orders[o].purchase =< hi}

LEMMA CountIn ==
    ASSUME Data, NEW date, date # None, NEW lo \in Int, NEW hi \in Int,
           DateRange(date, today) = <<lo, hi>>
    PROVE  CountOrders(None, None, None, date) = Cardinality(InRange(lo, hi))
<1>1. DateRange(date, today) # Error  BY Distinct
<1>2. Placed(None, None, None, date) = InRange(lo, hi)
  BY <1>1 DEF Placed, KnownDate, InWindow, Within, InRange
<1>3. InRange(lo, hi) # Error  BY Distinct DEF Data, InRange
<1>4. QED  BY <1>2, <1>3 DEF CountOrders, Answer

\* Instants between two others.
Between(S, f, lo, hi) == {x \in S : lo =< f[x] /\ f[x] =< hi}
WholeSeconds(S, f) == IsFiniteSet(S) /\ \A x \in S : f[x] \in Int /\ f[x] % 3 # 2

\* Whole seconds of two ranges in a row are those of the range they span; the
\* last range may stop within the last second of its day.
LEMMA Tile ==
    ASSUME NEW S, NEW f, WholeSeconds(S, f),
           NEW d0 \in Int, NEW d1 \in Int, NEW t \in Int, d0 < d1, d1 =< t,
           NEW e \in {3 * d1 - 1, 3 * d1 - 2}
    PROVE  Cardinality(Between(S, f, 3 * d0, e)) + Cardinality(Between(S, f, 3 * d1, 3 * t + 2))
             = Cardinality(Between(S, f, 3 * d0, 3 * t + 1))
<1> DEFINE A == Between(S, f, 3 * d0, e)
           B == Between(S, f, 3 * d1, 3 * t + 2)
           C == Between(S, f, 3 * d0, 3 * t + 1)
<1>2. \A p \in Int : p % 3 # 2 =>
        /\ ~ (p =< e /\ 3 * d1 =< p)
        /\ 3 * d0 =< p /\ p =< 3 * t + 1 <=> \/ 3 * d0 =< p /\ p =< e
                                             \/ 3 * d1 =< p /\ p =< 3 * t + 2
  OBVIOUS
<1>3. A \cap B = {} /\ A \cup B = C  BY <1>2 DEF Between, WholeSeconds
<1>4. A \in SUBSET S /\ B \in SUBSET S  BY DEF Between
<1> HIDE DEF A, B, C
<1>5. Cardinality(A \cup B) = Cardinality(A) + Cardinality(B)  BY <1>3, <1>4, DisjointParts DEF WholeSeconds
<1>6. QED  BY <1>3, <1>5 DEF A, B, C

LEMMA NamedRange ==
    ASSUME NEW token \in Tokens
    PROVE  Named(token) # None /\ DateRange(Named(token), today) = TokenRange(token, today)
<1>1. Named(token) \in [token : Tokens]  BY DEF Named
<1>2. "from" \notin DOMAIN Named(token) /\ Named(token).token = token  BY DEF Named
<1>3. QED  BY <1>1, <1>2, Distinct DEF DateRange

\* The ranges of a window, of the one after it and of what they span, by the
\* days d0 and d1 they begin on and the instant e that ends the first.
Ranges(window, d0, d1, e) ==
    /\ d0 < d1 /\ d1 =< today /\ e \in {3 * d1 - 1, 3 * d1 - 2}
    /\ None \notin {Named(window[1]), Named(window[2]), Span(window)}
    /\ DateRange(Named(window[1]), today) = <<3 * d0, e>>
    /\ DateRange(Named(window[2]), today) = <<3 * d1, 3 * today + 2>>
    /\ DateRange(Span(window), today) = <<3 * d0, 3 * today + 1>>

LEMMA RangesAre ==
    ASSUME Data, NEW a \in Tokens, NEW b \in Tokens, NEW d0 \in Int, NEW d1 \in Int, d0 < d1, d1 =< today,
           NEW e \in {3 * d1 - 1, 3 * d1 - 2},
           TokenRange(a, today) = <<3 * d0, e>>, TokenRange(b, today) = <<3 * d1, 3 * today + 2>>
    PROVE  Ranges(<<a, b>>, d0, d1, e)
<1>1. today \in Int  BY Calendar DEF Data
<1>2. DateRange(Named(a), today) = <<3 * d0, e>> /\ Named(a) # None  BY NamedRange
<1>3. DateRange(Named(b), today) = <<3 * d1, 3 * today + 2>> /\ Named(b) # None  BY NamedRange
<1>4. Span(<<a, b>>) = [from |-> d0, to |-> today]  BY DEF Span
<1>5. Span(<<a, b>>) # None  BY <1>1, <1>4, Distinct
<1>6. DateRange(Span(<<a, b>>), today) = <<3 * d0, 3 * today + 1>>
  BY <1>4 DEF DateRange, ExplicitRange, From, Midnight, LastSecond
<1>7. QED  BY <1>2, <1>3, <1>5, <1>6 DEF Ranges

\* Every calendar gives such ranges.
LEMMA WindowRanges ==
    ASSUME Data, NEW window \in Windows
    PROVE  \E d0, d1, e \in Int : Ranges(window, d0, d1, e)
<1> DEFINE Found == \E d0, d1, e \in Int : Ranges(window, d0, d1, e)
<1>a. ASSUME NEW a \in Tokens, NEW b \in Tokens, NEW d0 \in Int, NEW d1 \in Int, d0 < d1, d1 =< today,
             NEW e \in {3 * d1 - 1, 3 * d1 - 2}, window = <<a, b>>,
             TokenRange(a, today) = <<3 * d0, e>>, TokenRange(b, today) = <<3 * d1, 3 * today + 2>>
      PROVE  Found
  <2>1. e \in Int  OBVIOUS
  <2>2. Ranges(window, d0, d1, e)  BY <1>a, RangesAre
  <2>3. QED  BY <2>1, <2>2
<1> SUFFICES Found  OBVIOUS
<1> HIDE DEF Found
<1>b. \A token \in {"yesterday", "today", "last_week", "this_week", "last_month", "this_month",
                    "last_year", "this_year"} : token \in Tokens
  BY DEF Tokens
<1>0. today \in Int /\ MonthStarts \in SUBSET Int /\ YearStarts \in SUBSET MonthStarts
      /\ YearStarts \in SUBSET Int
  BY Calendar, CalendarAssumption DEF Data
<1>1. CASE window = <<"yesterday", "today">>
  <2> DEFINE d0 == today - 1
             d1 == today
  <2>1. d0 \in Int /\ d1 \in Int /\ d0 < d1 /\ d1 =< today  BY <1>0
  <2>2. /\ TokenRange("yesterday", today) = <<3 * d0, 3 * d1 - 1>>
        /\ TokenRange("today", today) = <<3 * d1, 3 * today + 2>>
    BY <1>0 DEF From, Midnight, LastMicrosecond, LastSecond, TokenRange
  <2> HIDE DEF d0, d1
  <2>3. 3 * d1 - 1 \in {3 * d1 - 1, 3 * d1 - 2}  OBVIOUS
  <2>4. QED  BY <1>1, <2>1, <2>2, <2>3, <1>a, <1>b
<1>2. CASE window = <<"last_week", "this_week">>
  <2> DEFINE d1 == today - Weekday(today)
  <2>1. d1 \in Int /\ d1 - 7 \in Int /\ d1 =< today  BY <1>0 DEF Weekday
  <2>2. /\ TokenRange("last_week", today) = <<3 * (d1 - 7), 3 * d1 - 1>>
        /\ TokenRange("this_week", today) = <<3 * d1, 3 * today + 2>>
    BY <1>0 DEF From, Midnight, LastMicrosecond, TokenRange, Weekday, LastSunday
  <2> HIDE DEF d1
  <2>3. 3 * d1 - 1 \in {3 * d1 - 1, 3 * d1 - 2} /\ d1 - 7 < d1  BY <2>1
  <2>4. QED  BY <1>2, <2>1, <2>2, <2>3, <1>a, <1>b
<1>3. PICK y0 \in YearStarts, y1 \in YearStarts : y0 < y1 /\ y1 =< today
  BY Calendar DEF Data
<1>4. CASE window = <<"last_month", "this_month">>
  <2> DEFINE d1 == MonthStart(today)
             d0 == MonthStart(d1 - 1)
  <2>1. d1 \in Int /\ d1 =< today /\ y1 =< d1  BY <1>0, <1>3, LastMark DEF MonthStart
  <2> HIDE DEF d1
  <2>2. d0 \in Int /\ d0 =< d1 - 1
    <3>1. d1 - 1 \in Int /\ y0 \in MonthStarts /\ y0 =< d1 - 1  BY <1>0, <1>3, <2>1
    <3>2. QED  BY <1>0, <3>1, LastMark DEF MonthStart
  <2> HIDE DEF d0
  <2>3. /\ TokenRange("last_month", today) = <<3 * d0, 3 * d1 - 2>>
        /\ TokenRange("this_month", today) = <<3 * d1, 3 * today + 2>>
    BY <1>0, <2>1, <2>2 DEF From, Midnight, LastMicrosecond, LastSecond, TokenRange, d0, d1
  <2>4. 3 * d1 - 2 \in {3 * d1 - 1, 3 * d1 - 2} /\ d0 < d1  BY <2>1, <2>2
  <2>5. QED  BY <1>4, <2>1, <2>2, <2>3, <2>4, <1>a, <1>b
<1>5. CASE window = <<"last_year", "this_year">>
  <2> DEFINE d1 == YearStart(today)
             d0 == YearStart(d1 - 1)
  <2>1. d1 \in Int /\ d1 =< today /\ y1 =< d1  BY <1>0, <1>3, LastMark DEF YearStart
  <2> HIDE DEF d1
  <2>2. d0 \in Int /\ d0 =< d1 - 1
    <3>1. d1 - 1 \in Int /\ y0 \in YearStarts /\ y0 =< d1 - 1  BY <1>0, <1>3, <2>1
    <3>2. QED  BY <1>0, <3>1, LastMark DEF YearStart
  <2> HIDE DEF d0
  <2>3. /\ TokenRange("last_year", today) = <<3 * d0, 3 * d1 - 1>>
        /\ TokenRange("this_year", today) = <<3 * d1, 3 * today + 2>>
    BY <1>0, <2>1, <2>2 DEF From, Midnight, LastMicrosecond, LastSecond, TokenRange, d0, d1
  <2>4. 3 * d1 - 1 \in {3 * d1 - 1, 3 * d1 - 2} /\ d0 < d1  BY <2>1, <2>2
  <2>5. QED  BY <1>5, <2>1, <2>2, <2>3, <2>4, <1>a, <1>b
<1>6. QED  BY <1>1, <1>2, <1>4, <1>5 DEF Windows

\* A window and the one before it split the range they span: no order falls
\* between them or into both.
THEOREM WindowsMeet == Spec => []WindowsTile
<1>1. Data => WindowsTile
  <2> SUFFICES ASSUME Data, NEW window \in Windows
               PROVE  CountOrders(None, None, None, Named(window[1]))
                        + CountOrders(None, None, None, Named(window[2]))
                        = CountOrders(None, None, None, Span(window))
    BY DEF WindowsTile
  <2>1. PICK d0, d1, e \in Int : Ranges(window, d0, d1, e)  BY WindowRanges
  <2>2. today \in Int  BY Calendar DEF Data
  <2> DEFINE f == [o \in DOMAIN orders |-> orders[o].purchase]
  <2>3. ASSUME NEW lo \in Int, NEW hi \in Int PROVE InRange(lo, hi) = Between(DOMAIN orders, f, lo, hi)
    BY DEF InRange, Between
  <2>4. /\ CountOrders(None, None, None, Named(window[1])) = Cardinality(InRange(3 * d0, e))
        /\ CountOrders(None, None, None, Named(window[2])) = Cardinality(InRange(3 * d1, 3 * today + 2))
        /\ CountOrders(None, None, None, Span(window)) = Cardinality(InRange(3 * d0, 3 * today + 1))
    BY <2>1, <2>2, CountIn DEF Ranges
  <2>5. WholeSeconds(DOMAIN orders, f)  BY DEF Data, OrderOk, WholeSeconds
  <2> HIDE DEF f
  <2>6. Cardinality(Between(DOMAIN orders, f, 3 * d0, e))
          + Cardinality(Between(DOMAIN orders, f, 3 * d1, 3 * today + 2))
          = Cardinality(Between(DOMAIN orders, f, 3 * d0, 3 * today + 1))
    <3>1. d0 < d1 /\ d1 =< today /\ e \in {3 * d1 - 1, 3 * d1 - 2}  BY <2>1 DEF Ranges
    <3>2. QED  BY <2>2, <2>5, <3>1, Tile
  <2>7. QED  BY <2>2, <2>3, <2>4, <2>6
<1>2. QED  BY <1>1, DataKept, PTL

(***************************************************************************)
(* Sums.  A fold over a finite set is worked out by taking away whichever  *)
(* element CHOOSE picks.  These lemmas show that the result does not       *)
(* depend on the order, and that a sum splits along any grouping.          *)
(***************************************************************************)
AnyOf(s) == CHOOSE x \in s : TRUE
SumStep(f, s, it) == IF s = {} THEN 0 ELSE f[AnyOf(s)] + it[s \ {AnyOf(s)}]
SumTable(f, S) == CHOOSE it : it = [s \in SUBSET S |-> SumStep(f, s, it)]
SumOver(f, S) == FoldFunctionOnSet(+, 0, f, S)

IsTable(f, S, it) == /\ it \in [SUBSET S -> Int]
                     /\ \A s \in SUBSET S : it[s] = SumStep(f, s, it)

LEMMA FoldIsTable ==
    ASSUME NEW f, NEW S
    PROVE  SumOver(f, S) = SumTable(f, S)[S]
BY DEF SumOver, FoldFunctionOnSet, MapThenFoldSet, SumTable, SumStep, AnyOf

LEMMA AnyOfIsIn ==
    ASSUME NEW s, s # {}
    PROVE  AnyOf(s) \in s
BY DEF AnyOf

\* There is a table of the sums of all parts of a finite set: it is built up from
\* the smaller parts.
LEMMA TableExists ==
    ASSUME NEW S, IsFiniteSet(S), NEW f, \A x \in S : f[x] \in Int
    PROVE  \E it : IsTable(f, S, it)
<1> DEFINE Upto(n) == {s \in SUBSET S : Cardinality(s) =< n}
           Part(n, g) == g \in [Upto(n) -> Int] /\ \A s \in Upto(n) : g[s] = SumStep(f, s, g)
           Bad == {n \in Nat : \A g : ~ Part(n, g)}
<1>1. \A s \in SUBSET S : IsFiniteSet(s) /\ Cardinality(s) \in Nat
  BY PartOf
<1>2. ASSUME NEW s \in SUBSET S, s # {}
      PROVE  /\ s \ {AnyOf(s)} \in SUBSET S /\ Cardinality(s \ {AnyOf(s)}) = Cardinality(s) - 1
             /\ f[AnyOf(s)] \in Int
  BY <1>1, <1>2, AnyOfIsIn, FS_RemoveElement
<1>3. ASSUME NEW s \in SUBSET S, Cardinality(s) = 0 PROVE s = {}
  BY <1>1, <1>3, FS_EmptySet
<1>4. 0 \notin Bad
  <2> DEFINE g == [s \in Upto(0) |-> 0]
  <2>1. \A s \in Upto(0) : s = {}  BY <1>1, <1>3
  <2>2. Part(0, g)
    <3> HIDE DEF Upto
    <3> QED  BY <2>1 DEF SumStep
  <2> HIDE DEF Part, g
  <2>3. QED  BY <2>2
<1>5. ASSUME NEW n \in Nat, n \notin Bad PROVE n + 1 \notin Bad
  <2> HIDE DEF Part, Upto
  <2>1. PICK g : Part(n, g)  BY <1>5
  <2> DEFINE h == [s \in Upto(n + 1) |-> IF s \in Upto(n) THEN g[s] ELSE SumStep(f, s, g)]
  <2>2. \A s \in Upto(n) : g[s] \in Int /\ g[s] = SumStep(f, s, g)  BY <2>1 DEF Part
  <2>3. \A s \in Upto(n) : s \in Upto(n + 1)  BY <1>1 DEF Upto
  <2>4. \A s \in Upto(n + 1) : s # {} => s \ {AnyOf(s)} \in Upto(n)
    BY <1>1, <1>2 DEF Upto
  <2>5. ASSUME NEW s \in Upto(n + 1) PROVE h[s] \in Int /\ h[s] = SumStep(f, s, h)
    <3>1. s \in SUBSET S  BY DEF Upto
    <3>2. CASE s = {}
      <4>1. s \in Upto(n)  BY <3>2, FS_EmptySet DEF Upto
      <4>2. QED  BY <2>2, <3>2, <4>1 DEF SumStep
    <3>3. CASE s # {}
      <4>1. s \ {AnyOf(s)} \in Upto(n)  BY <2>4, <3>3
      <4>2. h[s \ {AnyOf(s)}] = g[s \ {AnyOf(s)}]  BY <2>3, <4>1
      <4>3. SumStep(f, s, h) = SumStep(f, s, g)  BY <4>2 DEF SumStep
      <4>4. SumStep(f, s, g) \in Int
        <5>1. f[AnyOf(s)] \in Int /\ g[s \ {AnyOf(s)}] \in Int  BY <1>2, <2>2, <3>1, <3>3, <4>1
        <5>2. SumStep(f, s, g) = f[AnyOf(s)] + g[s \ {AnyOf(s)}]  BY <3>3 DEF SumStep
        <5>3. QED  BY <5>1, <5>2
      <4>5. h[s] = SumStep(f, s, g)  BY <2>2
      <4> HIDE DEF h
      <4>6. QED  BY <4>3, <4>4, <4>5
    <3>4. QED  BY <3>2, <3>3
  <2>6. h \in [Upto(n + 1) -> Int]  BY <2>5
  <2> HIDE DEF h
  <2>7. Part(n + 1, h)  BY <2>5, <2>6 DEF Part
  <2>8. QED  BY <2>7
<1>6. Bad = {}
  <2> SUFFICES ASSUME Bad # {} PROVE FALSE  OBVIOUS
  <2>1. Bad \subseteq Nat  OBVIOUS
  <2> HIDE DEF Bad
  <2>2. PICK m \in Bad : \A n \in Bad : m =< n  BY <2>1, LeastOf
  <2>3. m \in Nat /\ m # 0  BY <1>4, <2>1, <2>2
  <2>4. m - 1 \in Nat /\ m - 1 \notin Bad  BY <2>2, <2>3
  <2>5. m - 1 + 1 \notin Bad  BY <1>5, <2>4
  <2>6. m - 1 + 1 = m  BY <2>3
  <2>7. QED  BY <2>2, <2>5, <2>6
<1>7. Cardinality(S) \in Nat  BY <1>1
<1>8. PICK g : Part(Cardinality(S), g)
  <2> HIDE DEF Part
  <2> QED  BY <1>6, <1>7
<1>9. Upto(Cardinality(S)) = SUBSET S  BY PartOf
<1>10. IsTable(f, S, g)
  <2> HIDE DEF Upto
  <2> QED  BY <1>8, <1>9 DEF IsTable
<1>11. QED  BY <1>10

\* Tables of functions that agree are equal, on the parts that both have.
LEMMA TablesAgree ==
    ASSUME NEW T, IsFiniteSet(T), NEW f, NEW g, \A x \in T : f[x] = g[x],
           NEW a, \A s \in SUBSET T : a[s] = SumStep(f, s, a),
           NEW b, \A s \in SUBSET T : b[s] = SumStep(g, s, b)
    PROVE  \A s \in SUBSET T : a[s] = b[s]
<1> DEFINE Bad == {n \in Nat : \E s \in SUBSET T : Cardinality(s) = n /\ a[s] # b[s]}
<1>1. \A s \in SUBSET T : IsFiniteSet(s) /\ Cardinality(s) \in Nat  BY PartOf
<1>2. Bad = {}
  <2> SUFFICES ASSUME Bad # {} PROVE FALSE  OBVIOUS
  <2>1. Bad \subseteq Nat  OBVIOUS
  <2> HIDE DEF Bad
  <2>2. PICK m \in Bad : \A n \in Bad : m =< n  BY <2>1, LeastOf
  <2>3. PICK s \in SUBSET T : Cardinality(s) = m /\ a[s] # b[s]  BY DEF Bad
  <2>4. s # {}  BY <2>3 DEF SumStep
  <2>5. AnyOf(s) \in s  BY <2>4, AnyOfIsIn
  <2> DEFINE r == s \ {AnyOf(s)}
  <2>6. r \in SUBSET T /\ Cardinality(r) = m - 1  BY <1>1, <2>3, <2>5, FS_RemoveElement
  <2>7. Cardinality(r) \in Nat  BY <1>1, <2>6
  <2>8. m - 1 \notin Bad  BY <2>1, <2>2
  <2>9. a[r] = b[r]  BY <2>6, <2>7, <2>8 DEF Bad
  <2>10. a[s] = f[AnyOf(s)] + a[r] /\ b[s] = g[AnyOf(s)] + b[r]  BY <2>4 DEF SumStep
  <2>11. f[AnyOf(s)] = g[AnyOf(s)]  BY <2>5
  <2> HIDE DEF r
  <2>12. QED  BY <2>3, <2>9, <2>10, <2>11
<1>3. QED  BY <1>1, <1>2

LEMMA TableIs ==
    ASSUME NEW S, IsFiniteSet(S), NEW f, \A x \in S : f[x] \in Int
    PROVE  IsTable(f, S, SumTable(f, S))
<1>1. PICK it : IsTable(f, S, it)  BY TableExists
<1>2. it = [s \in SUBSET S |-> SumStep(f, s, it)]  BY <1>1 DEF IsTable
<1>3. SumTable(f, S) = [s \in SUBSET S |-> SumStep(f, s, SumTable(f, S))]  BY <1>2 DEF SumTable
<1> DEFINE t == SumTable(f, S)
<1> HIDE DEF t
<1>4. /\ t = [s \in SUBSET S |-> SumStep(f, s, t)]
      /\ \A s \in SUBSET S : t[s] = SumStep(f, s, t)
      /\ \A s \in SUBSET S : it[s] = SumStep(f, s, it)
  BY <1>1, <1>3 DEF t, IsTable
<1>5. \A s \in SUBSET S : t[s] = it[s]  BY <1>4, TablesAgree
<1>6. \A s \in SUBSET S : t[s] \in Int  BY <1>1, <1>5 DEF IsTable
<1>7. t \in [SUBSET S -> Int]  BY <1>4, <1>6
<1>8. IsTable(f, S, t)  BY <1>4, <1>7 DEF IsTable
<1>9. QED  BY <1>8 DEF t

\* What a sum is: nothing for no element, and otherwise the value of any one
\* element and the sum of the others.
LEMMA SumParts ==
    ASSUME NEW S, IsFiniteSet(S), NEW f, \A x \in S : f[x] \in Int
    PROVE  /\ SumOver(f, S) \in Int
           /\ S = {} => SumOver(f, S) = 0
           /\ S # {} => SumOver(f, S) = f[AnyOf(S)] + SumOver(f, S \ {AnyOf(S)})
<1> DEFINE t == SumTable(f, S)
<1>1. IsTable(f, S, t)  BY TableIs
<1> HIDE DEF t
<1>2. SumOver(f, S) = t[S]  BY FoldIsTable DEF t
<1>3. t[S] \in Int /\ t[S] = SumStep(f, S, t)  BY <1>1 DEF IsTable
<1>4. ASSUME NEW T \in SUBSET S PROVE SumOver(f, T) = t[T]
  <2> DEFINE u == SumTable(f, T)
  <2>1. IsFiniteSet(T)  BY PartOf
  <2>2. IsTable(f, T, u)  BY <2>1, TableIs
  <2> HIDE DEF u
  <2>3. \A s \in SUBSET T : u[s] = SumStep(f, s, u) /\ t[s] = SumStep(f, s, t)
    BY <1>1, <2>2 DEF IsTable
  <2>4. \A s \in SUBSET T : u[s] = t[s]  BY <2>1, <2>3, TablesAgree
  <2>5. u[T] = t[T]  BY <2>4
  <2>6. SumOver(f, T) = u[T]  BY FoldIsTable DEF u
  <2>7. QED  BY <2>5, <2>6
<1>5. S = {} => t[S] = 0  BY <1>3 DEF SumStep
<1>6. S # {} => t[S] = f[AnyOf(S)] + t[S \ {AnyOf(S)}]  BY <1>3 DEF SumStep
<1>7. SumOver(f, S \ {AnyOf(S)}) = t[S \ {AnyOf(S)}]  BY <1>4
<1>8. QED  BY <1>2, <1>3, <1>5, <1>6, <1>7

\* The order does not matter: any element may be taken away first.
LEMMA SumRemove ==
    ASSUME NEW S, IsFiniteSet(S), NEW f, \A x \in S : f[x] \in Int, NEW z \in S
    PROVE  SumOver(f, S) = f[z] + SumOver(f, S \ {z})
<1> DEFINE Bad == {n \in Nat : \E T \in SUBSET S : Cardinality(T) = n /\
                        \E x \in T : SumOver(f, T) # f[x] + SumOver(f, T \ {x})}
<1>1. \A T \in SUBSET S : IsFiniteSet(T) /\ Cardinality(T) \in Nat  BY PartOf
<1>2. \A T \in SUBSET S : SumOver(f, T) \in Int  BY <1>1, SumParts
<1>3. ASSUME NEW T \in SUBSET S, T # {}
      PROVE  SumOver(f, T) = f[AnyOf(T)] + SumOver(f, T \ {AnyOf(T)})
  BY <1>1, <1>3, SumParts
<1>4. Bad = {}
  <2> SUFFICES ASSUME Bad # {} PROVE FALSE  OBVIOUS
  <2>1. Bad \subseteq Nat  OBVIOUS
  <2> HIDE DEF Bad
  <2>2. PICK m \in Bad : \A n \in Bad : m =< n  BY <2>1, LeastOf
  <2>0. PICK T \in SUBSET S :
             Cardinality(T) = m /\ \E x \in T : SumOver(f, T) # f[x] + SumOver(f, T \ {x})
    BY DEF Bad
  <2>3. PICK x \in T : Cardinality(T) = m /\ SumOver(f, T) # f[x] + SumOver(f, T \ {x})
    BY <2>0
  <2> DEFINE c == AnyOf(T)
  <2>4. c \in T  BY AnyOfIsIn
  <2>5. SumOver(f, T) = f[c] + SumOver(f, T \ {c})  BY <1>3, <2>4
  <2> HIDE DEF c
  <2>6. c # x  BY <2>3, <2>5
  <2>7. ASSUME NEW d \in T, NEW y \in T \ {d}
        PROVE  SumOver(f, T \ {d}) = f[y] + SumOver(f, (T \ {d}) \ {y})
    <3>1. PICK U \in SUBSET S : U = T \ {d}  OBVIOUS
    <3>2. IsFiniteSet(T)  BY <1>1
    <3>3. Cardinality(U) = m - 1  BY <2>3, <3>1, <3>2, FS_RemoveElement
    <3>4. Cardinality(U) \in Nat  BY <1>1
    <3>5. m - 1 \notin Bad  BY <2>1, <2>2
    <3>6. \A w \in U : SumOver(f, U) = f[w] + SumOver(f, U \ {w})
      BY <3>3, <3>4, <3>5 DEF Bad
    <3>7. QED  BY <3>1, <3>6
  <2>8. PICK r \in SUBSET S : r = (T \ {x}) \ {c} /\ r = (T \ {c}) \ {x}  OBVIOUS
  <2>9. SumOver(f, T \ {x}) = f[c] + SumOver(f, r)
    <3>1. c \in T \ {x}  BY <2>4, <2>6
    <3>2. QED  BY <2>7, <2>8, <3>1
  <2>10. SumOver(f, T \ {c}) = f[x] + SumOver(f, r)
    <3>1. x \in T \ {c}  BY <2>6
    <3>2. QED  BY <2>4, <2>7, <2>8, <3>1
  <2>11. f[c] \in Int /\ f[x] \in Int /\ SumOver(f, r) \in Int  BY <1>2, <2>4
  <2>12. f[x] + SumOver(f, T \ {x}) = f[c] + SumOver(f, T \ {c})
    BY <2>9, <2>10, <2>11
  <2>13. QED  BY <2>3, <2>5, <2>12
<1>5. QED  BY <1>1, <1>4

\* F starts at 0 and grows by the value of each element.
AddsEach(F, f, S) ==
    F[{}] = 0 /\ \A T \in SUBSET S : \A x \in T : F[T] = f[x] + F[T \ {x}]

\* A function of the parts of S that adds the value of each element is the sum:
\* the induction principle of the proofs below.
LEMMA SumUnique ==
    ASSUME NEW S, IsFiniteSet(S), NEW f, \A x \in S : f[x] \in Int, NEW F, AddsEach(F, f, S)
    PROVE  SumOver(f, S) = F[S]
<1> DEFINE t == SumTable(f, S)
<1>1. \A s \in SUBSET S : t[s] = SumStep(f, s, t)  BY TableIs DEF IsTable
<1>2. \A s \in SUBSET S : F[s] = SumStep(f, s, F)  BY AnyOfIsIn DEF SumStep, AddsEach
<1>3. SumOver(f, S) = t[S]  BY FoldIsTable
<1> HIDE DEF t
<1>4. \A s \in SUBSET S : t[s] = F[s]  BY <1>1, <1>2, TablesAgree
<1>5. QED  BY <1>3, <1>4

\* Only the values of the elements matter.
LEMMA SumAgree ==
    ASSUME NEW S, IsFiniteSet(S), NEW f, NEW g, \A x \in S : f[x] \in Int /\ f[x] = g[x]
    PROVE  SumOver(f, S) = SumOver(g, S)
<1> DEFINE t == SumTable(f, S)
           u == SumTable(g, S)
<1>1. IsTable(f, S, t) /\ IsTable(g, S, u)  BY TableIs
<1>2. SumOver(f, S) = t[S] /\ SumOver(g, S) = u[S]  BY FoldIsTable
<1> HIDE DEF t, u
<1>3. \A s \in SUBSET S : t[s] = SumStep(f, s, t) /\ u[s] = SumStep(g, s, u)  BY <1>1 DEF IsTable
<1>4. \A s \in SUBSET S : t[s] = u[s]  BY <1>3, TablesAgree
<1>5. QED  BY <1>2, <1>4

\* The elements of rows whose key is k.
Fibre(rows, key, k) == {r \in rows : key[r] = k}
Fibres(f, rows, key, K) == [k \in K |-> SumOver(f, Fibre(rows, key, k))]

\* Grouping by a key and adding up the groups gives the sum of all.
LEMMA SumOfGroups ==
    ASSUME NEW rows, IsFiniteSet(rows), NEW f, \A r \in rows : f[r] \in Int,
           NEW K, IsFiniteSet(K), NEW key, \A r \in rows : key[r] \in K
    PROVE  SumOver(Fibres(f, rows, key, K), K) = SumOver(f, rows)
<1> DEFINE F == [T \in SUBSET rows |-> SumOver(Fibres(f, T, key, K), K)]
<1>1. ASSUME NEW T \in SUBSET rows, NEW k
      PROVE  IsFiniteSet(Fibre(T, key, k)) /\ SumOver(f, Fibre(T, key, k)) \in Int
  <2>1. Fibre(T, key, k) \in SUBSET rows  BY DEF Fibre
  <2>2. IsFiniteSet(Fibre(T, key, k))  BY <2>1, PartOf
  <2>3. \A r \in Fibre(T, key, k) : f[r] \in Int  BY <2>1
  <2>4. QED  BY <2>2, <2>3, SumParts
<1>2. ASSUME NEW T \in SUBSET rows, NEW k \in K
      PROVE  /\ Fibres(f, T, key, K)[k] \in Int
             /\ Fibres(f, T, key, K)[k] = SumOver(f, Fibre(T, key, k))
  BY <1>1 DEF Fibres
<1>3. F[{}] = 0
  <2>1. \A T \in SUBSET K : SumOver(Fibres(f, {}, key, K), T) \in Int
    <3> SUFFICES ASSUME NEW T \in SUBSET K PROVE SumOver(Fibres(f, {}, key, K), T) \in Int  OBVIOUS
    <3>1. IsFiniteSet(T)  BY PartOf
    <3>2. \A k \in T : Fibres(f, {}, key, K)[k] \in Int  BY <1>2
    <3>3. QED  BY <3>1, <3>2, SumParts
  <2>2. ASSUME NEW k \in K PROVE Fibres(f, {}, key, K)[k] = 0
    <3>1. Fibre({}, key, k) = {}  BY DEF Fibre
    <3>2. SumOver(f, {}) = 0  BY FS_EmptySet, SumParts
    <3>3. QED  BY <3>1, <3>2 DEF Fibres
  <2> DEFINE G == [T \in SUBSET K |-> 0]
  <2>3. \A T \in SUBSET K : \A k \in T : G[T] = Fibres(f, {}, key, K)[k] + G[T \ {k}]
    BY <2>2
  <2>4. G[{}] = 0 /\ G[K] = 0  OBVIOUS
  <2> HIDE DEF G
  <2> DEFINE a == Fibres(f, {}, key, K)
  <2>5. \A k \in K : a[k] \in Int  BY <2>2
  <2>6. \A T \in SUBSET K : \A k \in T : G[T] = a[k] + G[T \ {k}]  BY <2>3
  <2>7. F[{}] = SumOver(a, K)  OBVIOUS
  <2> HIDE DEF a, F
  <2>8. AddsEach(G, a, K)  BY <2>4, <2>6 DEF AddsEach
  <2>9. SumOver(a, K) = G[K]  BY <2>5, <2>8, SumUnique
  <2>10. QED  BY <2>4, <2>7, <2>9
<1>4. ASSUME NEW T \in SUBSET rows, NEW x \in T PROVE F[T] = f[x] + F[T \ {x}]
  <2> DEFINE k0 == key[x]
             a == Fibres(f, T, key, K)
             b == Fibres(f, T \ {x}, key, K)
  <2>1. k0 \in K /\ T \ {x} \in SUBSET rows /\ f[x] \in Int  OBVIOUS
  <2>2. \A k \in K : a[k] \in Int /\ b[k] \in Int  BY <1>2, <2>1
  <2>3. a[k0] = f[x] + b[k0]
    <3>1. Fibre(T, key, k0) \ {x} = Fibre(T \ {x}, key, k0) /\ x \in Fibre(T, key, k0)  BY DEF Fibre
    <3>2. IsFiniteSet(Fibre(T, key, k0))  BY <1>1
    <3>3. \A r \in Fibre(T, key, k0) : f[r] \in Int  BY DEF Fibre
    <3>4. SumOver(f, Fibre(T, key, k0)) = f[x] + SumOver(f, Fibre(T, key, k0) \ {x})
      <4> DEFINE all == Fibre(T, key, k0)
      <4> HIDE DEF all, k0
      <4>1. x \in all /\ IsFiniteSet(all) /\ \A r \in all : f[r] \in Int
        BY <3>1, <3>2, <3>3 DEF all
      <4>2. SumOver(f, all) = f[x] + SumOver(f, all \ {x})  BY <4>1, SumRemove
      <4>3. QED  BY <4>2 DEF all
    <3>5. SumOver(f, Fibre(T, key, k0)) = f[x] + SumOver(f, Fibre(T \ {x}, key, k0))
      BY <3>1, <3>4
    <3>6. QED  BY <1>2, <2>1, <3>5
  <2>4. ASSUME NEW k \in K \ {k0} PROVE a[k] = b[k]
    <3>1. Fibre(T, key, k) = Fibre(T \ {x}, key, k)  BY DEF Fibre
    <3>2. QED  BY <1>2, <2>1, <3>1
  <2>5. F[T] = SumOver(a, K) /\ F[T \ {x}] = SumOver(b, K)  BY <2>1
  <2> HIDE DEF a, b, F
  <2>6. SumOver(a, K) = a[k0] + SumOver(a, K \ {k0}) /\ SumOver(b, K) = b[k0] + SumOver(b, K \ {k0})
    BY <2>1, <2>2, SumRemove
  <2>7. IsFiniteSet(K \ {k0})  BY FS_RemoveElement
  <2>8. SumOver(a, K \ {k0}) = SumOver(b, K \ {k0})
    <3>1. \A k \in K \ {k0} : a[k] \in Int /\ a[k] = b[k]  BY <2>2, <2>4
    <3>2. QED  BY <2>7, <3>1, SumAgree
  <2>9. SumOver(b, K \ {k0}) \in Int
    <3>1. \A k \in K \ {k0} : b[k] \in Int  BY <2>2
    <3>2. QED  BY <2>7, <3>1, SumParts
  <2>10. b[k0] \in Int  BY <2>1, <2>2
  <2> HIDE DEF k0
  <2>11. QED  BY <2>1, <2>3, <2>5, <2>6, <2>8, <2>9, <2>10
<1>5. F[rows] = SumOver(Fibres(f, rows, key, K), K)  OBVIOUS
<1> HIDE DEF F
<1>6. AddsEach(F, f, rows)  BY <1>3, <1>4 DEF AddsEach
<1>7. SumOver(f, rows) = F[rows]  BY <1>6, SumUnique
<1>8. QED  BY <1>5, <1>7

LEMMA SumOfPart ==
    ASSUME NEW S, IsFiniteSet(S), NEW f, \A x \in S : f[x] \in Int, NEW T \in SUBSET S
    PROVE  IsFiniteSet(T) /\ SumOver(f, T) \in Int
<1>1. IsFiniteSet(T)  BY PartOf
<1>2. \A x \in T : f[x] \in Int  OBVIOUS
<1>3. QED  BY <1>1, <1>2, SumParts

\* A sum is that of a part and that of the rest.
LEMMA SumSplit ==
    ASSUME NEW S, IsFiniteSet(S), NEW f, \A x \in S : f[x] \in Int, NEW T \in SUBSET S
    PROVE  SumOver(f, S) = SumOver(f, T) + SumOver(f, S \ T)
<1> DEFINE F == [U \in SUBSET S |-> SumOver(f, U \cap T) + SumOver(f, U \ T)]
<1>1. ASSUME NEW U \in SUBSET S, NEW x \in U
      PROVE  SumOver(f, U) = f[x] + SumOver(f, U \ {x})
  <2>1. IsFiniteSet(U) /\ \A y \in U : f[y] \in Int  BY PartOf
  <2>2. QED  BY <2>1, SumRemove
<1>2. F[{}] = 0
  <2>1. SumOver(f, {}) = 0  BY FS_EmptySet, SumParts
  <2>2. {} \cap T = {} /\ {} \ T = {}  OBVIOUS
  <2>3. QED  BY <2>1, <2>2
<1>3. ASSUME NEW U \in SUBSET S, NEW x \in U PROVE F[U] = f[x] + F[U \ {x}]
  <2>1. U \cap T \in SUBSET S /\ U \ T \in SUBSET S /\ U \ {x} \in SUBSET S
        /\ (U \ {x}) \cap T \in SUBSET S /\ (U \ {x}) \ T \in SUBSET S
    OBVIOUS
  <2>2. F[U] = SumOver(f, U \cap T) + SumOver(f, U \ T)
        /\ F[U \ {x}] = SumOver(f, (U \ {x}) \cap T) + SumOver(f, (U \ {x}) \ T)
    BY <2>1
  <2>3. /\ SumOver(f, (U \ {x}) \cap T) \in Int /\ SumOver(f, (U \ {x}) \ T) \in Int
        /\ f[x] \in Int
    BY <2>1, SumOfPart
  <2> DEFINE a == SumOver(f, (U \ {x}) \cap T)
             b == SumOver(f, (U \ {x}) \ T)
  <2>4. a \in Int /\ b \in Int /\ f[x] \in Int /\ F[U \ {x}] = a + b  BY <2>2, <2>3
  <2>5. F[U] = SumOver(f, U \cap T) + SumOver(f, U \ T)  BY <2>2
  <2>6. CASE x \in T
    <3>1. x \in U \cap T /\ (U \cap T) \ {x} = (U \ {x}) \cap T /\ U \ T = (U \ {x}) \ T
      BY <2>6
    <3>2. SumOver(f, U \cap T) = f[x] + SumOver(f, (U \cap T) \ {x})  BY <1>1, <2>1, <3>1
    <3>3. SumOver(f, U \cap T) = f[x] + a /\ SumOver(f, U \ T) = b  BY <3>1, <3>2
    <3> HIDE DEF F, a, b
    <3>4. QED  BY <2>4, <2>5, <3>3
  <2>7. CASE x \notin T
    <3>1. x \in U \ T /\ (U \ T) \ {x} = (U \ {x}) \ T /\ U \cap T = (U \ {x}) \cap T
      BY <2>7
    <3>2. SumOver(f, U \ T) = f[x] + SumOver(f, (U \ T) \ {x})  BY <1>1, <2>1, <3>1
    <3>3. SumOver(f, U \ T) = f[x] + b /\ SumOver(f, U \cap T) = a  BY <3>1, <3>2
    <3> HIDE DEF F, a, b
    <3>4. QED  BY <2>4, <2>5, <3>3
  <2>8. QED  BY <2>6, <2>7
<1>4. AddsEach(F, f, S)
  <2> HIDE DEF F
  <2>1. QED  BY <1>2, <1>3 DEF AddsEach
<1>5. F[S] = SumOver(f, T) + SumOver(f, S \ T)
  <2>1. S \cap T = T  OBVIOUS
  <2>2. QED  BY <2>1
<1> HIDE DEF F
<1>6. SumOver(f, S) = F[S]  BY <1>4, SumUnique
<1>7. QED  BY <1>5, <1>6

\* A sum of naturals is one, and no smaller than that of a part.
LEMMA SumNat ==
    ASSUME NEW S, IsFiniteSet(S), NEW f, \A x \in S : f[x] \in Nat
    PROVE  \A T \in SUBSET S : SumOver(f, T) \in Nat
<1> DEFINE Bad == {n \in Nat : \E T \in SUBSET S : Cardinality(T) = n /\ SumOver(f, T) \notin Nat}
<1>1. \A T \in SUBSET S : IsFiniteSet(T) /\ Cardinality(T) \in Nat  BY PartOf
<1>2. Bad = {}
  <2> SUFFICES ASSUME Bad # {} PROVE FALSE  OBVIOUS
  <2>1. Bad \subseteq Nat  OBVIOUS
  <2> HIDE DEF Bad
  <2>2. PICK m \in Bad : \A n \in Bad : m =< n  BY <2>1, LeastOf
  <2>3. PICK T \in SUBSET S : Cardinality(T) = m /\ SumOver(f, T) \notin Nat  BY DEF Bad
  <2>4. IsFiniteSet(T) /\ \A x \in T : f[x] \in Int  BY <1>1
  <2>5. PICK x \in T : TRUE
    <3>1. T = {} => SumOver(f, T) = 0  BY <2>4, SumParts
    <3>2. T # {}  BY <2>3, <3>1
    <3>3. QED  BY <3>2
  <2>6. SumOver(f, T) = f[x] + SumOver(f, T \ {x})  BY <2>4, SumRemove
  <2>7. PICK U \in SUBSET S : U = T \ {x}  OBVIOUS
  <2>8. Cardinality(U) = m - 1  BY <2>3, <2>4, <2>7, FS_RemoveElement
  <2>9. Cardinality(U) \in Nat /\ m - 1 \notin Bad  BY <1>1, <2>1, <2>2
  <2>10. SumOver(f, U) \in Nat  BY <2>8, <2>9 DEF Bad
  <2>11. f[x] \in Nat  OBVIOUS
  <2>12. QED  BY <2>3, <2>6, <2>7, <2>10, <2>11
<1>3. QED  BY <1>1, <1>2

LEMMA SumLess ==
    ASSUME NEW S, IsFiniteSet(S), NEW f, \A x \in S : f[x] \in Nat, NEW T \in SUBSET S
    PROVE  SumOver(f, T) =< SumOver(f, S)
<1>1. SumOver(f, T) \in Nat /\ SumOver(f, S \ T) \in Nat /\ SumOver(f, S) \in Nat  BY SumNat
<1>2. \A x \in S : f[x] \in Int  OBVIOUS
<1>3. SumOver(f, S) = SumOver(f, T) + SumOver(f, S \ T)  BY <1>2, SumSplit
<1>4. QED  BY <1>1, <1>3

\* Larger values have a larger sum.
LEMMA SumOrder ==
    ASSUME NEW S, IsFiniteSet(S), NEW f, NEW g, \A x \in S : f[x] \in Nat /\ g[x] \in Nat /\ f[x] =< g[x]
    PROVE  SumOver(f, S) =< SumOver(g, S)
<1> DEFINE h == [x \in S |-> g[x] - f[x]]
           F == [T \in SUBSET S |-> SumOver(f, T) + SumOver(h, T)]
<1>1. \A x \in S : f[x] \in Int /\ g[x] \in Int /\ h[x] \in Nat /\ h[x] \in Int /\ g[x] = f[x] + h[x]
  OBVIOUS
<1> HIDE DEF h
<1>2. F[{}] = 0
  <2>1. SumOver(f, {}) = 0 /\ SumOver(h, {}) = 0  BY FS_EmptySet, SumParts
  <2>2. QED  BY <2>1
<1>3. ASSUME NEW T \in SUBSET S, NEW x \in T PROVE F[T] = g[x] + F[T \ {x}]
  <2>1. PICK U \in SUBSET S : U = T \ {x}  OBVIOUS
  <2>2. /\ IsFiniteSet(T) /\ SumOver(f, U) \in Int /\ SumOver(h, U) \in Int
    BY <1>1, SumOfPart
  <2>3. /\ SumOver(f, T) = f[x] + SumOver(f, U) /\ SumOver(h, T) = h[x] + SumOver(h, U)
    BY <1>1, <2>1, <2>2, SumRemove
  <2>4. F[T] = SumOver(f, T) + SumOver(h, T) /\ F[U] = SumOver(f, U) + SumOver(h, U)  OBVIOUS
  <2> HIDE DEF F
  <2>5. f[x] \in Int /\ h[x] \in Int /\ g[x] = f[x] + h[x]  BY <1>1
  <2>6. F[T] = g[x] + F[U]  BY <2>2, <2>3, <2>4, <2>5
  <2>7. QED  BY <2>1, <2>6
<1>4. F[S] = SumOver(f, S) + SumOver(h, S)  OBVIOUS
<1> HIDE DEF F
<1>5. AddsEach(F, g, S)  BY <1>2, <1>3 DEF AddsEach
<1>6. SumOver(g, S) = F[S]  BY <1>1, <1>5, SumUnique
<1>7. SumOver(f, S) \in Int /\ SumOver(h, S) \in Nat  BY <1>1, SumNat, SumParts
<1>8. QED  BY <1>4, <1>6, <1>7

\* Counting is adding up ones.
LEMMA CountIsSum ==
    ASSUME NEW S, IsFiniteSet(S), NEW f, \A x \in S : f[x] = 1
    PROVE  SumOver(f, S) = Cardinality(S)
<1> DEFINE F == [T \in SUBSET S |-> Cardinality(T)]
<1>1. \A T \in SUBSET S : IsFiniteSet(T) /\ Cardinality(T) \in Nat  BY PartOf
<1>2. F[{}] = 0  BY FS_EmptySet
<1>3. ASSUME NEW T \in SUBSET S, NEW x \in T PROVE F[T] = f[x] + F[T \ {x}]
  <2>1. Cardinality(T \ {x}) = Cardinality(T) - 1  BY <1>1, FS_RemoveElement
  <2>2. f[x] = 1 /\ Cardinality(T) \in Nat  BY <1>1
  <2>3. F[T] = Cardinality(T) /\ F[T \ {x}] = Cardinality(T \ {x})  OBVIOUS
  <2> HIDE DEF F
  <2>4. QED  BY <2>1, <2>2, <2>3
<1>4. F[S] = Cardinality(S)  OBVIOUS
<1> HIDE DEF F
<1>5. AddsEach(F, f, S)  BY <1>2, <1>3 DEF AddsEach
<1>6. \A x \in S : f[x] \in Int  OBVIOUS
<1>7. QED  BY <1>4, <1>5, <1>6, SumUnique

Counts(rows, key, K) == [k \in K |-> Cardinality(Fibre(rows, key, k))]

\* The counts of the groups add up to the count of all.
LEMMA CountOfGroups ==
    ASSUME NEW rows, IsFiniteSet(rows), NEW K, IsFiniteSet(K),
           NEW key, \A r \in rows : key[r] \in K
    PROVE  SumOver(Counts(rows, key, K), K) = Cardinality(rows)
<1> DEFINE one == [r \in rows |-> 1]
<1>1. \A r \in rows : one[r] = 1 /\ one[r] \in Int  OBVIOUS
<1> HIDE DEF one
<1>2. ASSUME NEW k \in K
      PROVE  SumOver(one, Fibre(rows, key, k)) = Cardinality(Fibre(rows, key, k))
  <2> DEFINE part == Fibre(rows, key, k)
  <2>1. part \in SUBSET rows  BY DEF Fibre
  <2> HIDE DEF part
  <2>2. IsFiniteSet(part) /\ \A r \in part : one[r] = 1  BY <1>1, <2>1, PartOf
  <2>3. SumOver(one, part) = Cardinality(part)  BY <2>2, CountIsSum
  <2>4. QED  BY <2>3 DEF part
<1>3. Fibres(one, rows, key, K) = Counts(rows, key, K)  BY <1>2 DEF Fibres, Counts
<1>4. SumOver(one, rows) = Cardinality(rows)  BY <1>1, CountIsSum
<1>5. SumOver(Fibres(one, rows, key, K), K) = SumOver(one, rows)  BY <1>1, SumOfGroups
<1>6. QED  BY <1>3, <1>4, <1>5

\* Sum of the model is the sum over the domain.
LEMMA SumIs ==
    ASSUME NEW f
    PROVE  Sum(f) = SumOver(f, DOMAIN f)
BY DEF Sum, FoldFunction, SumOver

(***************************************************************************)
(* Deliveries.                                                             *)
(***************************************************************************)
OnTime(sel) == {o \in Timed(sel) : orders[o].delivered =< orders[o].estimated}
LateBy(days, sel) == {o \in Timed(sel) : orders[o].delivered > orders[o].estimated + 3 * days}

Arrived(sel) == {o \in sel : orders[o].delivered # None}

\* The average is taken over the orders that have arrived.
LEMMA DaysAre ==
    ASSUME Data, NEW date, NEW state, NEW sel, sel = Placed(None, state, "delivered", date), sel # Error,
           NEW days, days = AverageDeliveryDays(state, None, None, date)
    PROVE  IF days = None THEN Arrived(sel) = {} ELSE days[2] = Cardinality(Arrived(sel))
<1> DEFINE f == [o \in Arrived(sel) |-> Duration(o)]
<1>1. days = IF Arrived(sel) = {} THEN None ELSE <<Sum(f), Cardinality(Arrived(sel))>>
  BY DEF AverageDeliveryDays, Answer, Delivered, Average, Arrived
<1>2. Arrived(sel) \in SUBSET sel /\ IsFiniteSet(sel) /\ sel \subseteq DOMAIN orders
  BY PlacedOrders DEF Arrived
<1>3. IsFiniteSet(Arrived(sel)) /\ Cardinality(Arrived(sel)) \in Nat  BY <1>2, PartOf
<1>4. \A o \in Arrived(sel) : f[o] \in Int  BY <1>2 DEF Data, OrderOk, Arrived, Duration
<1>5. DOMAIN f = Arrived(sel)  OBVIOUS
<1> HIDE DEF f
<1>6. Sum(f) \in Int  BY <1>3, <1>4, <1>5, SumIs, SumParts
<1>7. <<Sum(f), Cardinality(Arrived(sel))>> \in Int \X Int  BY <1>3, <1>6
<1>8. <<Sum(f), Cardinality(Arrived(sel))>> # None  BY <1>7, Distinct
<1>9. QED  BY <1>1, <1>8

\* Deliveries on time and deliveries late do not overlap, together are no more
\* than the delivered orders, and a longer delay never has more of them; the
\* average takes no fewer orders than are timed and no more than are delivered.
THEOREM DeliveriesAgree == Spec => []DeliveriesConsistent
<1>1. Data => DeliveriesConsistent
  <2> SUFFICES ASSUME Data, NEW date \in DatesAsked, NEW state \in States \cup {None},
                      OnTimeDeliveryRate(state, date) # Error
               PROVE  LET rate == OnTimeDeliveryRate(state, date)
                      IN /\ rate.on_time + LateDeliveries(1, state, date) =< rate.delivered
                         /\ rate.delivered =< CountOrders(None, state, "delivered", date)
                         /\ LateDeliveries(2, state, date) =< LateDeliveries(1, state, date)
                         /\ LET days == AverageDeliveryDays(state, None, None, date)
                            IN IF days = None THEN rate.delivered = 0
                               ELSE /\ rate.delivered =< days[2]
                                    /\ days[2] =< CountOrders(None, state, "delivered", date)
    BY DEF DeliveriesConsistent
  <2> DEFINE sel == Placed(None, state, "delivered", date)
  <2>1. sel # Error  BY DEF OnTimeDeliveryRate, Answer, Delivered
  <2>2. sel \subseteq DOMAIN orders /\ IsFiniteSet(sel)  BY <2>1, PlacedOrders
  <2>3. /\ OnTimeDeliveryRate(state, date) = [on_time |-> Cardinality(OnTime(sel)),
                                              delivered |-> Cardinality(Timed(sel))]
        /\ CountOrders(None, state, "delivered", date) = Cardinality(sel)
    BY <2>1 DEF OnTimeDeliveryRate, Answer, Delivered, CountOrders, OnTime
  <2>4. ASSUME NEW n \in 1 .. 365 PROVE LateDeliveries(n, state, date) = Cardinality(LateBy(n, sel))
    <3> DEFINE late == {o \in Timed(sel) :
                           orders[o].delivered > orders[o].estimated + 3 * Clamp(n, 1, 365)}
    <3>1. LateDeliveries(n, state, date) = Cardinality(late)
      BY <2>1 DEF LateDeliveries, Answer, Delivered
    <3>2. Clamp(n, 1, 365) = n  BY ClampIs
    <3>3. late = LateBy(n, sel)
      <4> HIDE DEF sel
      <4> QED  BY <3>2 DEF LateBy
    <3>4. QED
      <4> HIDE DEF late, sel
      <4> QED  BY <3>1, <3>3
  <2> HIDE DEF sel
  <2>5. Timed(sel) \in SUBSET sel /\ OnTime(sel) \in SUBSET Timed(sel)
        /\ LateBy(1, sel) \in SUBSET Timed(sel) /\ LateBy(2, sel) \in SUBSET LateBy(1, sel)
        /\ OnTime(sel) \cap LateBy(1, sel) = {}
    <3>1. \A o \in Timed(sel) : orders[o].delivered \in Int /\ orders[o].estimated \in Int
      BY <2>2 DEF Data, OrderOk, Timed
    <3>2. QED  BY <3>1 DEF Timed, OnTime, LateBy
  <2>6. /\ IsFiniteSet(Timed(sel)) /\ Cardinality(Timed(sel)) =< Cardinality(sel)
    BY <2>2, <2>5, PartOf
  <2>7. Cardinality(OnTime(sel)) + Cardinality(LateBy(1, sel)) =< Cardinality(Timed(sel))
    BY <2>5, <2>6, DisjointParts
  <2>8. IsFiniteSet(LateBy(1, sel))  BY <2>5, <2>6, PartOf
  <2>9. Cardinality(LateBy(2, sel)) =< Cardinality(LateBy(1, sel))  BY <2>5, <2>8, PartOf
  <2>10. PICK days : days = AverageDeliveryDays(state, None, None, date)  OBVIOUS
  <2>11. IF days = None THEN Arrived(sel) = {} ELSE days[2] = Cardinality(Arrived(sel))
    BY <2>1, <2>10, DaysAre DEF sel
  <2>12. Timed(sel) \in SUBSET Arrived(sel) /\ Arrived(sel) \in SUBSET sel  BY DEF Timed, Arrived
  <2>13. /\ Cardinality(Timed(sel)) =< Cardinality(Arrived(sel))
         /\ Cardinality(Arrived(sel)) =< Cardinality(sel)
         /\ Arrived(sel) = {} => Cardinality(Timed(sel)) = 0
    <3>1. IsFiniteSet(Arrived(sel))  BY <2>2, <2>12, PartOf
    <3>2. Arrived(sel) = {} => Timed(sel) = {}  BY <2>12
    <3>3. QED  BY <2>2, <2>12, <3>1, <3>2, PartOf, FS_EmptySet
  <2>14. QED  BY <2>3, <2>4, <2>6, <2>7, <2>9, <2>10, <2>11, <2>13
<1>2. QED  BY <1>1, DataKept, PTL

(***************************************************************************)
(* Counts.                                                                 *)
(***************************************************************************)
StateOf == [o \in DOMAIN orders |-> CustomerState(o)]
StatusOf == [o \in DOMAIN orders |-> orders[o].status]

LEMMA StatesFinite == IsFiniteSet(States) /\ None \notin States
<1> DEFINE f == [c \in DOMAIN Customers |-> Customers[c].state]
<1>1. IsFiniteSet({f[c] : c \in DOMAIN Customers})  BY ImageFinite, DataSet
<1>2. States = {f[c] : c \in DOMAIN Customers}  BY DEF States
<1>3. None \notin States  BY DataSet DEF States
<1>4. QED  BY <1>1, <1>2, <1>3

\* The orders of a state, or of a status, are a part of the orders selected
\* without it.
LEMMA PlacedByState ==
    ASSUME Data, NEW city, NEW date, NEW sel, sel = Placed(city, None, None, date), sel # Error,
           NEW s \in States
    PROVE  Placed(city, s, None, date) = Fibre(sel, StateOf, s)
<1>1. s # None  BY StatesFinite
<1>2. sel \subseteq DOMAIN orders  BY PlacedOrders
<1>3. \A o \in DOMAIN orders : StateOf[o] = Customers[orders[o].customer].state
  BY DEF StateOf, CustomerState
<1>4. QED  BY <1>1, <1>2, <1>3 DEF Placed, Fibre

LEMMA PlacedByStatus ==
    ASSUME Data, NEW city, NEW date, NEW sel, sel = Placed(city, None, None, date), sel # Error,
           NEW s \in Statuses
    PROVE  Placed(city, None, s, date) = Fibre(sel, StatusOf, s)
<1>1. s # None /\ ValidStatus(s)  BY DataSet DEF ValidStatus
<1>2. sel \subseteq DOMAIN orders  BY PlacedOrders
<1>3. \A o \in DOMAIN orders : StatusOf[o] = orders[o].status
  BY DEF StatusOf
<1>4. QED  BY <1>1, <1>2, <1>3 DEF Placed, Fibre

LEMMA NoError ==
    ASSUME Data, NEW sel, sel \subseteq DOMAIN orders
    PROVE  sel # Error
BY Distinct DEF Data

\* What is counted of a selection is how many it has.
LEMMA CountSelected ==
    ASSUME Data, NEW city, NEW state, NEW status, NEW date, NEW sel,
           sel = Placed(city, state, status, date), sel # Error
    PROVE  CountOrders(city, state, status, date) = Cardinality(sel)
BY DEF CountOrders, Answer

\* A listing's total is the count, for every filter.
LEMMA ListedAsCounted ==
    ASSUME Data, NEW city, NEW state, NEW status, NEW date
    PROVE  LET some == ListOrders(city, state, status, date, 50, 0)
           IN IF some = Error THEN CountOrders(city, state, status, date) = Error
              ELSE some.total = CountOrders(city, state, status, date)
<1> DEFINE sel == Placed(city, state, status, date)
           pages == Pages(sel, Clamp(50, 1, 50), Max({0, 0}), Newer)
<1>1. CASE sel = Error  BY <1>1 DEF ListOrders, CountOrders, Answer
<1>2. CASE sel # Error
  <2>1. ListOrders(city, state, status, date, 50, 0) = [total |-> Cardinality(sel), pages |-> pages]
    BY <1>2 DEF ListOrders, Answer
  <2>2. CountOrders(city, state, status, date) = Cardinality(sel)
    BY <1>2, CountSelected
  <2>3. sel \subseteq DOMAIN orders /\ IsFiniteSet(sel)  BY <1>2, PlacedOrders
  <2>4. Cardinality(sel) \in Nat  BY <2>3, FS_CardinalityType
  <2>5. sel \subseteq OrderIds  BY <2>3 DEF Data
  <2>6. pages \subseteq SUBSET OrderIds
    <3> HIDE DEF sel
    <3> QED  BY <2>5 DEF Pages, kSubset
  <2> HIDE DEF sel, pages
  <2>7. [total |-> Cardinality(sel), pages |-> pages] # Error  BY <2>4, <2>6, Distinct
  <2>8. QED  BY <2>1, <2>2, <2>7
<1>3. QED  BY <1>1, <1>2

\* However the user asks how many orders there are, the answer is the same: the
\* count, the total of the listing, the counts by status, by state and of the
\* fulfillment breakdown, and the orders looked up one by one.
THEOREM CountsAlike == Spec => []CountsAgree
<1>1. Data => CountsAgree
  <2> SUFFICES ASSUME Data, NEW date \in DatesAsked, NEW city \in CitiesAsked,
                      CountOrders(city, None, None, date) # Error
               PROVE  LET count == CountOrders(city, None, None, date)
                      IN /\ count = Sum([s \in States |-> CountOrders(city, s, None, date)])
                         /\ city = None =>
                            /\ count = Sum([s \in Statuses |-> CountByStatus(s, date)])
                            /\ count = Sum(FulfillmentStatusBreakdown(date))
                            /\ date = None => \A s \in Statuses : CountByStatus(s, date)
                                  = Cardinality({o \in DOMAIN orders : OrderStatus(o).status = s})
    BY ListedAsCounted DEF CountsAgree
  <2>1. PICK sel : sel = Placed(city, None, None, date)  OBVIOUS
  <2>2. sel # Error  BY <2>1 DEF CountOrders, Answer
  <2>3. sel \subseteq DOMAIN orders /\ IsFiniteSet(sel)  BY <2>1, <2>2, PlacedOrders
  <2>4. CountOrders(city, None, None, date) = Cardinality(sel)  BY <2>1, <2>2, CountSelected
  <2>5. Cardinality(sel) = Sum([s \in States |-> CountOrders(city, s, None, date)])
    <3> DEFINE f == [s \in States |-> CountOrders(city, s, None, date)]
    <3>1. ASSUME NEW s \in States
          PROVE  CountOrders(city, s, None, date) = Cardinality(Fibre(sel, StateOf, s))
      <4>1. Placed(city, s, None, date) = Fibre(sel, StateOf, s)  BY <2>1, <2>2, PlacedByState
      <4>2. Fibre(sel, StateOf, s) # Error  BY <2>3, NoError DEF Fibre
      <4>3. QED  BY <4>1, <4>2, CountSelected
    <3>2. f = Counts(sel, StateOf, States) /\ DOMAIN f = States  BY <3>1 DEF Counts
    <3>3. \A o \in sel : StateOf[o] \in States
      BY <2>3 DEF Data, OrderOk, StateOf, CustomerState, States
    <3>4. SumOver(Counts(sel, StateOf, States), States) = Cardinality(sel)
      BY <2>3, <3>3, StatesFinite, CountOfGroups
    <3> HIDE DEF f
    <3>5. Sum(f) = SumOver(f, States)  BY <3>2, SumIs
    <3>6. Sum(f) = Cardinality(sel)  BY <3>2, <3>4, <3>5
    <3>7. QED  BY <3>6 DEF f
  <2>6. ASSUME city = None
        PROVE  Cardinality(sel) = Sum([s \in Statuses |-> CountByStatus(s, date)])
    <3> DEFINE f == [s \in Statuses |-> CountByStatus(s, date)]
    <3>1. ASSUME NEW s \in Statuses
          PROVE  CountByStatus(s, date) = Cardinality(Fibre(sel, StatusOf, s))
      <4>1. Placed(city, None, s, date) = Fibre(sel, StatusOf, s)  BY <2>1, <2>2, PlacedByStatus
      <4>2. Fibre(sel, StatusOf, s) # Error  BY <2>3, NoError DEF Fibre
      <4>3. CountOrders(city, None, s, date) = Cardinality(Fibre(sel, StatusOf, s))
        BY <4>1, <4>2, CountSelected
      <4>4. s # None  BY DataSet
      <4>5. QED  BY <2>6, <4>3, <4>4 DEF CountByStatus
    <3>2. f = Counts(sel, StatusOf, Statuses) /\ DOMAIN f = Statuses  BY <3>1 DEF Counts
    <3>3. \A o \in sel : StatusOf[o] \in Statuses  BY <2>3 DEF Data, OrderOk, StatusOf
    <3>4. IsFiniteSet(Statuses)  BY DataSet
    <3>5. SumOver(Counts(sel, StatusOf, Statuses), Statuses) = Cardinality(sel)
      BY <2>3, <3>3, <3>4, CountOfGroups
    <3> HIDE DEF f
    <3>6. Sum(f) = SumOver(f, Statuses)  BY <3>2, SumIs
    <3>7. Sum(f) = Cardinality(sel)  BY <3>2, <3>5, <3>6
    <3>8. QED  BY <3>7 DEF f
  <2>7. ASSUME city = None
        PROVE  Cardinality(sel) = Sum(FulfillmentStatusBreakdown(date))
    <3> DEFINE K == {orders[o].status : o \in sel}
               f == FulfillmentStatusBreakdown(date)
    <3>1. f = [k \in K |-> Cardinality({o \in sel : orders[o].status = k})]
      BY <2>1, <2>2, <2>7 DEF FulfillmentStatusBreakdown, Answer, Group
    <3>2. \A k \in K : {o \in sel : orders[o].status = k} = Fibre(sel, StatusOf, k)
      BY <2>3 DEF Fibre, StatusOf
    <3>3. K = {StatusOf[o] : o \in sel}  BY <2>3 DEF StatusOf
    <3>4. IsFiniteSet({StatusOf[o] : o \in sel})  BY <2>3, ImageFinite
    <3>5. \A o \in sel : StatusOf[o] \in K  BY <3>3
    <3> HIDE DEF f, K
    <3>6. f = Counts(sel, StatusOf, K) /\ DOMAIN f = K  BY <3>1, <3>2 DEF Counts
    <3>7. SumOver(Counts(sel, StatusOf, K), K) = Cardinality(sel)
      BY <2>3, <3>3, <3>4, <3>5, CountOfGroups
    <3>8. Sum(f) = SumOver(f, K)  BY <3>6, SumIs
    <3>9. Sum(f) = Cardinality(sel)  BY <3>6, <3>7, <3>8
    <3>10. QED  BY <3>9 DEF f
  <2>8. ASSUME date = None, NEW s \in Statuses
        PROVE  CountByStatus(s, date) = Cardinality({o \in DOMAIN orders : OrderStatus(o).status = s})
    <3>1. s # None /\ ValidStatus(s)  BY DataSet DEF ValidStatus
    <3>2. PICK some : some = Placed(None, None, s, None)  OBVIOUS
    <3>3. \A o \in DOMAIN orders : OrderStatus(o).status = orders[o].status  BY DEF OrderStatus
    <3>4. some = {o \in DOMAIN orders : orders[o].status = s}
      BY <3>1, <3>2 DEF Placed, KnownDate, InWindow
    <3>5. some # Error  BY <3>4, NoError
    <3>6. CountByStatus(s, date) = Cardinality(some)
      BY <2>8, <3>1, <3>2, <3>5, CountSelected DEF CountByStatus
    <3>7. some = {o \in DOMAIN orders : OrderStatus(o).status = s}  BY <3>3, <3>4
    <3>8. QED  BY <3>6, <3>7
  <2>9. QED  BY <2>4, <2>5, <2>6, <2>7, <2>8
<1>2. QED  BY <1>1, DataKept, PTL

(***************************************************************************)
(* Revenue.                                                                *)
(***************************************************************************)
\* The total of the model is a sum of the values.
LEMMA TotalIs ==
    ASSUME NEW rows, IsFiniteSet(rows), NEW f, \A r \in rows : f[r] = r.value /\ f[r] \in Int
    PROVE  Total(rows) = SumOver(f, rows)
<1> DEFINE g == [r \in rows |-> r.value]
<1>1. \A r \in rows : f[r] \in Int /\ f[r] = g[r]  OBVIOUS
<1>2. Total(rows) = Sum(g) /\ DOMAIN g = rows  BY DEF Total
<1> HIDE DEF g
<1>3. SumOver(f, rows) = SumOver(g, rows)  BY <1>1, SumAgree
<1>4. QED  BY <1>2, <1>3, SumIs

Valued(rows) == IsFiniteSet(rows) /\ \A r \in rows : r.value \in Nat

Keys(rows, key) == {key[r] : r \in rows}
Totals(rows, key) == [k \in Keys(rows, key) |-> Total(Fibre(rows, key, k))]

LEMMA TotalNat ==
    ASSUME NEW rows, Valued(rows), NEW part \in SUBSET rows
    PROVE  /\ Total(part) \in Nat
           /\ Total(part) = SumOver([r \in rows |-> r.value], part)
<1> DEFINE f == [r \in rows |-> r.value]
<1>1. IsFiniteSet(part)  BY PartOf DEF Valued
<1>2. \A r \in rows : f[r] = r.value /\ f[r] \in Nat  BY DEF Valued
<1> HIDE DEF f
<1>3. Total(part) = SumOver(f, part)  BY <1>1, <1>2, TotalIs
<1>4. SumOver(f, part) \in Nat  BY <1>2, SumNat DEF Valued
<1>5. QED  BY <1>3, <1>4 DEF f

\* What the groups of a key total adds up to the total of all rows, whatever
\* further keys it is told for.
LEMMA TotalOfGroups ==
    ASSUME NEW rows, Valued(rows), NEW key, NEW K, IsFiniteSet(K), Keys(rows, key) \subseteq K,
           NEW g, g = [k \in K |-> Total(Fibre(rows, key, k))]
    PROVE  Sum(g) = Total(rows) /\ \A k \in K : g[k] \in Nat
<1> DEFINE f == [r \in rows |-> r.value]
<1>1. \A r \in rows : f[r] \in Int /\ key[r] \in K  BY DEF Valued, Keys
<1>2. \A k \in K : Fibre(rows, key, k) \in SUBSET rows  BY DEF Fibre
<1>3. \A k \in K : /\ Total(Fibre(rows, key, k)) = SumOver(f, Fibre(rows, key, k))
                   /\ g[k] \in Nat
  BY <1>2, TotalNat
<1>4. Total(rows) = SumOver(f, rows)  BY TotalNat
<1> HIDE DEF f
<1>5. g = Fibres(f, rows, key, K) /\ DOMAIN g = K  BY <1>3 DEF Fibres
<1>6. SumOver(Fibres(f, rows, key, K), K) = SumOver(f, rows)  BY <1>1, SumOfGroups DEF Valued
<1>7. Sum(g) = SumOver(g, K)  BY <1>5, SumIs
<1>8. QED  BY <1>3, <1>4, <1>5, <1>6, <1>7

LEMMA TotalsAddUp ==
    ASSUME NEW rows, Valued(rows), NEW key
    PROVE  /\ Sum(Totals(rows, key)) = Total(rows)
           /\ IsFiniteSet(DOMAIN Totals(rows, key))
           /\ \A k \in DOMAIN Totals(rows, key) : Totals(rows, key)[k] \in Nat
<1> DEFINE g == Totals(rows, key)
           K == Keys(rows, key)
<1>1. IsFiniteSet(K)  BY ImageFinite DEF Valued, Keys
<1> HIDE DEF K
<1>2. g = [k \in K |-> Total(Fibre(rows, key, k))]  BY DEF Totals, K
<1> HIDE DEF g
<1>3. Keys(rows, key) \subseteq K  BY DEF K
<1>4. Sum(g) = Total(rows) /\ \A k \in K : g[k] \in Nat  BY <1>1, <1>2, <1>3, TotalOfGroups
<1>5. DOMAIN g = K  BY <1>2
<1>6. QED  BY <1>1, <1>4, <1>5 DEF g

\* A ranking that is not cut at its limit is everything, and otherwise a part.
LEMMA KeptAddsUp ==
    ASSUME NEW g, IsFiniteSet(DOMAIN g), \A k \in DOMAIN g : g[k] \in Nat, NEW n \in Nat,
           NEW kept \in kSubset(Min({n, Cardinality(DOMAIN g)}), DOMAIN g), NEW best, best = Restrict(g, kept)
    PROVE  AddsUp({best}, n, Sum(g))
<1> SUFFICES IF Cardinality(DOMAIN best) < n THEN Sum(best) = Sum(g) ELSE Sum(best) =< Sum(g)
  BY DEF AddsUp
<1> DEFINE K == DOMAIN g
<1>1. kept \in SUBSET K /\ Cardinality(kept) = Min({n, Cardinality(K)})  BY DEF kSubset
<1>2. DOMAIN best = kept /\ \A k \in kept : best[k] = g[k]  BY DEF Restrict
<1>3. IsFiniteSet(K) /\ \A k \in K : g[k] \in Nat  OBVIOUS
<1>4. Sum(g) = SumOver(g, K) /\ Sum(best) = SumOver(best, kept)  BY <1>2, SumIs
<1> HIDE DEF K
<1>5. IsFiniteSet(kept)  BY <1>1, <1>3, PartOf
<1>6. \A k \in kept : best[k] \in Int /\ best[k] = g[k]  BY <1>1, <1>2, <1>3
<1>7. SumOver(best, kept) = SumOver(g, kept)  BY <1>5, <1>6, SumAgree
<1>8. SumOver(g, kept) =< SumOver(g, K)  BY <1>1, <1>3, SumLess
<1>9. Cardinality(kept) < n => kept = K
  <2>1. PICK c \in Nat : c = Cardinality(K)  BY <1>3, FS_CardinalityType
  <2>2. Min({n, c}) \in {n, c}
    <3>1. n \in Int /\ c \in Int  OBVIOUS
    <3>2. QED  BY <3>1, MinMax
  <2>3. Cardinality(K) = Cardinality(kept) => K = kept  BY <1>1, <1>3, FS_Subset
  <2>4. QED  BY <1>1, <2>1, <2>2, <2>3
<1>10. QED  BY <1>2, <1>4, <1>7, <1>8, <1>9

LEMMA BestAddsUp ==
    ASSUME NEW g, IsFiniteSet(DOMAIN g), \A k \in DOMAIN g : g[k] \in Nat, NEW n \in Nat
    PROVE  AddsUp(Best(g, n, More), n, Sum(g))
<1>1. ASSUME NEW best \in Best(g, n, More) PROVE AddsUp({best}, n, Sum(g))
  <2>1. PICK kept \in kSubset(Min({n, Cardinality(DOMAIN g)}), DOMAIN g) : best = Restrict(g, kept)
    BY DEF Best
  <2>2. QED  BY <2>1, KeptAddsUp
<1>2. QED  BY <1>1 DEF AddsUp

(* The keys the handlers group by, as functions of the rows. *)
TypeKey(rows) == [p \in rows |-> p.type]
MonthKey(rows) == [p \in rows |-> MonthOf(p.order)]
StateKey(rows) == [p \in rows |-> CustomerState(p.order)]
LabelKey(rows) == [i \in rows |-> Label(i.product)]
SellerKey(rows) == [i \in rows |-> i.seller]
SellerStateKey(rows) == [i \in rows |-> SellerState(i)]

LEMMA GroupedBy ==
    ASSUME NEW rows
    PROVE  /\ [k \in {p.type : p \in rows} |-> Total({p \in rows : p.type = k})]
                = Totals(rows, TypeKey(rows))
           /\ [k \in {MonthOf(p.order) : p \in rows} |-> Total({p \in rows : MonthOf(p.order) = k})]
                = Totals(rows, MonthKey(rows))
           /\ [k \in {CustomerState(p.order) : p \in rows} |->
                    Total({p \in rows : CustomerState(p.order) = k})]
                = Totals(rows, StateKey(rows))
           /\ [k \in {Label(i.product) : i \in rows} |-> Total({i \in rows : Label(i.product) = k})]
                = Totals(rows, LabelKey(rows))
           /\ [k \in {i.seller : i \in rows} |-> Total({i \in rows : i.seller = k})]
                = Totals(rows, SellerKey(rows))
           /\ [k \in {SellerState(i) : i \in rows} |-> Total({i \in rows : SellerState(i) = k})]
                = Totals(rows, SellerStateKey(rows))
<1>1. /\ {p.type : p \in rows} = Keys(rows, TypeKey(rows))
      /\ \A k : {p \in rows : p.type = k} = Fibre(rows, TypeKey(rows), k)
  BY DEF Keys, Fibre, TypeKey
<1>2. /\ {MonthOf(p.order) : p \in rows} = Keys(rows, MonthKey(rows))
      /\ \A k : {p \in rows : MonthOf(p.order) = k} = Fibre(rows, MonthKey(rows), k)
  BY DEF Keys, Fibre, MonthKey
<1>3. /\ {CustomerState(p.order) : p \in rows} = Keys(rows, StateKey(rows))
      /\ \A k : {p \in rows : CustomerState(p.order) = k} = Fibre(rows, StateKey(rows), k)
  BY DEF Keys, Fibre, StateKey
<1>4. /\ {Label(i.product) : i \in rows} = Keys(rows, LabelKey(rows))
      /\ \A k : {i \in rows : Label(i.product) = k} = Fibre(rows, LabelKey(rows), k)
  BY DEF Keys, Fibre, LabelKey
<1>5. /\ {i.seller : i \in rows} = Keys(rows, SellerKey(rows))
      /\ \A k : {i \in rows : i.seller = k} = Fibre(rows, SellerKey(rows), k)
  BY DEF Keys, Fibre, SellerKey
<1>6. /\ {SellerState(i) : i \in rows} = Keys(rows, SellerStateKey(rows))
      /\ \A k : {i \in rows : SellerState(i) = k} = Fibre(rows, SellerStateKey(rows), k)
  BY DEF Keys, Fibre, SellerStateKey
<1>7. QED  BY <1>1, <1>2, <1>3, <1>4, <1>5, <1>6 DEF Totals

\* The items and the payments of selected orders have amounts to add up.
LEMMA RowsValued ==
    ASSUME Data, NEW sel
    PROVE  Valued(ItemsOf(sel)) /\ Valued(PaymentsOf(sel))
<1>1. IsFiniteSet(items) /\ ItemsOf(sel) \in SUBSET items /\ \A i \in items : i.value \in Nat
  BY DEF Data, ItemsOf, ItemOk
<1>2. IsFiniteSet(payments) /\ PaymentsOf(sel) \in SUBSET payments /\ \A p \in payments : p.value \in Nat
  BY DEF Data, PaymentsOf, PaymentOk
<1>3. IsFiniteSet(ItemsOf(sel)) /\ IsFiniteSet(PaymentsOf(sel))  BY <1>1, <1>2, PartOf
<1>4. QED  BY <1>1, <1>2, <1>3 DEF Valued

\* What was paid for the selected orders, by every breakdown of the payments.
LEMMA PaidBreakdowns ==
    ASSUME Data, NEW date, NEW sel, sel = All(date), sel # Error, NEW rows, rows = PaymentsOf(sel)
    PROVE  /\ GetRevenue(None, None, None, None, date) = Total(rows)
           /\ RevenueByPaymentType(date) = Totals(rows, TypeKey(rows))
           /\ RevenueTrend(date, "month") = Totals(rows, MonthKey(rows))
           /\ GetRevenue(None, None, None, "month", date) = {Totals(rows, MonthKey(rows))}
           /\ GetRevenue(None, None, None, "state", date)
                = Best(Totals(rows, StateKey(rows)), Shown, More)
           /\ RevenueByState(date) = Best(Totals(rows, StateKey(rows)), Shown, More)
<1>0. None # "state" /\ None # "category" /\ None # "month"  BY Distinct
<1>1. GetRevenue(None, None, None, None, date) = Total(rows)
  BY <1>0 DEF GetRevenue, Answer, All
<1>2. RevenueByPaymentType(date) = [k \in {p.type : p \in rows} |-> Total({p \in rows : p.type = k})]
  BY DEF RevenueByPaymentType, Answer, Group
<1>3. RevenueTrend(date, "month")
        = [k \in {MonthOf(p.order) : p \in rows} |-> Total({p \in rows : MonthOf(p.order) = k})]
  BY DEF RevenueTrend, Answer, Group
<1>4. GetRevenue(None, None, None, "month", date)
        = {[k \in {MonthOf(p.order) : p \in rows} |-> Total({p \in rows : MonthOf(p.order) = k})]}
  BY <1>0 DEF GetRevenue, Answer, All, Group
<1>5. GetRevenue(None, None, None, "state", date)
        = Best([k \in {CustomerState(p.order) : p \in rows} |->
                    Total({p \in rows : CustomerState(p.order) = k})], Shown, More)
  BY <1>0 DEF GetRevenue, Answer, All, Group
<1>6. RevenueByState(date)
        = Best([k \in {CustomerState(p.order) : p \in rows} |->
                    Total({p \in rows : CustomerState(p.order) = k})], Shown, More)
  BY DEF RevenueByState, Answer, Group
<1>7. /\ [k \in {p.type : p \in rows} |-> Total({p \in rows : p.type = k})]
           = Totals(rows, TypeKey(rows))
      /\ [k \in {MonthOf(p.order) : p \in rows} |-> Total({p \in rows : MonthOf(p.order) = k})]
           = Totals(rows, MonthKey(rows))
      /\ [k \in {CustomerState(p.order) : p \in rows} |->
               Total({p \in rows : CustomerState(p.order) = k})]
           = Totals(rows, StateKey(rows))
  BY GroupedBy
<1>8. QED  BY <1>1, <1>2, <1>3, <1>4, <1>5, <1>6, <1>7

\* What was sold of the selected orders, by every breakdown of the items.
LEMMA SoldBreakdowns ==
    ASSUME Data, NEW date, NEW sel, sel = All(date), sel # Error, NEW rows, rows = ItemsOf(sel),
           NEW limit \in 1 .. 2
    PROVE  /\ SellerConcentration(date).total = Sum(Totals(rows, SellerKey(rows)))
           /\ RevenueByCategory(date, limit) = Best(Totals(rows, LabelKey(rows)), limit, More)
           /\ RevenueBySeller(date, None, limit) = Best(Totals(rows, SellerKey(rows)), limit, More)
           /\ GetRevenue(None, None, None, "category", date)
                = Best(Totals(rows, LabelKey(rows)), Shown, More)
           /\ RevenueByCategory(date, limit) = TopCategories(date, limit, "revenue")
           /\ SellersByState(date, "revenue") = Totals(rows, SellerStateKey(rows))
<1>0. None # "state" /\ None # "category" /\ None # "month"  BY Distinct
<1>1. Top(limit) = limit
  <2>1. limit \in 1 .. 25 /\ 25 \in Nat  OBVIOUS
  <2>2. QED  BY <2>1, ClampIs DEF Top
<1> DEFINE labels == [k \in {Label(i.product) : i \in rows} |-> Total({i \in rows : Label(i.product) = k})]
           sellers == [k \in {i.seller : i \in rows} |-> Total({i \in rows : i.seller = k})]
           states == [k \in {SellerState(i) : i \in rows} |-> Total({i \in rows : SellerState(i) = k})]
<1>2. SellerConcentration(date).total = Sum(sellers)
  BY DEF SellerConcentration, Answer, Group, Sum
<1>3. RevenueByCategory(date, limit) = Best(labels, limit, More)
  BY <1>1 DEF RevenueByCategory, Answer, Ranking, Measure, Group
<1>4. RevenueBySeller(date, None, limit) = Best(sellers, limit, More)
  BY <1>1 DEF RevenueBySeller, Answer, Ranking, Measure, Group, InSellerState
<1>5. GetRevenue(None, None, None, "category", date) = Best(labels, Shown, More)
  BY <1>0 DEF GetRevenue, Answer, All, Group, Of, AsTyped
<1>6. RevenueByCategory(date, limit) = TopCategories(date, limit, "revenue")
  BY DEF RevenueByCategory, TopCategories
<1>7. SellersByState(date, "revenue") = states
  BY DEF SellersByState, Answer, Measure, Group
<1>8. /\ labels = Totals(rows, LabelKey(rows)) /\ sellers = Totals(rows, SellerKey(rows))
      /\ states = Totals(rows, SellerStateKey(rows))
  BY GroupedBy
<1> HIDE DEF labels, sellers, states
<1>9. QED  BY <1>2, <1>3, <1>4, <1>5, <1>6, <1>7, <1>8

\* The payments of each state's customers add up to what was paid.
LEMMA PaidByState ==
    ASSUME Data, NEW date, NEW sel, sel = All(date), sel # Error
    PROVE  Sum([s \in States |-> GetRevenue(None, s, None, None, date)]) = Total(PaymentsOf(sel))
<1> DEFINE rows == PaymentsOf(sel)
           g == [s \in States |-> GetRevenue(None, s, None, None, date)]
<1>0. None # "state" /\ None # "category" /\ None # "month"  BY Distinct
<1>1. sel \subseteq DOMAIN orders  BY PlacedOrders DEF All
<1>2. ASSUME NEW s \in States
      PROVE  GetRevenue(None, s, None, None, date) = Total(Fibre(rows, StateKey(rows), s))
  <2>1. Placed(None, s, None, date) = Fibre(sel, StateOf, s)  BY PlacedByState DEF All
  <2>2. Fibre(sel, StateOf, s) # Error  BY <1>1, NoError DEF Fibre
  <2>3. GetRevenue(None, s, None, None, date) = Total(PaymentsOf(Fibre(sel, StateOf, s)))
    BY <1>0, <2>1, <2>2 DEF GetRevenue, Answer
  <2>4. PaymentsOf(Fibre(sel, StateOf, s)) = Fibre(rows, StateKey(rows), s)
    BY <1>1 DEF PaymentsOf, Fibre, StateOf, StateKey
  <2>5. QED  BY <2>3, <2>4
<1>3. g = [s \in States |-> Total(Fibre(rows, StateKey(rows), s))]  BY <1>2
<1>4. Keys(rows, StateKey(rows)) \subseteq States
  BY <1>1 DEF Keys, StateKey, PaymentsOf, CustomerState, States, Data, OrderOk
<1>5. Valued(rows)  BY RowsValued
<1> HIDE DEF rows, g
<1>6. Sum(g) = Total(rows)  BY <1>3, <1>4, <1>5, StatesFinite, TotalOfGroups
<1>7. QED  BY <1>6 DEF g, rows

\* The orders paid with a type, as the count tells them, with and without a state.
LEMMA CountedByType ==
    ASSUME Data, NEW date, NEW sel, sel = All(date), sel # Error, NEW t, ValidPaymentType(t),
           NEW some, some = {p \in PaymentsOf(sel) : p.type = t}
    PROVE  /\ CountByPaymentType(t, None, date) = Orders(some)
           /\ Sum([s \in States |-> CountByPaymentType(t, s, date)]) = Orders(some)
<1> DEFINE T == {p.order : p \in some}
           g == [s \in States |-> CountByPaymentType(t, s, date)]
<1>1. t # None  BY DEF ValidPaymentType
<1>2. CountByPaymentType(t, None, date) = Orders(some)
  BY <1>1 DEF CountByPaymentType, Answer, By, All
<1>3. sel \subseteq DOMAIN orders  BY PlacedOrders DEF All
<1>4. T \subseteq sel /\ T \subseteq DOMAIN orders  BY <1>3 DEF PaymentsOf
<1>5. IsFiniteSet(T)
  <2> HIDE DEF T
  <2>1. IsFiniteSet(DOMAIN orders)  BY DEF Data
  <2>2. QED  BY <1>4, <2>1, PartOf
<1>6. ASSUME NEW s \in States PROVE CountByPaymentType(t, s, date) = Cardinality(Fibre(T, StateOf, s))
  <2>1. PICK theirs : theirs = Fibre(sel, StateOf, s)  OBVIOUS
  <2>2. Placed(None, s, None, date) = theirs  BY <2>1, PlacedByState DEF All
  <2>3. theirs # Error  BY <1>3, <2>1, NoError DEF Fibre
  <2>4. CountByPaymentType(t, s, date) = Orders({p \in PaymentsOf(theirs) : p.type = t})
    BY <1>1, <2>2, <2>3 DEF CountByPaymentType, Answer, By
  <2>5. {p.order : p \in {q \in PaymentsOf(theirs) : q.type = t}} = Fibre(T, StateOf, s)
    BY <2>1 DEF PaymentsOf, Fibre
  <2> HIDE DEF T
  <2>6. QED  BY <2>4, <2>5 DEF Orders
<1>7. \A o \in T : StateOf[o] \in States
  <2>1. \A o \in DOMAIN orders : StateOf[o] \in States  BY DEF StateOf, CustomerState, States, Data, OrderOk
  <2> HIDE DEF T
  <2>2. QED  BY <1>4, <2>1
<1>8. Orders(some) = Cardinality(T)  BY DEF Orders
<1> HIDE DEF T
<1>9. g = Counts(T, StateOf, States) /\ DOMAIN g = States  BY <1>6 DEF Counts
<1> HIDE DEF g
<1>10. SumOver(Counts(T, StateOf, States), States) = Cardinality(T)
  BY <1>5, <1>7, StatesFinite, CountOfGroups
<1>11. Sum(g) = Cardinality(T)  BY <1>9, <1>10, SumIs
<1>12. QED  BY <1>2, <1>8, <1>11 DEF g

\* The revenues told seller by seller add up to what was sold.
LEMMA SoldBySeller ==
    ASSUME Data, NEW date, NEW sel, sel = All(date), sel # Error
    PROVE  Sum([s \in DOMAIN Sellers |-> SellerMetrics(s, date).revenue]) = Total(ItemsOf(sel))
<1> DEFINE rows == ItemsOf(sel)
           g == [s \in DOMAIN Sellers |-> SellerMetrics(s, date).revenue]
<1>1. ASSUME NEW s \in DOMAIN Sellers
      PROVE  SellerMetrics(s, date).revenue = Total(Fibre(rows, SellerKey(rows), s))
  <2>1. s # None  BY DataSet
  <2>2. SellerMetrics(s, date).revenue = Total({i \in rows : i.seller = s})
    BY <2>1 DEF SellerMetrics, Answer, From_
  <2>3. {i \in rows : i.seller = s} = Fibre(rows, SellerKey(rows), s)  BY DEF Fibre, SellerKey
  <2>4. QED  BY <2>2, <2>3
<1>2. g = [s \in DOMAIN Sellers |-> Total(Fibre(rows, SellerKey(rows), s))]  BY <1>1
<1>3. Keys(rows, SellerKey(rows)) \subseteq DOMAIN Sellers
  BY DEF Keys, SellerKey, ItemsOf, Data, ItemOk
<1>4. Valued(rows) /\ IsFiniteSet(DOMAIN Sellers)  BY RowsValued, DataSet
<1> HIDE DEF rows, g
<1>5. Sum(g) = Total(rows)  BY <1>2, <1>3, <1>4, TotalOfGroups
<1>6. QED  BY <1>5 DEF g, rows

\* What was paid adds up to the same revenue by payment type, month and state,
\* and what was sold by category, seller and seller state: no join loses or
\* repeats a payment or an item.  The orders paid with a type are the same in the
\* breakdown, in its own count and state by state.
THEOREM RevenueAlike == Spec => []RevenueAddsUp
<1>1. Data => RevenueAddsUp
  <2> SUFFICES ASSUME Data, NEW date \in DatesAsked, GetRevenue(None, None, None, None, date) # Error
               PROVE  LET paid == GetRevenue(None, None, None, None, date)
                          sold == SellerConcentration(date)
                          types == PaymentTypeBreakdown(date)
                      IN /\ paid = Sum(RevenueByPaymentType(date))
                         /\ paid = Sum([t \in DOMAIN types |-> types[t].revenue])
                         /\ \A t \in DOMAIN types : ValidPaymentType(t) =>
                             /\ types[t].orders = CountByPaymentType(t, None, date)
                             /\ types[t].orders = Sum([s \in States |-> CountByPaymentType(t, s, date)])
                         /\ paid = Sum(RevenueTrend(date, "month"))
                         /\ AddsUp(GetRevenue(None, None, None, "month", date), 1000, paid)
                         /\ AddsUp(RevenueByState(date), Shown, paid)
                         /\ RevenueByState(date) = GetRevenue(None, None, None, "state", date)
                         /\ paid = Sum([s \in States |-> GetRevenue(None, s, None, None, date)])
                         /\ \A limit \in 1 .. 2 :
                             /\ AddsUp(RevenueByCategory(date, limit), limit, sold.total)
                             /\ AddsUp(RevenueBySeller(date, None, limit), limit, sold.total)
                             /\ RevenueByCategory(date, limit) = TopCategories(date, limit, "revenue")
                         /\ AddsUp(GetRevenue(None, None, None, "category", date), Shown, sold.total)
                         /\ sold.total = Sum(SellersByState(date, "revenue"))
                         /\ sold.total = Sum([s \in DOMAIN Sellers |-> SellerMetrics(s, date).revenue])
    BY DEF RevenueAddsUp
  <2>1. PICK sel : sel = All(date)  OBVIOUS
  <2>2. sel # Error  BY <2>1 DEF GetRevenue, Answer, All
  <2>3. PICK rows, its : rows = PaymentsOf(sel) /\ its = ItemsOf(sel)  OBVIOUS
  <2>4. Valued(rows) /\ Valued(its)  BY <2>3, RowsValued
  <2>5. Shown \in Nat  BY OlistConstants
  <2>6. ASSUME NEW all, Valued(all), NEW key, NEW n \in Nat
        PROVE  AddsUp(Best(Totals(all, key), n, More), n, Total(all))
    <3> DEFINE g == Totals(all, key)
    <3>1. /\ Sum(g) = Total(all) /\ IsFiniteSet(DOMAIN g)
          /\ \A k \in DOMAIN g : g[k] \in Nat
      BY <2>6, TotalsAddUp
    <3> HIDE DEF g
    <3>2. AddsUp(Best(g, n, More), n, Sum(g))  BY <3>1, BestAddsUp
    <3>3. QED  BY <3>1, <3>2 DEF g
  <2>7. PICK paid : paid = GetRevenue(None, None, None, None, date) /\ paid = Total(rows)
    BY <2>1, <2>2, <2>3, PaidBreakdowns
  <2>8. /\ paid = Sum(RevenueByPaymentType(date)) /\ paid = Sum(RevenueTrend(date, "month"))
    <3>1. /\ RevenueByPaymentType(date) = Totals(rows, TypeKey(rows))
          /\ RevenueTrend(date, "month") = Totals(rows, MonthKey(rows))
      BY <2>1, <2>2, <2>3, PaidBreakdowns
    <3>2. Sum(Totals(rows, TypeKey(rows))) = Total(rows) /\ Sum(Totals(rows, MonthKey(rows))) = Total(rows)
      BY <2>4, TotalsAddUp
    <3>3. QED  BY <2>7, <3>1, <3>2
  <2>9. LET types == PaymentTypeBreakdown(date)
        IN paid = Sum([t \in DOMAIN types |-> types[t].revenue])
    <3> DEFINE K == {p.type : p \in rows}
               types == [k \in K |-> [orders |-> Orders({p \in rows : p.type = k}),
                                      revenue |-> Total({p \in rows : p.type = k})]]
    <3>1. PaymentTypeBreakdown(date) = types
      BY <2>1, <2>2, <2>3 DEF PaymentTypeBreakdown, Answer, Group
    <3>2. [t \in DOMAIN types |-> types[t].revenue] = [k \in K |-> Total({p \in rows : p.type = k})]
      OBVIOUS
    <3>3. [k \in K |-> Total({p \in rows : p.type = k})] = Totals(rows, TypeKey(rows))  BY GroupedBy
    <3>4. Sum(Totals(rows, TypeKey(rows))) = Total(rows)  BY <2>4, TotalsAddUp
    <3> HIDE DEF K, types
    <3>5. QED  BY <2>7, <3>1, <3>2, <3>3, <3>4
  <2>18. ASSUME NEW types, types = PaymentTypeBreakdown(date), NEW t \in DOMAIN types, ValidPaymentType(t)
         PROVE  /\ types[t].orders = CountByPaymentType(t, None, date)
                /\ types[t].orders = Sum([s \in States |-> CountByPaymentType(t, s, date)])
    <3>1. PICK some : some = {p \in rows : p.type = t}  OBVIOUS
    <3>2. types = [k \in {p.type : p \in rows} |-> [orders |-> Orders({p \in rows : p.type = k}),
                                                    revenue |-> Total({p \in rows : p.type = k})]]
      BY <2>1, <2>2, <2>3, <2>18 DEF PaymentTypeBreakdown, Answer, Group
    <3>3. types[t].orders = Orders(some)  BY <3>1, <3>2
    <3>4. /\ CountByPaymentType(t, None, date) = Orders(some)
          /\ Sum([s \in States |-> CountByPaymentType(t, s, date)]) = Orders(some)
      BY <2>1, <2>2, <2>3, <2>18, <3>1, CountedByType
    <3>5. QED  BY <3>3, <3>4
  <2>10. AddsUp(GetRevenue(None, None, None, "month", date), 1000, paid)
    <3>1. GetRevenue(None, None, None, "month", date) = {Totals(rows, MonthKey(rows))}
      BY <2>1, <2>2, <2>3, PaidBreakdowns
    <3>2. Sum(Totals(rows, MonthKey(rows))) = paid  BY <2>4, <2>7, TotalsAddUp
    <3>3. Total(rows) \in Nat  BY <2>4, TotalNat
    <3>4. QED  BY <2>7, <3>1, <3>2, <3>3 DEF AddsUp
  <2>11. /\ AddsUp(RevenueByState(date), Shown, paid)
         /\ RevenueByState(date) = GetRevenue(None, None, None, "state", date)
    <3>1. /\ RevenueByState(date) = Best(Totals(rows, StateKey(rows)), Shown, More)
          /\ GetRevenue(None, None, None, "state", date)
               = Best(Totals(rows, StateKey(rows)), Shown, More)
      BY <2>1, <2>2, <2>3, PaidBreakdowns
    <3>2. AddsUp(Best(Totals(rows, StateKey(rows)), Shown, More), Shown, Total(rows))
      BY <2>4, <2>5, <2>6
    <3>3. QED  BY <2>7, <3>1, <3>2
  <2>12. paid = Sum([s \in States |-> GetRevenue(None, s, None, None, date)])
    BY <2>1, <2>2, <2>3, <2>7, PaidByState
  <2>13. SellerConcentration(date).total = Total(its)
    <3>1. 1 \in 1 .. 2  OBVIOUS
    <3>2. SellerConcentration(date).total = Sum(Totals(its, SellerKey(its)))
      BY <2>1, <2>2, <2>3, <3>1, SoldBreakdowns
    <3>3. Sum(Totals(its, SellerKey(its))) = Total(its)  BY <2>4, TotalsAddUp
    <3>4. QED  BY <3>2, <3>3
  <2>14. ASSUME NEW limit \in 1 .. 2
         PROVE  /\ AddsUp(RevenueByCategory(date, limit), limit, Total(its))
                /\ AddsUp(RevenueBySeller(date, None, limit), limit, Total(its))
                /\ RevenueByCategory(date, limit) = TopCategories(date, limit, "revenue")
                /\ AddsUp(GetRevenue(None, None, None, "category", date), Shown, Total(its))
                /\ Total(its) = Sum(SellersByState(date, "revenue"))
    <3>1. /\ RevenueByCategory(date, limit) = Best(Totals(its, LabelKey(its)), limit, More)
          /\ RevenueBySeller(date, None, limit) = Best(Totals(its, SellerKey(its)), limit, More)
          /\ RevenueByCategory(date, limit) = TopCategories(date, limit, "revenue")
          /\ GetRevenue(None, None, None, "category", date)
               = Best(Totals(its, LabelKey(its)), Shown, More)
          /\ SellersByState(date, "revenue") = Totals(its, SellerStateKey(its))
      BY <2>1, <2>2, <2>3, SoldBreakdowns
    <3>2. limit \in Nat  OBVIOUS
    <3>3. AddsUp(Best(Totals(its, LabelKey(its)), limit, More), limit, Total(its))
      BY <2>4, <2>6, <3>2
    <3>4. AddsUp(Best(Totals(its, SellerKey(its)), limit, More), limit, Total(its))
      BY <2>4, <2>6, <3>2
    <3>5. AddsUp(Best(Totals(its, LabelKey(its)), Shown, More), Shown, Total(its))
      BY <2>4, <2>5, <2>6
    <3>6. Sum(Totals(its, SellerStateKey(its))) = Total(its)  BY <2>4, TotalsAddUp
    <3>7. QED  BY <3>1, <3>3, <3>4, <3>5, <3>6
  <2>15. Total(its) = Sum([s \in DOMAIN Sellers |-> SellerMetrics(s, date).revenue])
    BY <2>1, <2>2, <2>3, SoldBySeller
  <2>16. 1 \in 1 .. 2  OBVIOUS
  <2>17. QED  BY <2>7, <2>8, <2>9, <2>10, <2>11, <2>12, <2>13, <2>14, <2>15, <2>16, <2>18
<1>2. QED  BY <1>1, DataKept, PTL

(***************************************************************************)
(* Cohorts.                                                                *)
(***************************************************************************)
\* A finite non-empty set of integers has a least element.
LEMMA LeastInt ==
    ASSUME NEW S, IsFiniteSet(S), S \subseteq Int, S # {}
    PROVE  Min(S) \in S /\ \A y \in S : Min(S) =< y
<1> DEFINE HasLeast(T) == \E m \in T : \A y \in T : m =< y
           Bad == {n \in Nat : \E T \in SUBSET S : T # {} /\ Cardinality(T) = n /\ ~HasLeast(T)}
<1>1. Bad = {}
  <2> SUFFICES ASSUME Bad # {} PROVE FALSE  OBVIOUS
  <2>1. Bad \subseteq Nat  OBVIOUS
  <2> HIDE DEF Bad
  <2>2. PICK n \in Bad : \A k \in Bad : n =< k  BY <2>1, LeastOf
  <2>3. PICK T \in SUBSET S : T # {} /\ Cardinality(T) = n /\ ~HasLeast(T)  BY DEF Bad
  <2>4. PICK x \in T : TRUE  BY <2>3
  <2>5. PICK U \in SUBSET S : U = T \ {x}  OBVIOUS
  <2>6. IsFiniteSet(T) /\ Cardinality(T) \in Nat /\ Cardinality(U) \in Nat  BY PartOf
  <2>7. Cardinality(U) = n - 1  BY <2>3, <2>5, <2>6, FS_RemoveElement
  <2>8. Cardinality(U) \notin Bad  BY <2>2, <2>3, <2>6, <2>7
  <2>9. U = {} \/ HasLeast(U)  BY <2>6, <2>8 DEF Bad
  <2>10. HasLeast(T)
    <3>1. CASE U = {}
      <4>1. T = {x}  BY <2>5, <3>1
      <4>2. QED  BY <4>1
    <3>2. CASE HasLeast(U)
      <4>1. PICK m \in U : \A y \in U : m =< y  BY <3>2
      <4>2. m \in Int /\ x \in Int /\ \A y \in T : y \in Int /\ (y = x \/ y \in U)  BY <2>5
      <4>3. CASE m =< x  BY <2>5, <4>1, <4>2, <4>3
      <4>4. CASE x =< m  BY <4>1, <4>2, <4>4
      <4>5. QED  BY <4>2, <4>3, <4>4
    <3>3. QED  BY <2>9, <3>1, <3>2
  <2>11. QED  BY <2>3, <2>10
<1>2. Cardinality(S) \in Nat  BY FS_CardinalityType
<1>3. HasLeast(S)  BY <1>1, <1>2
<1>4. QED  BY <1>3 DEF Min

Buyers == {Buyer(o) : o \in DOMAIN orders}
Purchases(c) == {orders[o].purchase : o \in {x \in DOMAIN orders : Buyer(x) = c}}
Firsts == [c \in Buyers |-> FirstPurchase(c)]

\* Who bought has a first purchase, at a whole second.
LEMMA FirstsAre ==
    ASSUME Data
    PROVE  IsFiniteSet(Buyers) /\ \A c \in Buyers : Firsts[c] \in Int /\ Firsts[c] % 3 # 2
<1>1. IsFiniteSet(DOMAIN orders)  BY DEF Data
<1>2. IsFiniteSet(Buyers)
  <2> DEFINE f == [o \in DOMAIN orders |-> Buyer(o)]
  <2>1. IsFiniteSet({f[o] : o \in DOMAIN orders})  BY <1>1, ImageFinite
  <2>2. Buyers = {f[o] : o \in DOMAIN orders}  BY DEF Buyers
  <2>3. QED  BY <2>1, <2>2
<1>3. ASSUME NEW c \in Buyers PROVE Firsts[c] \in Int /\ Firsts[c] % 3 # 2
  <2> DEFINE mine == {x \in DOMAIN orders : Buyer(x) = c}
             f == [o \in DOMAIN orders |-> orders[o].purchase]
  <2>1. IsFiniteSet(mine)
    <3>1. mine \in SUBSET DOMAIN orders  OBVIOUS
    <3> HIDE DEF mine
    <3>2. QED  BY <1>1, <3>1, PartOf
  <2>2. Purchases(c) = {f[o] : o \in mine}  BY DEF Purchases
  <2>3. mine # {}  BY DEF Buyers
  <2>4. \A o \in mine : f[o] \in Int /\ f[o] % 3 # 2  BY DEF Data, OrderOk
  <2> HIDE DEF mine, f
  <2>5. IsFiniteSet(Purchases(c))  BY <2>1, <2>2, ImageFinite
  <2>6. Purchases(c) # {} /\ \A p \in Purchases(c) : p \in Int /\ p % 3 # 2  BY <2>2, <2>3, <2>4
  <2>7. Min(Purchases(c)) \in Purchases(c)  BY <2>5, <2>6, LeastInt
  <2>8. Firsts[c] = Min(Purchases(c))  BY DEF Firsts, FirstPurchase, Purchases
  <2>9. QED  BY <2>6, <2>7, <2>8
<1>4. QED  BY <1>2, <1>3

\* The sizes told by month are those of the whole cohort, and of fewer when
\* only those who paid are told.
LEMMA CohortSizes ==
    ASSUME Data, NEW date, date # None, NEW lo \in Int, NEW hi \in Int, DateRange(date, today) = <<lo, hi>>
    PROVE  /\ Sizes(CustomerCohortAnalysis(date, "retention")) = Cardinality(Between(Buyers, Firsts, lo, hi))
           /\ Sizes(CustomerCohortAnalysis(date, "revenue"))
                =< Sizes(CustomerCohortAnalysis(date, "retention"))
<1> DEFINE Month(c) == MonthStart(FirstPurchase(c) \div 3)
<1>1. PICK cohort : cohort = Cohort(date)  OBVIOUS
<1>2. cohort = Between(Buyers, Firsts, lo, hi)
  <2>1. \A c \in Buyers : InWindow(FirstPurchase(c), date) <=> lo =< Firsts[c] /\ Firsts[c] =< hi
    BY DEF InWindow, Within, Firsts
  <2>2. QED  BY <1>1, <2>1 DEF Cohort, Between, Buyers
<1>3. cohort \in SUBSET Buyers  BY <1>2 DEF Between
<1>4. IsFiniteSet(cohort)  BY <1>3, FirstsAre, PartOf
<1>5. PICK sel : sel = Placed(None, None, None, date)  OBVIOUS
<1>6. sel # Error
  <2>1. DateRange(date, today) # Error  BY Distinct
  <2>2. sel \subseteq DOMAIN orders  BY <1>5, <2>1 DEF Placed, KnownDate
  <2>3. QED  BY <2>2, NoError
<1>7. PICK key : key = [c \in cohort |-> Month(c)]  OBVIOUS
<1>8. PICK K : K = Keys(cohort, key)  OBVIOUS
<1>9. IsFiniteSet(K) /\ \A c \in cohort : key[c] \in K  BY <1>4, <1>8, ImageFinite DEF Keys
<1>10. \A k : {c \in cohort : Month(c) = k} = Fibre(cohort, key, k)  BY <1>7 DEF Fibre
<1>11. K = {Month(c) : c \in cohort}  BY <1>7, <1>8 DEF Keys
<1>12. PICK theirs : theirs = {o \in sel : Buyer(o) \in cohort}  OBVIOUS
<1>13. Sizes(CustomerCohortAnalysis(date, "retention")) = Cardinality(cohort)
  <2> DEFINE retained == [k \in {Month(c) : c \in cohort} |->
                            [size |-> Cardinality({c \in cohort : Month(c) = k}),
                             repeat |-> Cardinality({c \in {d \in cohort : Month(d) = k} :
                                   Cardinality({o \in theirs : Buyer(o) = c}) > 1})]]
  <2>1. CustomerCohortAnalysis(date, "retention") = retained
    BY <1>1, <1>5, <1>6, <1>12 DEF CustomerCohortAnalysis, Answer, Group
  <2>2. \A k \in {Month(c) : c \in cohort} : retained[k].size = Cardinality({c \in cohort : Month(c) = k})
    OBVIOUS
  <2>3. DOMAIN retained = {Month(c) : c \in cohort}  OBVIOUS
  <2> HIDE DEF retained
  <2>4. DOMAIN retained = K /\ \A k \in K : retained[k].size = Cardinality(Fibre(cohort, key, k))
    <3> HIDE DEF Month
    <3> QED  BY <1>10, <1>11, <2>2, <2>3
  <2>5. [k \in DOMAIN retained |-> retained[k].size] = Counts(cohort, key, K)
    BY <2>4 DEF Counts
  <2>6. Sizes(retained) = SumOver(Counts(cohort, key, K), K)
    <3>1. DOMAIN Counts(cohort, key, K) = K  BY DEF Counts
    <3>2. Sizes(retained) = Sum(Counts(cohort, key, K))  BY <2>5 DEF Sizes
    <3>3. QED  BY <3>1, <3>2, SumIs
  <2>7. QED  BY <1>4, <1>9, <2>1, <2>6, CountOfGroups
<1>14. Sizes(CustomerCohortAnalysis(date, "revenue")) =< Cardinality(cohort)
  <2>1. PICK rows : rows = PaymentsOf(theirs)  OBVIOUS
  <2> DEFINE paid == [k \in {Month(Buyer(p.order)) : p \in rows} |->
                        [size |-> Cardinality({Buyer(p.order) : p \in {q \in rows : Month(Buyer(q.order)) = k}}),
                         revenue |-> Total({q \in rows : Month(Buyer(q.order)) = k})]]
             Payers(k) == {Buyer(p.order) : p \in {q \in rows : Month(Buyer(q.order)) = k}}
  <2>2. CustomerCohortAnalysis(date, "revenue") = paid
    BY <1>1, <1>5, <1>6, <1>12, <2>1 DEF CustomerCohortAnalysis, Answer, Group
  <2>3. DOMAIN paid = {Month(Buyer(p.order)) : p \in rows}
        /\ \A k \in DOMAIN paid : paid[k].size = Cardinality(Payers(k))
    OBVIOUS
  <2>4. \A p \in rows : Buyer(p.order) \in cohort  BY <1>12, <2>1 DEF PaymentsOf
  <2>5. DOMAIN paid \subseteq K  BY <1>11, <2>3, <2>4
  <2>6. \A k : Payers(k) \in SUBSET Fibre(cohort, key, k)  BY <1>10, <2>4
  <2> HIDE DEF paid, Payers
  <2>7. PICK M : M = DOMAIN paid  OBVIOUS
  <2> DEFINE f == [k \in M |-> paid[k].size]
             g == Counts(cohort, key, K)
  <2>8. \A k \in K : Fibre(cohort, key, k) \in SUBSET cohort  BY DEF Fibre
  <2>9. \A k \in K : g[k] = Cardinality(Fibre(cohort, key, k)) /\ g[k] \in Nat
    BY <1>4, <2>8, PartOf DEF Counts
  <2>10. \A k \in M : f[k] \in Nat /\ f[k] =< g[k]
    <3> SUFFICES ASSUME NEW k \in M PROVE f[k] \in Nat /\ f[k] =< g[k]  OBVIOUS
    <3>1. k \in K  BY <2>5, <2>7
    <3>2. IsFiniteSet(Fibre(cohort, key, k))  BY <1>4, <2>8, <3>1, PartOf
    <3>3. Cardinality(Payers(k)) \in Nat /\ Cardinality(Payers(k)) =< Cardinality(Fibre(cohort, key, k))
      BY <2>6, <3>2, PartOf
    <3>4. f[k] = Cardinality(Payers(k))  BY <2>3, <2>7
    <3>5. QED  BY <2>9, <3>1, <3>3, <3>4
  <2>11. IsFiniteSet(M) /\ M \in SUBSET K  BY <1>9, <2>5, <2>7, PartOf
  <2>12. Sizes(paid) = SumOver(f, M)
    <3>1. Sizes(paid) = Sum(f) /\ DOMAIN f = M  BY <2>7 DEF Sizes
    <3> HIDE DEF f
    <3>2. QED  BY <3>1, SumIs
  <2>13. SumOver(g, K) = Cardinality(cohort)  BY <1>4, <1>9, CountOfGroups
  <2>14. \A k \in M : f[k] \in Nat /\ g[k] \in Nat /\ f[k] =< g[k]  BY <2>9, <2>10, <2>11
  <2> HIDE DEF f, g
  <2>15. SumOver(f, M) =< SumOver(g, M)  BY <2>11, <2>14, SumOrder
  <2>16. SumOver(g, M) =< SumOver(g, K)  BY <1>9, <2>9, <2>11, SumLess
  <2>17. SumOver(f, M) \in Nat /\ SumOver(g, M) \in Nat /\ SumOver(g, K) \in Nat
    BY <1>9, <2>9, <2>11, <2>14, SumNat
  <2>18. QED  BY <2>2, <2>12, <2>13, <2>15, <2>16, <2>17
<1>15. QED  BY <1>2, <1>13, <1>14

\* A customer belongs to one cohort, that of the first order ever: the cohorts of
\* two windows in a row are those of the range they span, and revenue is told of
\* no customer outside of them.
THEOREM CohortsApart == Spec => []CohortsDisjoint
<1>1. Data => CohortsDisjoint
  <2> SUFFICES ASSUME Data, NEW window \in Windows
               PROVE  LET Size(date, metric) == Sizes(CustomerCohortAnalysis(date, metric))
                      IN /\ Size(Named(window[1]), "retention") + Size(Named(window[2]), "retention")
                              = Size(Span(window), "retention")
                         /\ \A date \in {Named(window[1]), Named(window[2]), Span(window)} :
                              Size(date, "revenue") =< Size(date, "retention")
    BY DEF CohortsDisjoint
  <2>1. PICK d0, d1, e \in Int : Ranges(window, d0, d1, e)  BY WindowRanges
  <2>2. today \in Int  BY Calendar DEF Data
  <2>3. d0 < d1 /\ d1 =< today /\ e \in {3 * d1 - 1, 3 * d1 - 2}  BY <2>1 DEF Ranges
  <2>4. \A date \in {Named(window[1]), Named(window[2]), Span(window)} :
           \E lo, hi \in Int : date # None /\ DateRange(date, today) = <<lo, hi>>
    BY <2>1, <2>2 DEF Ranges
  <2>5. \A date \in {Named(window[1]), Named(window[2]), Span(window)} :
           Sizes(CustomerCohortAnalysis(date, "revenue")) =< Sizes(CustomerCohortAnalysis(date, "retention"))
    BY <2>4, CohortSizes
  <2> DEFINE size(lo, hi) == Cardinality(Between(Buyers, Firsts, lo, hi))
  <2>6. /\ Sizes(CustomerCohortAnalysis(Named(window[1]), "retention")) = size(3 * d0, e)
        /\ Sizes(CustomerCohortAnalysis(Named(window[2]), "retention")) = size(3 * d1, 3 * today + 2)
        /\ Sizes(CustomerCohortAnalysis(Span(window), "retention")) = size(3 * d0, 3 * today + 1)
    <3>1. /\ 3 * d0 \in Int /\ 3 * d1 \in Int /\ 3 * today + 2 \in Int /\ 3 * today + 1 \in Int
          /\ None \notin {Named(window[1]), Named(window[2]), Span(window)}
          /\ DateRange(Named(window[1]), today) = <<3 * d0, e>>
          /\ DateRange(Named(window[2]), today) = <<3 * d1, 3 * today + 2>>
          /\ DateRange(Span(window), today) = <<3 * d0, 3 * today + 1>>
      BY <2>1, <2>2 DEF Ranges
    <3>2. QED  BY <3>1, CohortSizes
  <2>7. size(3 * d0, e) + size(3 * d1, 3 * today + 2) = size(3 * d0, 3 * today + 1)
    <3>1. WholeSeconds(Buyers, Firsts)  BY FirstsAre DEF WholeSeconds
    <3>2. QED  BY <2>2, <2>3, <3>1, Tile
  <2> HIDE DEF size
  <2>8. QED  BY <2>5, <2>6, <2>7
<1>2. QED  BY <1>1, DataKept, PTL

(***************************************************************************)
(* Pages.                                                                  *)
(***************************************************************************)
\* The pairs of B order rows strictly, without ties.
Strict(rows, B) ==
    /\ IsFiniteSet(rows)
    /\ \A x \in rows : <<x, x>> \notin B
    /\ \A x, y \in rows : x = y \/ <<x, y>> \in B \/ <<y, x>> \in B
    /\ \A x, y, z \in rows : <<x, y>> \in B /\ <<y, z>> \in B => <<x, z>> \in B

Ahead(rows, B, x) == {y \in rows : <<y, x>> \in B}
Rank(rows, B) == [x \in rows |-> Cardinality(Ahead(rows, B, x))]
Front(rows, B, k) == {x \in rows : Rank(rows, B)[x] < k}

\* The place of a row tells it from the others.
LEMMA Ranks ==
    ASSUME NEW rows, NEW B, Strict(rows, B)
    PROVE  /\ \A x \in rows : Rank(rows, B)[x] \in 0 .. Cardinality(rows) - 1
           /\ \A x, y \in rows : <<x, y>> \in B <=> Rank(rows, B)[x] < Rank(rows, B)[y]
<1> DEFINE r == Rank(rows, B)
<1>1. \A x \in rows : r[x] = Cardinality(Ahead(rows, B, x)) /\ Ahead(rows, B, x) \in SUBSET rows
  BY DEF Rank, Ahead
<1>2. IsFiniteSet(rows) /\ Cardinality(rows) \in Nat  BY FS_CardinalityType DEF Strict
<1>3. \A x \in rows : IsFiniteSet(Ahead(rows, B, x)) /\ r[x] \in Nat  BY <1>1, <1>2, PartOf
<1>4. ASSUME NEW x \in rows PROVE r[x] \in 0 .. Cardinality(rows) - 1
  <2>1. Ahead(rows, B, x) \in SUBSET (rows \ {x})  BY DEF Ahead, Strict
  <2>2. IsFiniteSet(rows \ {x}) /\ Cardinality(rows \ {x}) = Cardinality(rows) - 1
    BY <1>2, FS_RemoveElement
  <2>3. Cardinality(Ahead(rows, B, x)) =< Cardinality(rows \ {x})  BY <2>1, <2>2, PartOf
  <2> HIDE DEF r
  <2>4. QED  BY <1>1, <1>2, <1>3, <2>2, <2>3
<1>5. ASSUME NEW x \in rows, NEW y \in rows, <<x, y>> \in B PROVE r[x] < r[y]
  <2>1. Ahead(rows, B, x) \in SUBSET Ahead(rows, B, y)  BY <1>5 DEF Ahead, Strict
  <2>2. x \in Ahead(rows, B, y) /\ x \notin Ahead(rows, B, x)  BY <1>5 DEF Ahead, Strict
  <2>3. IsFiniteSet(Ahead(rows, B, y))  BY <1>3
  <2>4. Cardinality(Ahead(rows, B, x)) =< Cardinality(Ahead(rows, B, y))
        /\ Cardinality(Ahead(rows, B, x)) # Cardinality(Ahead(rows, B, y))
    BY <2>1, <2>2, <2>3, FS_Subset
  <2> HIDE DEF r
  <2>5. QED  BY <1>1, <1>3, <2>4
<1> HIDE DEF r
<1>6. ASSUME NEW x \in rows, NEW y \in rows, r[x] < r[y] PROVE <<x, y>> \in B
  <2>1. r[x] \in Nat /\ r[y] \in Nat  BY <1>3
  <2>2. x # y /\ ~ (r[y] < r[x])  BY <1>6, <2>1
  <2>3. <<y, x>> \notin B  BY <1>5, <2>2
  <2>4. QED  BY <2>2, <2>3 DEF Strict
<1>7. QED  BY <1>4, <1>5, <1>6 DEF r

\* As many rows are in front as there are places, or rows.
LEMMA FrontSize ==
    ASSUME NEW rows, NEW B, Strict(rows, B), NEW k \in 0 .. Cardinality(rows)
    PROVE  Cardinality(Front(rows, B, k)) = k
<1> DEFINE N == Cardinality(rows)
           r == Rank(rows, B)
           F == Front(rows, B, k)
<1>1. IsFiniteSet(rows) /\ N \in Nat  BY FS_CardinalityType DEF Strict
<1>2. /\ \A x \in rows : r[x] \in 0 .. N - 1
      /\ \A x, y \in rows : r[x] = r[y] => x = y
  <2>1. /\ \A x \in rows : r[x] \in 0 .. N - 1
        /\ \A x, y \in rows : <<x, y>> \in B <=> r[x] < r[y]
    BY Ranks
  <2> HIDE DEF r, N
  <2>2. ASSUME NEW x \in rows, NEW y \in rows, r[x] = r[y] PROVE x = y
    <3>1. ~ (r[x] < r[y]) /\ ~ (r[y] < r[x])  BY <1>1, <2>1, <2>2
    <3>2. QED  BY <2>1, <3>1 DEF Strict
  <2>3. QED  BY <2>1, <2>2
<1>3. r \in [rows -> 0 .. N - 1]
  <2>1. r = [x \in rows |-> r[x]]  BY DEF Rank
  <2> HIDE DEF r, N
  <2>2. QED  BY <1>2, <2>1
<1>4. F = {x \in rows : r[x] < k}  BY DEF Front
<1> HIDE DEF r, N, F
<1>5. IsFiniteSet(0 .. N - 1) /\ Cardinality(0 .. N - 1) = N
  <2>1. 0 \in Int /\ N - 1 \in Int  BY <1>1
  <2>2. QED  BY <1>1, <2>1, FS_Interval
<1>6. r \in Injection(rows, 0 .. N - 1)  BY <1>2, <1>3 DEF Injection, IsInjective
<1>7. Cardinality(rows) = N  BY DEF N
<1>8. r \in Surjection(rows, 0 .. N - 1)  BY <1>5, <1>6, <1>7, FS_Injection
<1>9. \A n \in 0 .. N - 1 : \E x \in rows : r[x] = n  BY <1>8 DEF Surjection
<1>10. PICK s : s = [x \in F |-> r[x]]  OBVIOUS
<1>11. k \in Nat /\ k =< N  BY <1>1 DEF N
<1>12. \A x \in F : s[x] \in 0 .. k - 1  BY <1>1, <1>2, <1>4, <1>10, <1>11
<1>13. s \in Injection(F, 0 .. k - 1)
  <2>1. s \in [F -> 0 .. k - 1]  BY <1>10, <1>12
  <2>2. \A x, y \in F : s[x] = s[y] => x = y  BY <1>2, <1>4, <1>10
  <2>3. QED  BY <2>1, <2>2 DEF Injection, IsInjective
<1>14. s \in Surjection(F, 0 .. k - 1)
  <2>1. ASSUME NEW n \in 0 .. k - 1 PROVE \E x \in F : s[x] = n
    <3>1. n \in 0 .. N - 1 /\ n < k  BY <1>1, <1>11
    <3>2. PICK x \in rows : r[x] = n  BY <1>9, <3>1
    <3>3. QED  BY <1>4, <1>10, <3>1, <3>2
  <2>2. s \in [F -> 0 .. k - 1]  BY <1>10, <1>12
  <2>3. QED  BY <2>1, <2>2 DEF Surjection
<1>15. IsFiniteSet(0 .. k - 1) /\ Cardinality(0 .. k - 1) = k
  <2>1. 0 \in Int /\ k - 1 \in Int  BY <1>11
  <2>2. QED  BY <1>11, <2>1, FS_Interval
<1>16. Cardinality(F) = Cardinality(0 .. k - 1)  BY <1>13, <1>14, <1>15, FS_Injection
<1>17. QED  BY <1>15, <1>16 DEF F

\* Rows that nothing outside of them precedes are those in front.
LEMMA FrontIs ==
    ASSUME NEW rows, NEW B, Strict(rows, B), NEW E \in SUBSET rows,
           \A x \in rows \ E, y \in E : <<x, y>> \notin B
    PROVE  E = Front(rows, B, Cardinality(E))
<1> DEFINE k == Cardinality(E)
           r == Rank(rows, B)
<1>1. IsFiniteSet(rows)  BY DEF Strict
<1>2. IsFiniteSet(E) /\ k \in Nat /\ k =< Cardinality(rows) /\ Cardinality(rows) \in Nat  BY <1>1, PartOf
<1>3. ASSUME NEW y \in E PROVE r[y] < k
  <2>1. Ahead(rows, B, y) \in SUBSET (E \ {y})  BY DEF Ahead, Strict
  <2>2. IsFiniteSet(E \ {y}) /\ Cardinality(E \ {y}) = k - 1  BY <1>2, FS_RemoveElement
  <2>3. Cardinality(Ahead(rows, B, y)) =< Cardinality(E \ {y})
        /\ Cardinality(Ahead(rows, B, y)) \in Nat
    BY <2>1, <2>2, PartOf
  <2>4. r[y] = Cardinality(Ahead(rows, B, y))  BY DEF Rank
  <2> HIDE DEF r, k
  <2>5. QED  BY <1>2, <2>2, <2>3, <2>4
<1>4. E \in SUBSET Front(rows, B, k)  BY <1>3 DEF Front
<1>5. Front(rows, B, k) \in SUBSET rows  BY DEF Front
<1>6. k \in 0 .. Cardinality(rows)  BY <1>2
<1> HIDE DEF k
<1>7. Cardinality(Front(rows, B, k)) = k  BY <1>6, FrontSize
<1>8. IsFiniteSet(Front(rows, B, k))  BY <1>1, <1>5, PartOf
<1>9. Cardinality(E) = k  BY DEF k
<1>10. Front(rows, B, k) = E  BY <1>4, <1>7, <1>8, <1>9, FS_Subset
<1>11. QED  BY <1>9, <1>10

\* Pages, with the order as a set of pairs.
PagesBy(rows, limit, offset, B) ==
    {page \in kSubset(Max({0, Min({limit, Cardinality(rows) - offset})}), rows) :
        \E earlier \in kSubset(Min({offset, Cardinality(rows)}), rows \ page) :
            LET later == rows \ (page \cup earlier)
            IN /\ \A x \in page \cup later, y \in earlier : <<x, y>> \notin B
               /\ \A x \in later, y \in page : <<x, y>> \notin B}

\* There is one page for an offset: the rows of the places asked for.
LEMMA PagesAre ==
    ASSUME NEW rows, NEW B, Strict(rows, B), NEW limit \in Nat, NEW offset \in Nat
    PROVE  PagesBy(rows, limit, offset, B)
             = {Front(rows, B, offset + limit) \ Front(rows, B, offset)}
<1> DEFINE r == Rank(rows, B)
           Fr(k) == Front(rows, B, k)
<1>1. PICK N \in Nat : N = Cardinality(rows)  BY FS_CardinalityType DEF Strict
<1>2. IsFiniteSet(rows)  BY DEF Strict
<1>3. \A x \in rows : r[x] \in 0 .. N - 1  BY <1>1, Ranks
<1>4. \A x, y \in rows : <<x, y>> \in B <=> r[x] < r[y]  BY Ranks
<1>5. \A k \in Nat : k >= N => Fr(k) = rows  BY <1>1, <1>3 DEF Front
<1>6. \A k, l \in Nat : k =< l => Fr(k) \in SUBSET Fr(l)  BY <1>1, <1>3 DEF Front
<1>7. \A k \in 0 .. N : Cardinality(Fr(k)) = k  BY <1>1, FrontSize
<1>8. \A k \in Nat : Fr(k) \in SUBSET rows  BY DEF Front
<1>9. \A k \in Nat, x \in rows : x \in Fr(k) <=> r[x] < k  BY DEF Front
<1>10. PICK m1, m2 : /\ m1 = Max({0, Min({limit, N - offset})}) /\ m2 = Min({offset, N})
  OBVIOUS
<1>11. PICK l : l = IF limit =< N - offset THEN limit ELSE N - offset  OBVIOUS
<1>12. l = Min({limit, N - offset}) /\ l \in Int
  <2>1. N - offset \in Int /\ limit \in Int  BY <1>1
  <2>2. QED  BY <1>11, <2>1, MinMax
<1>13. m1 = IF 0 =< l THEN l ELSE 0
  <2>1. 0 \in Int  OBVIOUS
  <2>2. QED  BY <1>10, <1>12, <2>1, MinMax
<1>14. m2 = IF offset =< N THEN offset ELSE N
  <2>1. N \in Int /\ offset \in Int  BY <1>1
  <2>2. QED  BY <1>10, <2>1, MinMax
<1>15. m1 \in Nat /\ m2 \in Nat /\ m2 =< N /\ m1 + m2 =< N
  BY <1>1, <1>11, <1>12, <1>13, <1>14
<1>16. Fr(m2) = Fr(offset) /\ Fr(m1 + m2) = Fr(offset + limit)
  <2> HIDE DEF Fr
  <2>1. CASE offset + limit =< N
    <3>1. m2 = offset /\ m1 = limit  BY <1>11, <1>13, <1>14, <2>1
    <3>2. m1 + m2 = offset + limit  BY <3>1
    <3>3. QED  BY <3>1, <3>2
  <2>2. CASE offset =< N /\ ~ (offset + limit =< N)
    <3>1. m2 = offset /\ m1 = N - offset  BY <1>11, <1>13, <1>14, <2>2
    <3>2. m1 + m2 = N /\ offset + limit \in Nat /\ offset + limit >= N  BY <2>2, <3>1
    <3>3. QED  BY <1>5, <3>1, <3>2
  <2>3. CASE ~ (offset =< N)
    <3>1. m2 = N /\ m1 = 0  BY <1>11, <1>13, <1>14, <2>3
    <3>2. m1 + m2 = N /\ offset + limit \in Nat /\ offset + limit >= N /\ offset >= N  BY <2>3, <3>1
    <3>3. QED  BY <1>5, <3>1, <3>2
  <2>4. QED  BY <2>1, <2>2, <2>3
<1>17. PICK P : P = Fr(m1 + m2) \ Fr(m2)  OBVIOUS
<1>18. Fr(m2) \in SUBSET Fr(m1 + m2) /\ Fr(m1 + m2) \in SUBSET rows
  <2>1. m1 + m2 \in Nat /\ m2 =< m1 + m2  BY <1>15
  <2> HIDE DEF Fr
  <2>2. QED  BY <1>6, <1>8, <1>15, <2>1
<1>19. P \in SUBSET rows /\ Cardinality(P) = m1
  <2>1. m1 + m2 \in 0 .. N /\ m2 \in 0 .. N  BY <1>15
  <2> HIDE DEF Fr
  <2>2. Cardinality(Fr(m1 + m2)) = m1 + m2 /\ Cardinality(Fr(m2)) = m2  BY <1>7, <2>1
  <2>3. IsFiniteSet(Fr(m1 + m2))  BY <1>2, <1>18, PartOf
  <2>4. Fr(m1 + m2) \cap Fr(m2) = Fr(m2)  BY <1>18
  <2>5. Cardinality(P) = Cardinality(Fr(m1 + m2)) - Cardinality(Fr(m2))
    BY <1>17, <2>3, <2>4, FS_Difference
  <2>6. QED  BY <1>15, <1>17, <1>18, <2>2, <2>5
<1>20. P \in PagesBy(rows, limit, offset, B)
  <2>1. P \in kSubset(m1, rows)  BY <1>19 DEF kSubset
  <2>2. Fr(m2) \in kSubset(m2, rows \ P)
    <3>1. m2 \in 0 .. N  BY <1>15
    <3> HIDE DEF Fr
    <3>2. Fr(m2) \in SUBSET (rows \ P)  BY <1>17, <1>18
    <3>3. QED  BY <1>7, <3>1, <3>2 DEF kSubset
  <2>3. PICK later : later = rows \ (P \cup Fr(m2))  OBVIOUS
  <2>4. \A x \in P \cup later, y \in Fr(m2) : <<x, y>> \notin B
    <3>1. \A x \in P \cup later : x \in rows /\ ~ (r[x] < m2)
      <4> HIDE DEF Fr, r
      <4>1. P \cup later \in SUBSET (rows \ Fr(m2))  BY <1>17, <1>18, <2>3
      <4>2. QED  BY <1>9, <1>15, <4>1
    <3>2. \A y \in Fr(m2) : y \in rows /\ r[y] < m2
      <4> HIDE DEF Fr, r
      <4>1. QED  BY <1>9, <1>15, <1>18
    <3> HIDE DEF r, Fr
    <3>3. \A x \in P \cup later, y \in Fr(m2) : ~ (r[x] < r[y])
      BY <1>1, <1>3, <1>15, <3>1, <3>2
    <3>4. QED  BY <1>4, <3>1, <3>2, <3>3
  <2>5. \A x \in later, y \in P : <<x, y>> \notin B
    <3> HIDE DEF Fr, r
    <3>1. later \in SUBSET (rows \ Fr(m1 + m2)) /\ P \in SUBSET Fr(m1 + m2)
      BY <1>17, <2>3
    <3>2. m1 + m2 \in Nat  BY <1>15
    <3>3. \A x \in later : x \in rows /\ ~ (r[x] < m1 + m2)  BY <1>9, <3>1, <3>2
    <3>4. \A y \in P : y \in rows /\ r[y] < m1 + m2  BY <1>9, <1>18, <3>1, <3>2
    <3>5. \A x \in later, y \in P : ~ (r[x] < r[y])  BY <1>1, <1>3, <3>2, <3>3, <3>4
    <3>6. QED  BY <1>4, <3>3, <3>4, <3>5
  <2> HIDE DEF Fr
  <2>6. QED  BY <1>1, <1>10, <2>1, <2>2, <2>3, <2>4, <2>5 DEF PagesBy
<1>21. ASSUME NEW page \in PagesBy(rows, limit, offset, B) PROVE page = P
  <2>1. PICK earlier \in kSubset(m2, rows \ page) :
          /\ \A x \in page \cup (rows \ (page \cup earlier)), y \in earlier : <<x, y>> \notin B
          /\ \A x \in rows \ (page \cup earlier), y \in page : <<x, y>> \notin B
    BY <1>1, <1>10 DEF PagesBy
  <2>2. page \in kSubset(m1, rows)  BY <1>1, <1>10 DEF PagesBy
  <2>3. /\ page \in SUBSET rows /\ Cardinality(page) = m1
        /\ earlier \in SUBSET (rows \ page) /\ Cardinality(earlier) = m2
    BY <2>1, <2>2 DEF kSubset
  <2>4. earlier = Fr(m2)
    <3>1. earlier \in SUBSET rows  BY <2>3
    <3>2. \A x \in rows \ earlier, y \in earlier : <<x, y>> \notin B  BY <2>1
    <3>3. QED  BY <2>3, <3>1, <3>2, FrontIs
  <2>5. page \cup earlier = Fr(m1 + m2)
    <3>1. page \cup earlier \in SUBSET rows  BY <2>3
    <3>2. \A x \in rows \ (page \cup earlier), y \in page \cup earlier : <<x, y>> \notin B  BY <2>1
    <3>3. IsFiniteSet(rows) /\ page \cap earlier = {}  BY <1>2, <2>3
    <3>4. Cardinality(page \cup earlier) = m1 + m2
      <4>1. earlier \in SUBSET rows  BY <2>3
      <4>2. Cardinality(page \cup earlier) = Cardinality(page) + Cardinality(earlier)
        BY <2>3, <3>3, <4>1, DisjointParts
      <4>3. QED  BY <2>3, <4>2
    <3>5. QED  BY <3>1, <3>2, <3>4, FrontIs
  <2> HIDE DEF Fr
  <2>6. QED  BY <1>17, <2>3, <2>4, <2>5
<1>22. P = Fr(offset + limit) \ Fr(offset)
  <2> HIDE DEF Fr
  <2>1. QED  BY <1>16, <1>17
<1>23. PagesBy(rows, limit, offset, B) = {P}  BY <1>20, <1>21
<1>24. QED  BY <1>22, <1>23

\* p holds the pages of a length, by number.
Paged(p, rows, limit, B) ==
    p = [n \in 0 .. Cardinality(rows) |-> PagesBy(rows, limit, n * limit, B)]

\* One page for each number, and every row on one of them.
Covered(p, rows) ==
    LET numbers == 0 .. Cardinality(rows)
    IN /\ \A n \in numbers : Cardinality(p[n]) = 1
       /\ UNION {UNION p[n] : n \in numbers} = rows
       /\ Sum([n \in numbers |-> Cardinality(UNION p[n])]) = Cardinality(rows)

\* Pages of the same length, one after the other, show every row once.
LEMMA PagedOnce ==
    ASSUME NEW rows, NEW B, Strict(rows, B), NEW limit \in 1 .. 2, NEW p, Paged(p, rows, limit, B)
    PROVE  Covered(p, rows)
<1>0. PICK numbers : numbers = 0 .. Cardinality(rows)  OBVIOUS
<1>1. PICK N \in Nat : N = Cardinality(rows)  BY FS_CardinalityType DEF Strict
<1>2. IsFiniteSet(rows)  BY DEF Strict
<1>3. PICK r : r = Rank(rows, B)  OBVIOUS
<1>4. \A x \in rows : r[x] \in 0 .. N - 1  BY <1>1, <1>3, Ranks
<1>5. PICK key : key = [x \in rows |-> IF limit = 1 THEN r[x] ELSE r[x] \div 2]  OBVIOUS
<1>6. ASSUME NEW n \in numbers PROVE p[n] = {Fibre(rows, key, n)}
  <2>1. n \in Nat /\ n * limit \in Nat /\ limit \in Nat  BY <1>0, <1>1
  <2>2. p[n] = {Front(rows, B, n * limit + limit) \ Front(rows, B, n * limit)}
    BY <1>0, <2>1, PagesAre DEF Paged
  <2>3. ASSUME NEW x \in rows
        PROVE  r[x] < n * limit + limit /\ ~ (r[x] < n * limit) <=> key[x] = n
    <3>1. PICK k \in Nat : k = r[x]  BY <1>1, <1>4
    <3>2. CASE limit = 1
      <4>1. key[x] = k  BY <1>5, <3>1, <3>2
      <4>2. QED  BY <2>1, <3>1, <3>2, <4>1
    <3>3. CASE limit = 2
      <4>1. key[x] = k \div 2  BY <1>5, <3>1, <3>3
      <4>2. k < n * 2 + 2 /\ ~ (k < n * 2) <=> k \div 2 = n  BY <2>1
      <4>3. QED  BY <3>1, <3>3, <4>1, <4>2
    <3>4. QED  BY <3>2, <3>3
  <2>4. Front(rows, B, n * limit + limit) \ Front(rows, B, n * limit) = Fibre(rows, key, n)
    BY <1>3, <2>3 DEF Front, Fibre
  <2>5. QED  BY <2>2, <2>4
<1>7. IsFiniteSet(numbers)
  <2>1. 0 \in Int /\ N \in Int  BY <1>1
  <2>2. QED  BY <1>0, <1>1, <2>1, FS_Interval
<1>8. \A x \in rows : key[x] \in numbers
  <2> SUFFICES ASSUME NEW x \in rows PROVE key[x] \in 0 .. N  BY <1>0, <1>1
  <2>1. PICK k \in Nat : k = r[x] /\ k =< N  BY <1>1, <1>4
  <2>2. k \div 2 \in 0 .. N  BY <1>1, <2>1
  <2>3. QED  BY <1>5, <2>1, <2>2
<1>9. ASSUME NEW n \in numbers PROVE Cardinality(p[n]) = 1
  <2>1. Cardinality({Fibre(rows, key, n)}) = 1  BY FS_Singleton
  <2>2. QED  BY <1>6, <2>1
<1>10. \A n \in numbers : UNION p[n] = Fibre(rows, key, n)  BY <1>6
<1>11. UNION {UNION p[n] : n \in numbers} = rows
  <2>1. \A x : x \in UNION {UNION p[n] : n \in numbers} <=> \E n \in numbers : x \in UNION p[n]
    OBVIOUS
  <2>2. \A x : x \in UNION {UNION p[n] : n \in numbers} <=> x \in rows
    BY <1>8, <1>10, <2>1 DEF Fibre
  <2>3. QED  BY <2>2
<1>12. [n \in numbers |-> Cardinality(UNION p[n])] = Counts(rows, key, numbers)
  BY <1>10 DEF Counts
<1>13. Sum(Counts(rows, key, numbers)) = SumOver(Counts(rows, key, numbers), numbers)
  <2>1. DOMAIN Counts(rows, key, numbers) = numbers  BY DEF Counts
  <2>2. QED  BY <2>1, SumIs
<1>14. SumOver(Counts(rows, key, numbers), numbers) = Cardinality(rows)
  BY <1>2, <1>7, <1>8, CountOfGroups
<1>15. QED  BY <1>0, <1>9, <1>11, <1>12, <1>13, <1>14 DEF Covered

\* The review listing's order, and the order listing's.
LatestIn(rows) == {pair \in rows \X rows : Latest(pair[1], pair[2])}
NewerIn(rows) == {pair \in rows \X rows : Newer(pair[1], pair[2])}

LEMMA LatestStrict ==
    ASSUME NEW rows, IsFiniteSet(rows), \A x \in rows : x.created \in Int /\ x.id \in Int,
           \A x, y \in rows : <<x.created, x.id>> = <<y.created, y.id>> => x = y
    PROVE  Strict(rows, LatestIn(rows))
<1>1. \A x, y \in rows : <<x, y>> \in LatestIn(rows) <=> Latest(x, y)  BY DEF LatestIn
<1>2. \A x \in rows : ~Latest(x, x)  BY DEF Latest
<1>3. \A x, y \in rows : x = y \/ Latest(x, y) \/ Latest(y, x)  BY DEF Latest
<1>4. \A x, y, z \in rows : Latest(x, y) /\ Latest(y, z) => Latest(x, z)  BY DEF Latest
<1>5. QED  BY <1>1, <1>2, <1>3, <1>4 DEF Strict

LEMMA NewerStrict ==
    ASSUME NEW rows, IsFiniteSet(rows), \A x \in rows : orders[x].purchase \in Int,
           \A x, y \in rows : orders[x].purchase = orders[y].purchase => x = y
    PROVE  Strict(rows, NewerIn(rows))
<1>1. \A x, y \in rows : <<x, y>> \in NewerIn(rows) <=> Newer(x, y)  BY DEF NewerIn
<1>2. \A x \in rows : ~Newer(x, x)  BY DEF Newer
<1>3. \A x, y \in rows : x = y \/ Newer(x, y) \/ Newer(y, x)  BY DEF Newer
<1>4. \A x, y, z \in rows : Newer(x, y) /\ Newer(y, z) => Newer(x, z)  BY DEF Newer
<1>5. QED  BY <1>1, <1>2, <1>3, <1>4 DEF Strict

\* An offset that is not negative is taken as it is.
LEMMA OffsetIs ==
    ASSUME NEW n \in Nat, NEW limit \in 1 .. 2
    PROVE  Max({0, n * limit}) = n * limit /\ n * limit \in Nat
<1>1. PICK m \in Nat : m = n * limit  OBVIOUS
<1>2. 0 \in Int /\ m \in Int  OBVIOUS
<1>3. Max({0, m}) = m  BY <1>2, MinMax
<1>4. QED  BY <1>1, <1>3

\* The pages of the two listings are the pages by their orders.
LEMMA ReviewPages ==
    ASSUME Data, NEW placed, placed = Placed(None, None, None, None), NEW low, low = LowReviews(placed, 2, None),
           NEW limit \in 1 .. 2, NEW n \in Nat
    PROVE  ListLowReviews(2, None, None, limit, n * limit).pages = PagesBy(low, limit, n * limit, LatestIn(low))
<1>1. placed # Error
  <2>1. placed \subseteq DOMAIN orders  BY DEF Placed, KnownDate
  <2>2. QED  BY <2>1, NoError
<1>2. OfCity(None, None) = placed  BY DEF OfCity, KnownDate
<1>3. Clamp(limit, 1, 50) = limit
  <2>1. limit \in 1 .. 50 /\ 50 \in Nat  OBVIOUS
  <2>2. QED  BY <2>1, ClampIs
<1>4. Max({0, n * limit}) = n * limit  BY OffsetIs
<1>5. ListLowReviews(2, None, None, limit, n * limit).pages = Pages(low, limit, n * limit, Latest)
  BY <1>1, <1>2, <1>3, <1>4 DEF ListLowReviews, Answer
<1>6. \A x, y \in low : Latest(x, y) <=> <<x, y>> \in LatestIn(low)  BY DEF LatestIn
<1>7. Pages(low, limit, n * limit, Latest) = PagesBy(low, limit, n * limit, LatestIn(low))
  <2> DEFINE m == Max({0, Min({limit, Cardinality(low) - n * limit})})
             k == Min({n * limit, Cardinality(low)})
             Cut(page, earlier) ==
                LET later == low \ (page \cup earlier)
                IN /\ \A x \in page \cup later, y \in earlier : ~Latest(x, y)
                   /\ \A x \in later, y \in page : ~Latest(x, y)
             CutBy(page, earlier) ==
                LET later == low \ (page \cup earlier)
                IN /\ \A x \in page \cup later, y \in earlier : <<x, y>> \notin LatestIn(low)
                   /\ \A x \in later, y \in page : <<x, y>> \notin LatestIn(low)
  <2>1. /\ Pages(low, limit, n * limit, Latest)
              = {page \in kSubset(m, low) : \E earlier \in kSubset(k, low \ page) : Cut(page, earlier)}
        /\ PagesBy(low, limit, n * limit, LatestIn(low))
              = {page \in kSubset(m, low) : \E earlier \in kSubset(k, low \ page) : CutBy(page, earlier)}
    BY DEF Pages, PagesBy
  <2>2. \A page \in SUBSET low, earlier \in SUBSET low : Cut(page, earlier) <=> CutBy(page, earlier)
    <3> SUFFICES ASSUME NEW page \in SUBSET low, NEW earlier \in SUBSET low
                 PROVE  Cut(page, earlier) <=> CutBy(page, earlier)
      OBVIOUS
    <3>1. low \ (page \cup earlier) \in SUBSET low  OBVIOUS
    <3>2. QED  BY <1>6, <3>1
  <2>3. /\ \A page \in kSubset(m, low) : page \in SUBSET low
        /\ \A page : \A earlier \in kSubset(k, low \ page) : earlier \in SUBSET low
    BY DEF kSubset
  <2> HIDE DEF Cut, CutBy, m, k
  <2>4. \A page \in kSubset(m, low) : (\E earlier \in kSubset(k, low \ page) : Cut(page, earlier))
                                        <=> \E earlier \in kSubset(k, low \ page) : CutBy(page, earlier)
    BY <2>2, <2>3
  <2>5. QED  BY <2>1, <2>4
<1>8. QED  BY <1>5, <1>7

LEMMA OrderPages ==
    ASSUME Data, NEW placed, placed = Placed(None, None, None, None), NEW limit \in 1 .. 2, NEW n \in Nat
    PROVE  ListOrders(None, None, None, None, limit, n * limit).pages = PagesBy(placed, limit, n * limit, NewerIn(placed))
<1>1. placed # Error
  <2>1. placed \subseteq DOMAIN orders  BY DEF Placed, KnownDate
  <2>2. QED  BY <2>1, NoError
<1>2. Clamp(limit, 1, 50) = limit
  <2>1. limit \in 1 .. 50 /\ 50 \in Nat  OBVIOUS
  <2>2. QED  BY <2>1, ClampIs
<1>3. Max({0, n * limit}) = n * limit  BY OffsetIs
<1>4. ListOrders(None, None, None, None, limit, n * limit).pages = Pages(placed, limit, n * limit, Newer)
  BY <1>1, <1>2, <1>3 DEF ListOrders, Answer
<1>5. \A x, y \in placed : Newer(x, y) <=> <<x, y>> \in NewerIn(placed)  BY DEF NewerIn
<1>6. Pages(placed, limit, n * limit, Newer) = PagesBy(placed, limit, n * limit, NewerIn(placed))
  <2> DEFINE m == Max({0, Min({limit, Cardinality(placed) - n * limit})})
             k == Min({n * limit, Cardinality(placed)})
             Cut(page, earlier) ==
                LET later == placed \ (page \cup earlier)
                IN /\ \A x \in page \cup later, y \in earlier : ~Newer(x, y)
                   /\ \A x \in later, y \in page : ~Newer(x, y)
             CutBy(page, earlier) ==
                LET later == placed \ (page \cup earlier)
                IN /\ \A x \in page \cup later, y \in earlier : <<x, y>> \notin NewerIn(placed)
                   /\ \A x \in later, y \in page : <<x, y>> \notin NewerIn(placed)
  <2>1. /\ Pages(placed, limit, n * limit, Newer)
              = {page \in kSubset(m, placed) : \E earlier \in kSubset(k, placed \ page) : Cut(page, earlier)}
        /\ PagesBy(placed, limit, n * limit, NewerIn(placed))
              = {page \in kSubset(m, placed) : \E earlier \in kSubset(k, placed \ page) : CutBy(page, earlier)}
    BY DEF Pages, PagesBy
  <2>2. \A page \in SUBSET placed, earlier \in SUBSET placed : Cut(page, earlier) <=> CutBy(page, earlier)
    <3> SUFFICES ASSUME NEW page \in SUBSET placed, NEW earlier \in SUBSET placed
                 PROVE  Cut(page, earlier) <=> CutBy(page, earlier)
      OBVIOUS
    <3>1. placed \ (page \cup earlier) \in SUBSET placed  OBVIOUS
    <3>2. QED  BY <1>5, <3>1
  <2>3. /\ \A page \in kSubset(m, placed) : page \in SUBSET placed
        /\ \A page : \A earlier \in kSubset(k, placed \ page) : earlier \in SUBSET placed
    BY DEF kSubset
  <2> HIDE DEF Cut, CutBy, m, k
  <2>4. \A page \in kSubset(m, placed) : (\E earlier \in kSubset(k, placed \ page) : Cut(page, earlier))
                                        <=> \E earlier \in kSubset(k, placed \ page) : CutBy(page, earlier)
    BY <2>2, <2>3
  <2>5. QED  BY <2>1, <2>4
<1>7. QED  BY <1>4, <1>6

\* Who pages through a listing sees each row once, provided no two rows tie on
\* what it is sorted by.
THEOREM PagesAlwaysCover == Spec => []PagesCover
<1>1. Data => PagesCover
  <2> SUFFICES ASSUME Data PROVE PagesCover  OBVIOUS
  <2>1. PICK placed : placed = Placed(None, None, None, None)  OBVIOUS
  <2>2. PICK low : low = LowReviews(placed, 2, None)  OBVIOUS
  <2>3. placed \subseteq DOMAIN orders /\ IsFiniteSet(placed)
    <3>1. placed \subseteq DOMAIN orders  BY <2>1 DEF Placed, KnownDate
    <3>2. IsFiniteSet(DOMAIN orders)  BY DEF Data
    <3>3. QED  BY <3>1, <3>2, PartOf
  <2>4. low \in SUBSET reviews  BY <2>2 DEF LowReviews, ReviewsOf
  <2>5. IsFiniteSet(low)
    <3>1. IsFiniteSet(reviews)  BY DEF Data
    <3>2. QED  BY <2>4, <3>1, PartOf
  <2> DEFINE Read(n, limit) == ListLowReviews(2, None, None, limit, n * limit).pages
             List(n, limit) == ListOrders(None, None, None, None, limit, n * limit).pages
  <2>6. ASSUME NEW limit \in 1 .. 2, \A x, y \in low : <<x.created, x.id>> = <<y.created, y.id>> => x = y
        PROVE  LET numbers == 0 .. Cardinality(low)
               IN /\ \A n \in numbers : Cardinality(Read(n, limit)) = 1
                  /\ UNION {UNION Read(n, limit) : n \in numbers} = low
                  /\ Cardinality(low) = Sum([n \in numbers |-> Cardinality(UNION Read(n, limit))])
    <3>1. \A x \in low : x.created \in Int /\ x.id \in Int
      BY <2>4 DEF Data, ReviewOk, ReviewRows
    <3>2. PICK B : B = LatestIn(low) /\ Strict(low, B)  BY <2>5, <2>6, <3>1, LatestStrict
    <3>3. PICK numbers : numbers = 0 .. Cardinality(low)  OBVIOUS
    <3>4. PICK p : p = [n \in numbers |-> PagesBy(low, limit, n * limit, B)]  OBVIOUS
    <3>5. /\ \A n \in numbers : Cardinality(p[n]) = 1
          /\ UNION {UNION p[n] : n \in numbers} = low
          /\ Sum([n \in numbers |-> Cardinality(UNION p[n])]) = Cardinality(low)
      <4>1. Strict(low, B)  BY <3>2
      <4>2. Paged(p, low, limit, B)  BY <3>3, <3>4 DEF Paged
      <4>3. Covered(p, low)  BY <4>1, <4>2, PagedOnce
      <4>4. QED  BY <4>3, <3>3 DEF Covered
    <3>6. \A n \in numbers : p[n] = Read(n, limit)
      <4>1. \A n \in numbers : n \in Nat  BY <2>5, <3>3, FS_CardinalityType
      <4>2. \A n \in numbers : Read(n, limit) = PagesBy(low, limit, n * limit, B)
        BY <2>1, <2>2, <3>2, <4>1, ReviewPages
      <4> HIDE DEF Read
      <4>3. QED  BY <3>4, <4>2
    <3> HIDE DEF Read
    <3>7. {UNION p[n] : n \in numbers} = {UNION Read(n, limit) : n \in numbers}  BY <3>6
    <3>8. [n \in numbers |-> Cardinality(UNION p[n])] = [n \in numbers |-> Cardinality(UNION Read(n, limit))]
      BY <3>6
    <3>9. QED  BY <3>3, <3>5, <3>6, <3>7, <3>8
  <2>7. ASSUME NEW limit \in 1 .. 2, \A x, y \in placed : orders[x].purchase = orders[y].purchase => x = y
        PROVE  LET numbers == 0 .. Cardinality(placed)
               IN /\ \A n \in numbers : Cardinality(List(n, limit)) = 1
                  /\ UNION {UNION List(n, limit) : n \in numbers} = placed
                  /\ Cardinality(placed) = Sum([n \in numbers |-> Cardinality(UNION List(n, limit))])
    <3>1. \A x \in placed : orders[x].purchase \in Int  BY <2>3 DEF Data, OrderOk
    <3>2. PICK B : B = NewerIn(placed) /\ Strict(placed, B)  BY <2>3, <2>7, <3>1, NewerStrict
    <3>3. PICK numbers : numbers = 0 .. Cardinality(placed)  OBVIOUS
    <3>4. PICK p : p = [n \in numbers |-> PagesBy(placed, limit, n * limit, B)]  OBVIOUS
    <3>5. /\ \A n \in numbers : Cardinality(p[n]) = 1
          /\ UNION {UNION p[n] : n \in numbers} = placed
          /\ Sum([n \in numbers |-> Cardinality(UNION p[n])]) = Cardinality(placed)
      <4>1. Strict(placed, B)  BY <3>2
      <4>2. Paged(p, placed, limit, B)  BY <3>3, <3>4 DEF Paged
      <4>3. Covered(p, placed)  BY <4>1, <4>2, PagedOnce
      <4>4. QED  BY <4>3, <3>3 DEF Covered
    <3>6. \A n \in numbers : p[n] = List(n, limit)
      <4>1. \A n \in numbers : n \in Nat  BY <2>3, <3>3, FS_CardinalityType
      <4>2. \A n \in numbers : List(n, limit) = PagesBy(placed, limit, n * limit, B)
        BY <2>1, <2>2, <3>2, <4>1, OrderPages
      <4> HIDE DEF List
      <4>3. QED  BY <3>4, <4>2
    <3> HIDE DEF List
    <3>7. {UNION p[n] : n \in numbers} = {UNION List(n, limit) : n \in numbers}  BY <3>6
    <3>8. [n \in numbers |-> Cardinality(UNION p[n])] = [n \in numbers |-> Cardinality(UNION List(n, limit))]
      BY <3>6
    <3>9. QED  BY <3>3, <3>5, <3>6, <3>7, <3>8
  <2>8. QED  BY <2>1, <2>2, <2>6, <2>7 DEF PagesCover
<1>2. QED  BY <1>1, DataKept, PTL

(***************************************************************************)
(* Ratings.                                                                *)
(***************************************************************************)
Pairs == Reviewed(items)
Scores == [x \in Pairs |-> x[2].score]
Ratings(pairs, key) == [k \in Keys(pairs, key) |-> Rating(Fibre(pairs, key, k))]

LEMMA PairsAre ==
    ASSUME Data
    PROVE  /\ IsFiniteSet(Pairs)
           /\ \A x \in Pairs : /\ x[1] \in items /\ x[2] \in reviews /\ x[2] # None
                               /\ x[1].order = x[2].order /\ Scores[x] \in Nat
<1>1. IsFiniteSet(items) /\ IsFiniteSet(reviews)  BY DEF Data
<1>2. IsFiniteSet(items \X reviews)  BY <1>1, FS_Product
<1>3. Pairs \in SUBSET (items \X reviews)  BY DEF Pairs, Reviewed
<1>4. IsFiniteSet(Pairs)  BY <1>2, <1>3, PartOf
<1>5. \A r \in reviews : r \in ReviewRows  BY DEF Data, ReviewOk
<1>6. \A r \in reviews : r # None /\ r.score \in Nat  BY <1>5, Distinct DEF ReviewRows
<1>7. ASSUME NEW x \in Pairs
      PROVE  /\ x[1] \in items /\ x[2] \in reviews /\ x[2] # None
             /\ x[1].order = x[2].order /\ Scores[x] \in Nat
  <2>1. x[1] \in items /\ x[2] \in reviews /\ x[1].order = x[2].order  BY DEF Pairs, Reviewed
  <2>2. Scores[x] = x[2].score  BY DEF Scores
  <2>3. QED  BY <1>6, <2>1, <2>2
<1>8. QED  BY <1>4, <1>7

\* The rating of rows joined to reviews is the sum and the number of the scores.
LEMMA RatingIs ==
    ASSUME Data, NEW pairs, NEW some \in SUBSET Pairs, some = {x \in pairs : x[2] # None}, some # {}
    PROVE  /\ Rating(pairs) = <<SumOver(Scores, some), Cardinality(some)>>
           /\ SumOver(Scores, some) \in Nat /\ Cardinality(some) \in Nat \ {0}
<1>1. IsFiniteSet(Pairs) /\ \A x \in Pairs : Scores[x] \in Nat  BY PairsAre
<1>2. IsFiniteSet(some) /\ Cardinality(some) \in Nat  BY <1>1, PartOf
<1>3. Cardinality(some) # 0  BY <1>2, FS_EmptySet
<1>4. SumOver(Scores, some) \in Nat  BY <1>1, SumNat
<1> DEFINE f == [x \in some |-> x[2].score]
<1>5. Rating(pairs) = <<Sum(f), Cardinality(some)>>  BY DEF Rating, Average
<1>6. \A x \in some : Scores[x] \in Int /\ f[x] \in Int /\ f[x] = Scores[x]  BY <1>1 DEF Scores
<1>7. DOMAIN f = some  OBVIOUS
<1> HIDE DEF f
<1>8. Sum(f) = SumOver(Scores, some)
  <2>1. SumOver(f, some) = SumOver(Scores, some)  BY <1>2, <1>6, SumAgree
  <2>2. QED  BY <1>7, <2>1, SumIs
<1>9. QED  BY <1>2, <1>3, <1>4, <1>5, <1>8

\* However pairs are grouped, the ratings of the groups add up to the same scores
\* and the same number of them.
LEMMA RatedGroups ==
    ASSUME Data, NEW key, NEW g, g = Ratings(Pairs, key)
    PROVE  /\ IsFiniteSet(DOMAIN g)
           /\ \A k \in DOMAIN g : g[k] = <<g[k][1], g[k][2]>> /\ g[k][1] \in Nat /\ g[k][2] \in Nat \ {0}
           /\ Sum([k \in DOMAIN g |-> g[k][1]]) = SumOver(Scores, Pairs)
           /\ Sum([k \in DOMAIN g |-> g[k][2]]) = Cardinality(Pairs)
<1> DEFINE K == Keys(Pairs, key)
           sums == Fibres(Scores, Pairs, key, K)
           sizes == Counts(Pairs, key, K)
<1>1. IsFiniteSet(Pairs) /\ \A x \in Pairs : Scores[x] \in Int /\ x[2] # None  BY PairsAre
<1>2. IsFiniteSet(K)  BY <1>1, ImageFinite DEF Keys
<1>3. \A x \in Pairs : key[x] \in K  BY DEF Keys
<1>4. DOMAIN g = K /\ DOMAIN sums = K /\ DOMAIN sizes = K  BY DEF Ratings, Fibres, Counts
<1>5. ASSUME NEW k \in K
      PROVE  /\ g[k] = <<sums[k], sizes[k]>>
             /\ sums[k] \in Nat /\ sizes[k] \in Nat \ {0}
  <2>1. PICK some : some = Fibre(Pairs, key, k)  OBVIOUS
  <2>2. some \in SUBSET Pairs /\ some # {}  BY <2>1 DEF Fibre, Keys
  <2>3. some = {x \in some : x[2] # None}  BY <1>1, <2>2
  <2>4. g[k] = Rating(some)  BY <2>1 DEF Ratings
  <2>5. sums[k] = SumOver(Scores, some) /\ sizes[k] = Cardinality(some)  BY <2>1 DEF Fibres, Counts
  <2>6. /\ Rating(some) = <<SumOver(Scores, some), Cardinality(some)>>
        /\ SumOver(Scores, some) \in Nat /\ Cardinality(some) \in Nat \ {0}
    BY <2>2, <2>3, RatingIs
  <2>7. QED  BY <2>4, <2>5, <2>6
<1>6. SumOver(sums, K) = SumOver(Scores, Pairs)
  <2> HIDE DEF K
  <2>1. QED  BY <1>1, <1>2, <1>3, SumOfGroups
<1>7. SumOver(sizes, K) = Cardinality(Pairs)
  <2> HIDE DEF K
  <2>1. QED  BY <1>1, <1>2, <1>3, CountOfGroups
<1> HIDE DEF K, sums, sizes
<1>8. Sum(sums) = SumOver(sums, K) /\ Sum(sizes) = SumOver(sizes, K)  BY <1>4, SumIs
<1>9. [k \in DOMAIN g |-> g[k][1]] = sums /\ [k \in DOMAIN g |-> g[k][2]] = sizes
  <2>1. sums = [k \in K |-> sums[k]] /\ sizes = [k \in K |-> sizes[k]]
    BY DEF sums, sizes, Fibres, Counts
  <2>2. \A k \in K : g[k][1] = sums[k] /\ g[k][2] = sizes[k]  BY <1>5
  <2>3. [k \in K |-> g[k][1]] = [k \in K |-> sums[k]] /\ [k \in K |-> g[k][2]] = [k \in K |-> sizes[k]]
    BY <2>2
  <2>4. QED  BY <1>4, <2>1, <2>3
<1>10. \A k \in DOMAIN g : g[k] = <<g[k][1], g[k][2]>> /\ g[k][1] \in Nat /\ g[k][2] \in Nat \ {0}
  BY <1>4, <1>5
<1>11. QED  BY <1>2, <1>4, <1>6, <1>7, <1>8, <1>9, <1>10

Dated(date) == {r \in reviews : InWindow(r.created, date)}
ScoreKey(rows) == [r \in rows |-> r.score]
Upto(rows, k) == {r \in rows : r.score =< k}

\* The reviews of a window as the three handlers count them.
LEMMA DatedReviews ==
    ASSUME Data, NEW date, KnownDate(date), NEW rows, rows = Dated(date)
    PROVE  /\ ReviewScoreDistribution(date, None, None) = Counts(rows, ScoreKey(rows), Keys(rows, ScoreKey(rows)))
           /\ \A k \in 1 .. 5 : CountLowReviews(k, None, date) = Cardinality(Upto(rows, k))
           /\ LET trend == ReviewSentimentTrend(date, "month")
              IN Sum([m \in DOMAIN trend |-> trend[m][2]]) = Cardinality(rows)
<1>1. PICK placed : placed = Placed(None, None, None, None)  OBVIOUS
<1>2. placed = DOMAIN orders
  BY <1>1 DEF Placed, KnownDate, InWindow
<1>3. placed # Error  BY <1>2, NoError
<1>4. {r \in ReviewsOf(placed) : InWindow(r.created, date)} = rows
  <2>1. \A r \in reviews : r.order \in placed  BY <1>2 DEF Data, ReviewOk
  <2>2. QED  BY <2>1 DEF ReviewsOf, Dated
<1>5. IsFiniteSet(rows)
  <2>1. IsFiniteSet(reviews) /\ rows \in SUBSET reviews  BY DEF Data, Dated
  <2>2. QED  BY <2>1, PartOf
<1>6. ReviewScoreDistribution(date, None, None) = Counts(rows, ScoreKey(rows), Keys(rows, ScoreKey(rows)))
  <2>1. ReviewScoreDistribution(date, None, None)
          = [k \in {r.score : r \in rows} |-> Cardinality({r \in rows : r.score = k})]
    BY <1>1, <1>3, <1>4 DEF ReviewScoreDistribution, ParametersClash, Answer, Group
  <2>2. {r.score : r \in rows} = Keys(rows, ScoreKey(rows))  BY DEF Keys, ScoreKey
  <2>3. \A k : {r \in rows : r.score = k} = Fibre(rows, ScoreKey(rows), k)  BY DEF Fibre, ScoreKey
  <2>4. QED  BY <2>1, <2>2, <2>3 DEF Counts
<1>7. ASSUME NEW k \in 1 .. 5 PROVE CountLowReviews(k, None, date) = Cardinality(Upto(rows, k))
  <2>1. OfCity(None, date) = placed  BY <1>1 DEF OfCity
  <2>2. CountLowReviews(k, None, date) = Cardinality(LowReviews(placed, k, date))
    BY <1>3, <2>1 DEF CountLowReviews, Answer
  <2>3. Clamp(k, 1, 5) = k
    <3>1. 5 \in Nat  OBVIOUS
    <3>2. QED  BY <3>1, ClampIs
  <2>4. LowReviews(placed, k, date) = {r \in ReviewsOf(placed) : r.score =< k /\ InWindow(r.created, date)}
    BY <2>3 DEF LowReviews
  <2>5. LowReviews(placed, k, date) = Upto(rows, k)  BY <1>4, <2>4 DEF Upto
  <2>6. QED  BY <2>2, <2>5
<1>8. LET trend == ReviewSentimentTrend(date, "month")
      IN Sum([m \in DOMAIN trend |-> trend[m][2]]) = Cardinality(rows)
  <2> DEFINE Month(r) == MonthStart(r.created \div 3)
             key == [r \in rows |-> Month(r)]
             K == Keys(rows, key)
             sizes == Counts(rows, key, K)
             total(part) == Sum([r \in part |-> r.score])
             month(m) == {r \in rows : Month(r) = m}
  <2>1. PICK trend : trend = ReviewSentimentTrend(date, "month")  OBVIOUS
  <2>2. trend = [m \in {Month(r) : r \in rows} |->
                    IF month(m) = {} THEN None ELSE <<total(month(m)), Cardinality(month(m))>>]
    BY <2>1 DEF ReviewSentimentTrend, Group, Average, Dated
  <2>3. {Month(r) : r \in rows} = K  BY DEF Keys
  <2>4. \A m : month(m) = Fibre(rows, key, m)  BY DEF Fibre
  <2>5. \A m \in K : Fibre(rows, key, m) # {}  BY DEF Keys, Fibre
  <2>6. IsFiniteSet(K) /\ \A r \in rows : key[r] \in K  BY <1>5, ImageFinite DEF Keys
  <2> HIDE DEF K, total, key, month
  <2>7. DOMAIN trend = K /\ \A m \in K : trend[m][2] = Cardinality(Fibre(rows, key, m))
    <3> HIDE DEF Month
    <3>1. DOMAIN trend = K  BY <2>2, <2>3
    <3>2. \A m \in K : trend[m] = <<total(month(m)), Cardinality(month(m))>>  BY <2>2, <2>3, <2>4, <2>5
    <3>3. QED  BY <2>4, <3>1, <3>2
  <2>8. [m \in DOMAIN trend |-> trend[m][2]] = sizes  BY <2>7 DEF Counts
  <2>9. Sum(sizes) = SumOver(sizes, K)
    <3>1. DOMAIN sizes = K  BY DEF Counts
    <3>2. QED  BY <3>1, SumIs
  <2>10. SumOver(sizes, K) = Cardinality(rows)  BY <1>5, <2>6, CountOfGroups
  <2>11. QED  BY <2>1, <2>8, <2>9, <2>10
<1>9. QED  BY <1>6, <1>7, <1>8

\* The scores up to k are as many as there are such reviews; all of them as many
\* as all.
LEMMA ScoresUpto ==
    ASSUME NEW rows, IsFiniteSet(rows), \A r \in rows : r.score \in 1 .. 5, NEW k \in 1 .. 5,
           NEW scores, scores = Counts(rows, ScoreKey(rows), Keys(rows, ScoreKey(rows)))
    PROVE  /\ Sum(Restrict(scores, {s \in DOMAIN scores : s =< k})) = Cardinality(Upto(rows, k))
           /\ Sum(scores) = Cardinality(rows)
<1> DEFINE K == Keys(rows, ScoreKey(rows))
<1>1. IsFiniteSet(K)  BY ImageFinite DEF Keys
<1>2. \A r \in rows : ScoreKey(rows)[r] = r.score /\ r.score \in K  BY DEF Keys, ScoreKey
<1>3. DOMAIN scores = K  BY DEF Counts
<1>4. \A s \in K : s \in 1 .. 5  BY DEF Keys, ScoreKey
<1> HIDE DEF K
<1>5. Sum(scores) = Cardinality(rows)
  <2>1. \A r \in rows : ScoreKey(rows)[r] \in K  BY <1>2
  <2>2. SumOver(Counts(rows, ScoreKey(rows), K), K) = Cardinality(rows)  BY <1>1, <2>1, CountOfGroups
  <2>3. Sum(scores) = SumOver(scores, K)  BY <1>3, SumIs
  <2>4. QED  BY <2>2, <2>3 DEF K
<1>6. PICK low : low = Upto(rows, k)  OBVIOUS
<1>7. PICK M : M = {s \in K : s =< k}  OBVIOUS
<1>8. PICK key : key = ScoreKey(low)  OBVIOUS
<1>9. Restrict(scores, M) = Counts(low, key, M)
  <2>1. \A s \in M : scores[s] = Cardinality(Fibre(rows, ScoreKey(rows), s))
    BY <1>7 DEF Counts, K
  <2>2. ASSUME NEW s \in M PROVE Fibre(rows, ScoreKey(rows), s) = Fibre(low, key, s)
    BY <1>2, <1>4, <1>6, <1>7, <1>8 DEF Fibre, ScoreKey, Upto
  <2>3. \A s \in M : scores[s] = Cardinality(Fibre(low, key, s))  BY <2>1, <2>2
  <2>4. QED  BY <2>3 DEF Restrict, Counts
<1>10. IsFiniteSet(low)
  <2>1. low \in SUBSET rows  BY <1>6 DEF Upto
  <2>2. QED  BY <2>1, PartOf
<1>11. IsFiniteSet(M)
  <2>1. M \in SUBSET K  BY <1>7
  <2>2. QED  BY <1>1, <2>1, PartOf
<1>12. \A r \in low : key[r] \in M  BY <1>2, <1>6, <1>7, <1>8 DEF ScoreKey, Upto
<1>13. SumOver(Counts(low, key, M), M) = Cardinality(low)  BY <1>10, <1>11, <1>12, CountOfGroups
<1>14. Sum(Counts(low, key, M)) = SumOver(Counts(low, key, M), M)
  <2>1. DOMAIN Counts(low, key, M) = M  BY DEF Counts
  <2>2. QED  BY <2>1, SumIs
<1>15. QED  BY <1>3, <1>5, <1>6, <1>7, <1>9, <1>13, <1>14

ProductOf == [x \in Pairs |-> x[1].product]
LabelOf == [x \in Pairs |-> Label(x[1].product)]

\* The rankings of the products and the breakdown by category are ratings of all
\* pairs.
LEMMA RatingsAre ==
    ASSUME Data, NEW g, g = Ratings(Pairs, ProductOf)
    PROVE  /\ AverageRatingByCategory = Ratings(Pairs, LabelOf)
           /\ \A limit \in {1, 25} :
                /\ AverageRatingByProduct(None, limit) = Best(g, limit, Better)
                /\ ProductsByRating(None, limit, 1, "best") = Best(g, limit, Higher)
<1>1. /\ {x[1].product : x \in Pairs} = Keys(Pairs, ProductOf)
      /\ \A k : {x \in Pairs : x[1].product = k} = Fibre(Pairs, ProductOf, k)
  BY DEF Keys, Fibre, ProductOf
<1>2. /\ {Label(x[1].product) : x \in Pairs} = Keys(Pairs, LabelOf)
      /\ \A k : {x \in Pairs : Label(x[1].product) = k} = Fibre(Pairs, LabelOf, k)
  BY DEF Keys, Fibre, LabelOf
<1>3. AverageRatingByCategory = Ratings(Pairs, LabelOf)
  <2>1. AverageRatingByCategory = [k \in {Label(x[1].product) : x \in Pairs} |->
                                       Rating({x \in Pairs : Label(x[1].product) = k})]
    BY DEF AverageRatingByCategory, Group, Pairs
  <2>2. QED  BY <1>2, <2>1 DEF Ratings
<1>4. [k \in {x[1].product : x \in Pairs} |-> Rating({x \in Pairs : x[1].product = k})] = g
  BY <1>1 DEF Ratings
<1>5. /\ \A limit \in {1, 25} : Clamp(limit, 1, 25) = limit /\ Top(limit) = limit
      /\ Clamp(1, 1, 100) = 1
  <2>1. 25 \in Nat /\ {1, 25} \subseteq 1 .. 25 /\ 100 \in Nat /\ 1 \in 1 .. 100  OBVIOUS
  <2>2. (\A limit \in {1, 25} : Clamp(limit, 1, 25) = limit) /\ Clamp(1, 1, 100) = 1  BY <2>1, ClampIs
  <2>3. QED  BY <2>2 DEF Top
<1>6. Of(Spaced(None), items) = items /\ Of(AsTyped(None), items) = items  BY DEF Of, Spaced, AsTyped
<1>7. ASSUME NEW limit \in {1, 25} PROVE AverageRatingByProduct(None, limit) = Best(g, limit, Better)
  BY <1>4, <1>5, <1>6 DEF AverageRatingByProduct, Group, Pairs
<1>8. {p \in DOMAIN g : g[p][2] >= 1} = DOMAIN g
  <2>1. \A p \in DOMAIN g : g[p][2] \in Nat \ {0}  BY RatedGroups
  <2>2. QED  BY <2>1
<1>9. Restrict(g, DOMAIN g) = g  BY DEF Restrict, Ratings
<1>10. ASSUME NEW limit \in {1, 25}
       PROVE  ProductsByRating(None, limit, 1, "best") = Best(g, limit, Higher)
  <2> DEFINE rated == [k \in {x[1].product : x \in Reviewed(Of(AsTyped(None), items))} |->
                          Rating({x \in Reviewed(Of(AsTyped(None), items)) : x[1].product = k})]
             Enough(h) == Restrict(h, {p \in DOMAIN h : h[p][2] >= Clamp(1, 1, 100)})
             Bests(h, n) == {Restrict(h, kept) : kept \in
                {K \in kSubset(Min({n, Cardinality(DOMAIN h)}), DOMAIN h) :
                    \A k \in K, j \in DOMAIN h \ K : ~Higher(h[j], h[k])}}
  <2>1. ProductsByRating(None, limit, 1, "best") = Bests(Enough(rated), Top(limit))
    BY DEF ProductsByRating, Group, Best
  <2>2. rated = g  BY <1>4, <1>6 DEF Pairs
  <2>3. Bests(g, limit) = Best(g, limit, Higher)  BY DEF Best
  <2> HIDE DEF rated, Bests
  <2>4. Enough(g) = g  BY <1>5, <1>8, <1>9
  <2> HIDE DEF Enough
  <2>5. QED  BY <1>5, <2>1, <2>2, <2>3, <2>4
<1>11. QED  BY <1>3, <1>7, <1>10

LEMMA Quotient ==
    ASSUME NEW p \in Int, NEW q \in Int, q > 0, NEW m \in Int, m = p \div q
    PROVE  q * m =< p /\ p < q * m + q
BY Z3

\* Averages of which one is not rounded higher than the other are less than a
\* hundredth apart, or the other is the higher one.
LEMMA RoundedClose ==
    ASSUME NEW a, NEW b, a[1] \in Nat, a[2] \in Nat \ {0}, b[1] \in Nat, b[2] \in Nat \ {0},
           ~ Better(a, b)
    PROVE  Close(a, b)
<1>1. PICK x \in Nat, c \in Nat, y \in Nat, d \in Nat :
           x = a[1] /\ c = a[2] /\ y = b[1] /\ d = b[2] /\ c > 0 /\ d > 0
  OBVIOUS
<1>2. PICK m \in Int, n \in Int : m = (200 * x + c) \div (2 * c) /\ n = (200 * y + d) \div (2 * d)
  BY <1>1
<1>3. m = Rounded(a) /\ n = Rounded(b)  BY <1>1, <1>2 DEF Rounded
<1>4. m =< n  BY <1>3 DEF Better
<1>5. 200 * x + c < (2 * c) * m + 2 * c /\ (2 * d) * n =< 200 * y + d
  <2>1. PICK p \in Int, q \in Int, u \in Int, v \in Int :
             p = 200 * x + c /\ q = 2 * c /\ u = 200 * y + d /\ v = 2 * d
    OBVIOUS
  <2>2. m = p \div q /\ q > 0 /\ n = u \div v /\ v > 0  BY <1>1, <1>2, <2>1
  <2>3. p < q * m + q /\ v * n =< u  BY <2>2, Quotient
  <2>4. QED  BY <2>1, <2>3
<1>6. PICK cd \in Int, cm \in Int, dn \in Int, xd \in Int, yc \in Int :
           cd = c * d /\ cm = c * m /\ dn = d * n /\ xd = x * d /\ yc = y * c
  OBVIOUS
<1>13. PICK cdm \in Int, cdn \in Int : cdm = cd * m /\ cdn = cd * n  OBVIOUS
<1>7. 200 * x < 2 * cm + c /\ 2 * dn - d =< 200 * y  BY <1>1, <1>2, <1>5, <1>6
<1>8. d * (200 * x) < d * (2 * cm + c) /\ c * (2 * dn - d) =< c * (200 * y)
  BY <1>1, <1>7
<1>9. 200 * xd < 2 * cdm + cd /\ 2 * cdn - cd =< 200 * yc
  <2>1. d * (200 * x) = 200 * xd /\ c * (200 * y) = 200 * yc  BY <1>6
  <2>2. d * (2 * cm + c) = 2 * cdm + cd /\ c * (2 * dn - d) = 2 * cdn - cd  BY <1>6, <1>13
  <2>3. QED  BY <1>8, <2>1, <2>2
<1>10. cdm =< cdn
  <2>1. cd \in Nat  BY <1>1, <1>6
  <2>2. QED  BY <1>4, <1>13, <2>1
<1>11. 100 * (xd - yc) < cd  BY <1>9, <1>10
<1>12. QED  BY <1>1, <1>6, <1>11 DEF Close

\* The reviews counted by score, by month, by product and by category are the
\* same reviews, as often as each was asked to be counted.  The rankings of
\* products by rounded and by exact average differ only in products whose
\* averages are less than a hundredth apart.
THEOREM RatingsAlike == Spec => []RatingsAddUp
<1>1. Data => RatingsAddUp
  <2> SUFFICES ASSUME Data PROVE RatingsAddUp  OBVIOUS
  <2>1. ASSUME NEW date \in DatesAsked, ReviewScoreDistribution(date, None, None) # Error
        PROVE  LET scores == ReviewScoreDistribution(date, None, None)
                   trend == ReviewSentimentTrend(date, "month")
               IN /\ \A k \in 1 .. 5 : CountLowReviews(k, None, date) =
                            Sum(Restrict(scores, {s \in DOMAIN scores : s =< k}))
                  /\ Sum(scores) = Sum([m \in DOMAIN trend |-> trend[m][2]])
    <3>1. KnownDate(date)  BY <2>1 DEF ReviewScoreDistribution
    <3>2. PICK rows : rows = Dated(date)  OBVIOUS
    <3>3. IsFiniteSet(rows) /\ \A r \in rows : r.score \in 1 .. 5
      <4>1. IsFiniteSet(reviews) /\ rows \in SUBSET reviews  BY <3>2 DEF Data, Dated
      <4>2. IsFiniteSet(rows)  BY <4>1, PartOf
      <4>3. \A r \in rows : r \in ReviewRows  BY <4>1 DEF Data, ReviewOk
      <4>4. QED  BY <4>2, <4>3 DEF ReviewRows
    <3>4. PICK scores : scores = ReviewScoreDistribution(date, None, None)  OBVIOUS
    <3>5. scores = Counts(rows, ScoreKey(rows), Keys(rows, ScoreKey(rows)))
      BY <3>1, <3>2, <3>4, DatedReviews
    <3>6. \A k \in 1 .. 5 : CountLowReviews(k, None, date) = Cardinality(Upto(rows, k))
      BY <3>1, <3>2, DatedReviews
    <3>7. LET trend == ReviewSentimentTrend(date, "month")
          IN Sum([m \in DOMAIN trend |-> trend[m][2]]) = Cardinality(rows)
      BY <3>1, <3>2, DatedReviews
    <3>8. \A k \in 1 .. 5 : Sum(Restrict(scores, {s \in DOMAIN scores : s =< k})) = Cardinality(Upto(rows, k))
      BY <3>3, <3>5, ScoresUpto
    <3>9. Sum(scores) = Cardinality(rows)
      <4>1. 1 \in 1 .. 5  OBVIOUS
      <4>2. QED  BY <3>3, <3>5, <4>1, ScoresUpto
    <3>10. QED  BY <3>4, <3>6, <3>7, <3>8, <3>9
  <2>2. PICK g : g = Ratings(Pairs, ProductOf)  OBVIOUS
  <2>3. PICK c : c = Ratings(Pairs, LabelOf)  OBVIOUS
  <2>4. AverageRatingByCategory = c
    BY <2>2, <2>3, RatingsAre
  <2>5. \A limit \in {1, 25} : /\ AverageRatingByProduct(None, limit) = Best(g, limit, Better)
                              /\ ProductsByRating(None, limit, 1, "best") = Best(g, limit, Higher)
    BY <2>2, RatingsAre
  <2>6. /\ IsFiniteSet(DOMAIN g)
        /\ \A k \in DOMAIN g : g[k][1] \in Nat /\ g[k][2] \in Nat \ {0}
        /\ Sum([k \in DOMAIN g |-> g[k][1]]) = SumOver(Scores, Pairs)
        /\ Sum([k \in DOMAIN g |-> g[k][2]]) = Cardinality(Pairs)
    BY <2>2, RatedGroups
  <2>7. /\ Sum([k \in DOMAIN c |-> c[k][1]]) = SumOver(Scores, Pairs)
        /\ Sum([k \in DOMAIN c |-> c[k][2]]) = Cardinality(Pairs)
    BY <2>3, RatedGroups
  <2>8. ASSUME NEW limit \in {1, 25}, NEW products \in AverageRatingByProduct(None, limit)
        PROVE  /\ \A best \in ProductsByRating(None, limit, 1, "best") :
                    \A p \in DOMAIN best \ DOMAIN products, q \in DOMAIN products \ DOMAIN best :
                        Close(best[p], products[q])
               /\ \A k \in 1 .. 2 : AddsUp({[p \in DOMAIN products |-> products[p][k]]}, limit,
                                           Sum([l \in DOMAIN c |-> c[l][k]]))
    <3>0. products \in Best(g, limit, Better)  BY <2>5
    <3>1. PICK kept \in kSubset(Min({limit, Cardinality(DOMAIN g)}), DOMAIN g) :
             /\ products = Restrict(g, kept)
             /\ \A k \in kept, j \in DOMAIN g \ kept : ~Better(g[j], g[k])
      BY <3>0 DEF Best
    <3>3. kept \in SUBSET DOMAIN g  BY DEF kSubset
    <3>2. ASSUME NEW best \in ProductsByRating(None, limit, 1, "best"),
                 NEW p \in DOMAIN best \ DOMAIN products, NEW q \in DOMAIN products \ DOMAIN best
          PROVE  Close(best[p], products[q])
      <4>1. PICK others \in SUBSET DOMAIN g : best = Restrict(g, others)  BY <2>5 DEF Best, kSubset
      <4>2. /\ DOMAIN best = others /\ DOMAIN products = kept
            /\ best[p] = g[p] /\ products[q] = g[q]
        BY <3>1, <4>1 DEF Restrict
      <4>3. p \in DOMAIN g \ kept /\ q \in kept  BY <3>3, <4>1, <4>2
      <4>4. ~Better(g[p], g[q])  BY <3>1, <4>3
      <4>5. QED  BY <2>6, <3>3, <4>2, <4>3, <4>4, RoundedClose
    <3>4. ASSUME NEW k \in 1 .. 2
          PROVE  AddsUp({[p \in DOMAIN products |-> products[p][k]]}, limit, Sum([l \in DOMAIN c |-> c[l][k]]))
      <4>1. PICK f : f = [p \in DOMAIN g |-> g[p][k]]  OBVIOUS
      <4>2. PICK best : best = [p \in DOMAIN products |-> products[p][k]]  OBVIOUS
      <4>3. best = Restrict(f, kept)  BY <3>1, <3>3, <4>1, <4>2 DEF Restrict
      <4>4. DOMAIN f = DOMAIN g /\ IsFiniteSet(DOMAIN f) /\ \A p \in DOMAIN f : f[p] \in Nat
        BY <2>6, <4>1
      <4>5. kept \in kSubset(Min({limit, Cardinality(DOMAIN f)}), DOMAIN f)  BY <4>4
      <4>6. limit \in Nat  OBVIOUS
      <4>7. AddsUp({best}, limit, Sum(f))  BY <4>3, <4>4, <4>5, <4>6, KeptAddsUp
      <4>8. Sum(f) = Sum([l \in DOMAIN c |-> c[l][k]])  BY <2>6, <2>7, <4>1
      <4>9. QED  BY <4>2, <4>7, <4>8
    <3>5. QED  BY <3>2, <3>4
  <2>9. QED  BY <2>1, <2>4, <2>8 DEF RatingsAddUp
<1>2. QED  BY <1>1, DataKept, PTL

(***************************************************************************)
(* Sellers.                                                                *)
(***************************************************************************)
\* Who has a row of his own is in a ranking of 25, unless 25 others are.
LEMMA KeptSays ==
    ASSUME NEW g, IsFiniteSet(DOMAIN g), NEW s \in DOMAIN g, NEW value, g[s] = value,
           NEW kept \in kSubset(Min({25, Cardinality(DOMAIN g)}), DOMAIN g), NEW best, best = Restrict(g, kept)
    PROVE  Says(best, s, value)
<1> PICK K : K = DOMAIN g  OBVIOUS
<1>1. kept \in SUBSET DOMAIN g /\ Cardinality(kept) = Min({25, Cardinality(DOMAIN g)})  BY DEF kSubset
<1>2. DOMAIN best = kept /\ \A k \in kept : best[k] = g[k]  BY DEF Restrict
<1>3. PICK c \in Nat : c = Cardinality(DOMAIN g)  BY FS_CardinalityType
<1>4. Min({25, c}) = IF 25 =< c THEN 25 ELSE c
  <2>1. 25 \in Int /\ c \in Int  OBVIOUS
  <2>2. QED  BY <2>1, MinMax
<1>5. ASSUME s \notin kept PROVE Cardinality(kept) >= 25
  <2>1. Cardinality(kept) # c  BY <1>1, <1>3, <1>5, FS_Subset
  <2>2. QED  BY <1>1, <1>3, <1>4, <2>1
<1>6. QED  BY <1>2, <1>5 DEF Says

\* The left join keeps every row, and its pairs with a review are the inner join.
LEMMA JoinedRows ==
    ASSUME Data, NEW rows
    PROVE  /\ {x[1] : x \in LeftReviewed(rows)} = rows
           /\ {x \in LeftReviewed(rows) : x[2] # None} = Reviewed(rows)
           /\ {x \in Reviewed(rows) : x[2] # None} = Reviewed(rows)
<1>1. \A r \in reviews : r # None  BY Distinct DEF Data, ReviewOk
<1>2. PICK alone : alone = {y \in rows : \A r \in reviews : r.order # y.order}  OBVIOUS
<1>3. LeftReviewed(rows) = Reviewed(rows) \cup {<<x, None>> : x \in alone}  BY <1>2 DEF LeftReviewed
<1>4. \A x \in Reviewed(rows) : x[1] \in rows /\ x[2] # None  BY <1>1 DEF Reviewed
<1>5. {x \in LeftReviewed(rows) : x[2] # None} = Reviewed(rows)
  <2>1. \A x \in {<<y, None>> : y \in alone} : x[2] = None  OBVIOUS
  <2>2. QED  BY <1>3, <1>4, <2>1
<1>6. {x \in Reviewed(rows) : x[2] # None} = Reviewed(rows)  BY <1>4
<1>7. {x[1] : x \in LeftReviewed(rows)} = rows
  <2>1. \A x \in LeftReviewed(rows) : x[1] \in rows  BY <1>2, <1>3, <1>4
  <2>2. ASSUME NEW i \in rows PROVE \E x \in LeftReviewed(rows) : x[1] = i
    <3>1. CASE i \in alone
      <4>1. <<i, None>> \in LeftReviewed(rows)  BY <1>3, <3>1
      <4>2. QED  BY <4>1
    <3>2. CASE i \notin alone
      <4>1. PICK r \in reviews : r.order = i.order  BY <1>2, <3>2
      <4>2. <<i, r>> \in Reviewed(rows)  BY <4>1 DEF Reviewed
      <4>3. QED  BY <1>3, <4>2
    <3>3. QED  BY <3>1, <3>2
  <2>3. QED  BY <2>1, <2>2
<1>8. QED  BY <1>5, <1>6, <1>7

\* A comparison of one name compares it.
LEMMA ComparedOne ==
    ASSUME NEW name, name # None, {name} # Error
    PROVE  ComparedList(<<name>>) = {name} /\ ComparedList(<<name>>) # Error
<1>1. DOMAIN <<name>> = {1} /\ <<name>>[1] = name  OBVIOUS
<1>2. {n \in DOMAIN <<name>> : <<name>>[n] # None} = {1}  BY <1>1
<1>3. Cardinality({1}) = 1  BY FS_Singleton
<1>4. {<<name>>[n] : n \in {1}} = {name}  BY <1>1
<1>5. QED  BY <1>2, <1>3, <1>4 DEF ComparedList

\* The rows of one seller, and what the comparison makes of them.
LEMMA SoldRows ==
    ASSUME Data, NEW sel, NEW s \in DOMAIN Sellers, NEW sold, sold = From_(s, ItemsOf(sel))
    PROVE  /\ s # None /\ Valued(sold)
           /\ sold = {i \in ItemsOf(sel) : i.seller = s}
           /\ Orders(sold) > 0 <=> sold # {}
           /\ Reviewed(sold) \in SUBSET Pairs
           /\ {x \in LeftReviewed(sold) : x[2] # None} = Reviewed(sold)
           /\ {x \in Reviewed(sold) : x[2] # None} = Reviewed(sold)
           /\ {x[1] : x \in LeftReviewed(sold)} = sold
<1>1. s # None  BY DataSet
<1>2. sold = {i \in ItemsOf(sel) : i.seller = s}  BY <1>1 DEF From_
<1>3. Valued(ItemsOf(sel))  BY RowsValued
<1>4. sold \in SUBSET ItemsOf(sel) /\ ItemsOf(sel) \in SUBSET items  BY <1>2 DEF ItemsOf
<1>5. Valued(sold)
  <2>1. IsFiniteSet(sold)  BY <1>3, <1>4, PartOf DEF Valued
  <2>2. QED  BY <1>3, <1>4, <2>1 DEF Valued
<1>6. Orders(sold) > 0 <=> sold # {}
  <2> DEFINE f == [i \in sold |-> i.order]
             T == {f[i] : i \in sold}
  <2>0. IsFiniteSet(sold)  BY <1>5 DEF Valued
  <2>1. IsFiniteSet(T)
    <3> HIDE DEF f
    <3>1. QED  BY <2>0, ImageFinite
  <2>2. T = {i.order : i \in sold}  OBVIOUS
  <2>3. T = {} <=> sold = {}  OBVIOUS
  <2> HIDE DEF T
  <2>4. Cardinality(T) \in Nat /\ (Cardinality(T) = 0 <=> T = {})
    BY <2>1, FS_CardinalityType, FS_EmptySet
  <2>5. Orders(sold) = Cardinality(T)  BY <2>2 DEF Orders
  <2>6. QED  BY <2>3, <2>4, <2>5
<1>7. Reviewed(sold) \in SUBSET Pairs  BY <1>4 DEF Reviewed, Pairs
<1>8. QED  BY <1>1, <1>2, <1>5, <1>6, <1>7, JoinedRows

\* While no order has a second review, joining the reviews repeats no row.
LEMMA RevenueOnce ==
    ASSUME Data, NEW sold, Valued(sold), {x[1] : x \in LeftReviewed(sold)} = sold, OneReviewEach
    PROVE  Sum([x \in LeftReviewed(sold) |-> x[1].value]) = Total(sold)
<1> DEFINE f == [x \in LeftReviewed(sold) |-> x[1].value]
           key == [x \in LeftReviewed(sold) |-> x[1]]
           value == [i \in sold |-> i.value]
<1>1. PICK pairs : pairs = LeftReviewed(sold)  OBVIOUS
<1>2. IsFiniteSet(sold) /\ \A i \in sold : value[i] \in Nat  BY DEF Valued
<1>3. IsFiniteSet(pairs)
  <2>1. IsFiniteSet(reviews)  BY DEF Data
  <2>2. IsFiniteSet(reviews \cup {None})  BY <2>1, FS_AddElement
  <2>3. IsFiniteSet(sold \X (reviews \cup {None}))  BY <1>2, <2>2, FS_Product
  <2>4. pairs \in SUBSET (sold \X (reviews \cup {None}))  BY <1>1 DEF LeftReviewed, Reviewed
  <2>5. QED  BY <2>3, <2>4, PartOf
<1>4. \A x \in pairs : x[1] \in sold /\ key[x] = x[1] /\ f[x] = x[1].value /\ f[x] \in Nat
  BY <1>1 DEF Valued
<1>5. \A x, y \in pairs : x[1] = y[1] => x = y
  <2>1. \A x \in pairs : \/ /\ x \in sold \X reviews /\ x[1].order = x[2].order
                         \/ /\ x = <<x[1], None>>
                            /\ \A r \in reviews : r.order # x[1].order
    BY <1>1 DEF LeftReviewed, Reviewed
  <2> SUFFICES ASSUME NEW x \in pairs, NEW y \in pairs, x[1] = y[1] PROVE x = y  OBVIOUS
  <2>2. CASE x \in sold \X reviews /\ x[1].order = x[2].order
    <3>1. y \in sold \X reviews /\ y[1].order = y[2].order  BY <2>1, <2>2
    <3>2. x[2] = y[2]  BY <2>2, <3>1 DEF OneReviewEach
    <3>3. QED  BY <2>2, <3>1, <3>2
  <2>3. CASE x = <<x[1], None>> /\ \A r \in reviews : r.order # x[1].order
    <3>1. y = <<y[1], None>>  BY <2>1, <2>3
    <3>2. QED  BY <2>3, <3>1
  <2>4. QED  BY <2>1, <2>2, <2>3
<1>6. value = [i \in sold |-> value[i]]  OBVIOUS
<1>7. DOMAIN f = pairs  BY <1>1
<1>8. \A i \in sold : value[i] = i.value /\ value[i] \in Int  BY <1>2
<1> HIDE DEF f, key, value
<1>9. Fibres(f, pairs, key, sold) = value
  <2>1. ASSUME NEW i \in sold PROVE SumOver(f, Fibre(pairs, key, i)) = value[i]
    <3>1. PICK x \in pairs : x[1] = i  BY <1>1
    <3>2. Fibre(pairs, key, i) = {x}  BY <1>4, <1>5, <3>1 DEF Fibre
    <3>3. f[x] \in Int /\ f[x] = value[i]  BY <1>4, <1>8, <3>1
    <3>4. IsFiniteSet({x})  BY FS_Singleton
    <3>5. SumOver(f, {x}) = f[x] + SumOver(f, {x} \ {x})  BY <3>3, <3>4, SumRemove
    <3>6. {x} \ {x} = {}  OBVIOUS
    <3>7. SumOver(f, {x} \ {x}) = 0
      <4>1. SumOver(f, {}) = 0  BY FS_EmptySet, SumParts
      <4>2. QED  BY <3>6, <4>1
    <3>8. SumOver(f, {x}) = value[i]
      <4>1. PICK v \in Int : v = f[x]  BY <3>3
      <4>2. QED  BY <3>3, <3>5, <3>7, <4>1
    <3>9. QED  BY <3>2, <3>8
  <2>2. QED  BY <1>6, <2>1 DEF Fibres
<1>10. SumOver(Fibres(f, pairs, key, sold), sold) = SumOver(f, pairs)
  <2>1. \A x \in pairs : f[x] \in Int /\ key[x] \in sold  BY <1>4
  <2>2. QED  BY <1>2, <1>3, <2>1, SumOfGroups
<1>11. Total(sold) = SumOver(value, sold)  BY <1>2, <1>8, TotalIs
<1>12. Sum(f) = SumOver(f, pairs)  BY <1>7, SumIs
<1>13. QED  BY <1>9, <1>10, <1>11, <1>12 DEF f

\* A comparison of one seller tells of it when it sold something, and then the
\* facts of its rows.
LEMMA ComparedIs ==
    ASSUME Data, NEW date, NEW s \in DOMAIN Sellers, NEW sel, sel = All(date), sel # Error,
           NEW sold, sold = From_(s, ItemsOf(sel))
    PROVE  LET compared == SellerComparison(<<s>>, date)
           IN /\ s \in DOMAIN compared <=> sold # {}
              /\ sold # {} => compared[s] = Facts(LeftReviewed(sold))
<1>1. s # None /\ sold = {i \in ItemsOf(sel) : i.seller = s} /\ {x[1] : x \in LeftReviewed(sold)} = sold
  BY SoldRows
<1>2. {s} # Error  BY Distinct
<1>3. ComparedList(<<s>>) = {s}  BY <1>1, <1>2, ComparedOne
<1>4. {i \in ItemsOf(sel) : i.seller \in {s}} = sold  BY <1>1
<1>5. PICK pairs : pairs = LeftReviewed(sold)  OBVIOUS
<1>6. SellerComparison(<<s>>, date)
        = [k \in {x[1].seller : x \in pairs} |-> Facts({x \in pairs : x[1].seller = k})]
  BY <1>2, <1>3, <1>4, <1>5 DEF SellerComparison, Answer, Group
<1>7. \A x \in pairs : x[1] \in sold /\ x[1].seller = s  BY <1>1, <1>5
<1>8. s \in {x[1].seller : x \in pairs} <=> sold # {}  BY <1>1, <1>5, <1>7
<1>9. {x \in pairs : x[1].seller = s} = pairs  BY <1>7
<1>10. QED  BY <1>5, <1>6, <1>8, <1>9

\* Rankings of sellers say of each what its rows come to.
LEMMA RankedAs ==
    ASSUME Data, NEW date, NEW s \in DOMAIN Sellers, NEW sel, sel = All(date), sel # Error,
           NEW sold, sold = From_(s, ItemsOf(sel)), sold # {}
    PROVE  /\ \A best \in RevenueBySeller(date, Sellers[s].state, 25) : Says(best, s, Total(sold))
           /\ \A best \in TopSellers(date, Sellers[s].state, 25, "revenue") : Says(best, s, Total(sold))
           /\ \A best \in TopSellers(date, None, 25, "orders") : Says(best, s, Orders(sold))
<1>1. sold = {i \in ItemsOf(sel) : i.seller = s}  BY SoldRows
<1>2. PICK its : its = ItemsOf(sel)  OBVIOUS
<1>3. PICK rows : rows = InSellerState(Sellers[s].state, its)  OBVIOUS
<1>4. IsFiniteSet(its) /\ rows \in SUBSET its
  <2>1. IsFiniteSet(its)  BY <1>2, RowsValued DEF Valued
  <2>2. QED  BY <1>3, <2>1 DEF InSellerState
<1>5. IsFiniteSet(rows)  BY <1>4, PartOf
<1>6. {i \in rows : i.seller = s} = sold /\ {i \in its : i.seller = s} = sold
  BY <1>1, <1>2, <1>3 DEF InSellerState, SellerState
<1>7. Top(25) = 25
  <2>1. 25 \in Nat /\ 25 \in 1 .. 25  OBVIOUS
  <2>2. QED  BY <2>1, ClampIs DEF Top
<1> DEFINE g == [k \in {i.seller : i \in rows} |-> Total({i \in rows : i.seller = k})]
           h == [k \in {i.seller : i \in its} |-> Orders({i \in its : i.seller = k})]
<1>8. /\ RevenueBySeller(date, Sellers[s].state, 25) = Best(g, 25, More)
      /\ TopSellers(date, Sellers[s].state, 25, "revenue") = Best(g, 25, More)
      /\ TopSellers(date, None, 25, "orders") = Best(h, 25, More)
  <2>1. InSellerState(None, its) = its  BY DEF InSellerState
  <2>2. RevenueBySeller(date, Sellers[s].state, 25) = Best(g, 25, More)
    BY <1>2, <1>3, <1>7 DEF RevenueBySeller, Answer, Ranking, Group, Measure
  <2>3. TopSellers(date, Sellers[s].state, 25, "revenue") = Best(g, 25, More)
    BY <1>2, <1>3, <1>7 DEF TopSellers, Answer, Ranking, Group, Measure
  <2>4. TopSellers(date, None, 25, "orders") = Best(h, 25, More)
    BY <1>2, <1>7, <2>1 DEF TopSellers, Answer, Ranking, Group, Measure
  <2>5. QED  BY <2>2, <2>3, <2>4
<1>9. /\ DOMAIN g = Keys(rows, SellerKey(rows)) /\ DOMAIN h = Keys(its, SellerKey(its))
  BY DEF Keys, SellerKey
<1>10. IsFiniteSet(DOMAIN g) /\ IsFiniteSet(DOMAIN h)
  <2>1. IsFiniteSet(Keys(rows, SellerKey(rows))) /\ IsFiniteSet(Keys(its, SellerKey(its)))
    BY <1>4, <1>5, ImageFinite DEF Keys
  <2> HIDE DEF g, h
  <2>2. QED  BY <1>9, <2>1
<1>11. s \in DOMAIN g /\ g[s] = Total(sold) /\ s \in DOMAIN h /\ h[s] = Orders(sold)
  <2>1. s \in {i.seller : i \in rows} /\ s \in {i.seller : i \in its}  BY <1>6
  <2>2. QED  BY <1>6, <2>1
<1> HIDE DEF g, h
<1>12. \A best \in Best(g, 25, More) : Says(best, s, Total(sold))
  BY <1>10, <1>11, KeptSays DEF Best
<1>13. \A best \in Best(h, 25, More) : Says(best, s, Orders(sold))
  BY <1>10, <1>11, KeptSays DEF Best
<1>14. QED  BY <1>8, <1>12, <1>13

\* The ranking by rating says of a seller what its reviewed rows come to.
LEMMA RatedAs ==
    ASSUME Data, NEW s \in DOMAIN Sellers, NEW sold, sold = From_(s, items), Reviewed(sold) # {}
    PROVE  \A best \in AverageRatingBySeller(None, 25) : Says(best, s, Rating(Reviewed(sold)))
<1>1. s # None  BY DataSet
<1>2. PICK key : key = [x \in Pairs |-> x[1].seller]  OBVIOUS
<1>3. PICK g : g = Ratings(Pairs, key)  OBVIOUS
<1>4. /\ {x[1].seller : x \in Pairs} = Keys(Pairs, key)
      /\ \A k : {x \in Pairs : x[1].seller = k} = Fibre(Pairs, key, k)
  BY <1>2 DEF Keys, Fibre
<1>5. [k \in {x[1].seller : x \in Pairs} |-> Rating({x \in Pairs : x[1].seller = k})] = g
  BY <1>3, <1>4 DEF Ratings
<1>6. {i \in items : None # None => Sellers[i.seller].state = None} = items  OBVIOUS
<1>7. Clamp(25, 1, 25) = 25
  <2>1. 25 \in Nat /\ 25 \in 1 .. 25  OBVIOUS
  <2>2. QED  BY <2>1, ClampIs
<1>8. AverageRatingBySeller(None, 25) = Best(g, 25, Better)
  BY <1>5, <1>6, <1>7 DEF AverageRatingBySeller, Group, Pairs
<1>9. {x \in Pairs : x[1].seller = s} = Reviewed(sold)  BY <1>1 DEF Pairs, Reviewed, From_
<1>10. s \in DOMAIN g /\ g[s] = Rating(Reviewed(sold))
  <2>1. s \in {x[1].seller : x \in Pairs}  BY <1>9
  <2>2. QED  BY <1>5, <1>9, <2>1
<1>11. IsFiniteSet(DOMAIN g)  BY <1>3, RatedGroups
<1>12. \A best \in Best(g, 25, Better) : Says(best, s, Rating(Reviewed(sold)))
  BY <1>10, <1>11, KeptSays DEF Best
<1>13. QED  BY <1>8, <1>12

\* All that is said of a seller is one story: the ranking, the breakdown, the
\* metrics, the comparison and the lookup count the same orders and the same
\* reviews, and the revenue of the comparison and of the lookup is that of the
\* others while no order has a second review.
THEOREM SellersAlike == Spec => []SellerToolsAgree
<1>1. Data => SellerToolsAgree
  <2> SUFFICES ASSUME Data, NEW date \in DatesAsked, NEW s \in DOMAIN Sellers,
                      SellerComparison(<<s>>, date) # Error
               PROVE  LET metrics == SellerMetrics(s, date)
                          compared == SellerComparison(<<s>>, date)
                      IN /\ metrics.orders > 0 <=> s \in DOMAIN compared
                         /\ s \in DOMAIN compared =>
                             /\ compared[s].orders = metrics.orders
                             /\ SameAverage(compared[s].rating, metrics.rating)
                             /\ OneReviewEach => compared[s].revenue = metrics.revenue
                             /\ \A best \in RevenueBySeller(date, Sellers[s].state, 25) :
                                    Says(best, s, metrics.revenue)
                             /\ \A best \in TopSellers(date, Sellers[s].state, 25, "revenue") :
                                    Says(best, s, metrics.revenue)
                             /\ \A best \in TopSellers(date, None, 25, "orders") : Says(best, s, metrics.orders)
                             /\ date = None => /\ SellerInfo(s).facts = compared[s]
                                               /\ SellerInfo(s).products = metrics.products
                         /\ date = None /\ metrics.rating # None =>
                             \A best \in AverageRatingBySeller(None, 25) : Says(best, s, metrics.rating)
    BY DEF SellerToolsAgree
  <2>1. PICK sel : sel = All(date)  OBVIOUS
  <2>2. sel # Error
    <3>1. All(date) = Error => SellerComparison(<<s>>, date) = Error  BY DEF SellerComparison, Answer
    <3>2. QED  BY <2>1, <3>1
  <2>3. PICK sold : sold = From_(s, ItemsOf(sel))  OBVIOUS
  <2>4. PICK pairs : pairs = LeftReviewed(sold)  OBVIOUS
  <2>5. /\ Valued(sold) /\ (Orders(sold) > 0 <=> sold # {})
        /\ {x \in pairs : x[2] # None} = Reviewed(sold)
        /\ {x \in Reviewed(sold) : x[2] # None} = Reviewed(sold)
        /\ {x[1] : x \in pairs} = sold
    BY <2>3, <2>4, SoldRows
  <2>6. PICK m : m = SellerMetrics(s, date)  OBVIOUS
  <2>7. /\ m.orders = Orders(sold) /\ m.revenue = Total(sold)
        /\ m.products = Cardinality({i.product : i \in sold})
        /\ m.rating = Rating(Reviewed(sold))
    BY <2>1, <2>2, <2>3, <2>6 DEF SellerMetrics, Answer
  <2>8. PICK compared : compared = SellerComparison(<<s>>, date)  OBVIOUS
  <2>9. /\ s \in DOMAIN compared <=> sold # {}
        /\ sold # {} => compared[s] = Facts(pairs)
    BY <2>1, <2>2, <2>3, <2>4, <2>8, ComparedIs
  <2>10. /\ Facts(pairs).orders = Orders(sold)
         /\ Facts(pairs).rating = Rating(pairs)
         /\ Facts(pairs).revenue = Sum([x \in pairs |-> x[1].value])
    BY <2>5 DEF Facts
  <2>11. Rating(pairs) = Rating(Reviewed(sold))
    BY <2>5 DEF Rating
  <2>12. \A a : SameAverage(a, a)  BY DEF SameAverage
  <2>13. ASSUME OneReviewEach
         PROVE  Facts(pairs).revenue = Total(sold)
    BY <2>4, <2>5, <2>10, <2>13, RevenueOnce
  <2>14. ASSUME date = None PROVE sold = From_(s, items)
    <3>1. sel = DOMAIN orders  BY <2>1, <2>14 DEF All, Placed, KnownDate, InWindow
    <3>2. ItemsOf(sel) = items  BY <3>1 DEF ItemsOf, Data, ItemOk
    <3>3. QED  BY <2>3, <3>2
  <2>15. ASSUME date = None
         PROVE  /\ SellerInfo(s).facts = Facts(pairs)
                /\ SellerInfo(s).products = Cardinality({i.product : i \in sold})
    BY <2>4, <2>14, <2>15 DEF SellerInfo
  <2>16. ASSUME sold # {}
         PROVE  /\ \A best \in RevenueBySeller(date, Sellers[s].state, 25) : Says(best, s, Total(sold))
                /\ \A best \in TopSellers(date, Sellers[s].state, 25, "revenue") : Says(best, s, Total(sold))
                /\ \A best \in TopSellers(date, None, 25, "orders") : Says(best, s, Orders(sold))
    BY <2>1, <2>2, <2>3, <2>16, RankedAs
  <2>17. ASSUME date = None, m.rating # None
         PROVE  \A best \in AverageRatingBySeller(None, 25) : Says(best, s, m.rating)
    <3>1. Reviewed(sold) # {}  BY <2>5, <2>7, <2>17 DEF Rating, Average
    <3>2. QED  BY <2>7, <2>14, <2>17, <3>1, RatedAs
  <2>18. QED
    BY <2>5, <2>6, <2>7, <2>8, <2>9, <2>10, <2>11, <2>12, <2>13, <2>15, <2>16, <2>17
<1>2. QED  BY <1>1, DataKept, PTL

(***************************************************************************)
(* Joined rows: what a comparison or a lookup makes of rows LEFT JOIN      *)
(* reviews, and orders LEFT JOIN payments.                                 *)
(***************************************************************************)
LEMMA SumZero ==
    ASSUME NEW S, IsFiniteSet(S), NEW f, \A x \in S : f[x] = 0
    PROVE  SumOver(f, S) = 0
<1> DEFINE F == [T \in SUBSET S |-> 0]
<1>1. \A T \in SUBSET S : \A x \in T : F[T] = f[x] + F[T \ {x}]  OBVIOUS
<1>2. F[{}] = 0 /\ F[S] = 0  OBVIOUS
<1> HIDE DEF F
<1>3. AddsEach(F, f, S)  BY <1>1, <1>2 DEF AddsEach
<1>4. \A x \in S : f[x] \in Int  OBVIOUS
<1>5. QED  BY <1>2, <1>3, <1>4, SumUnique

\* The facts told of rows are those of the rows, the revenue while no order has a
\* second review.
LEMMA FactsAre ==
    ASSUME Data, NEW rows, Valued(rows), NEW facts, facts = Facts(LeftReviewed(rows))
    PROVE  /\ facts.orders = Orders(rows)
           /\ facts.rating = Rating(Reviewed(rows))
           /\ OneReviewEach => facts.revenue = Total(rows)
<1>1. PICK pairs : pairs = LeftReviewed(rows)  OBVIOUS
<1>2. /\ {x[1] : x \in pairs} = rows /\ {x \in pairs : x[2] # None} = Reviewed(rows)
      /\ {x \in Reviewed(rows) : x[2] # None} = Reviewed(rows)
  BY <1>1, JoinedRows
<1>3. /\ facts.orders = Orders(rows) /\ facts.rating = Rating(pairs)
      /\ facts.revenue = Sum([x \in pairs |-> x[1].value])
  BY <1>1, <1>2 DEF Facts
<1>4. Rating(pairs) = Rating(Reviewed(rows))  BY <1>2 DEF Rating
<1>5. OneReviewEach => facts.revenue = Total(rows)  BY <1>1, <1>2, <1>3, RevenueOnce
<1>6. QED  BY <1>3, <1>4, <1>5

\* Grouping the joined rows is joining the groups.
LEMMA JoinedGroups ==
    ASSUME Data, NEW rows, NEW key
    PROVE  /\ {key[x[1]] : x \in LeftReviewed(rows)} = Keys(rows, key)
           /\ \A k : {x \in LeftReviewed(rows) : key[x[1]] = k} = LeftReviewed(Fibre(rows, key, k))
<1>1. {x[1] : x \in LeftReviewed(rows)} = rows  BY JoinedRows
<1>2. {key[x[1]] : x \in LeftReviewed(rows)} = Keys(rows, key)
  <2>1. PICK pairs : pairs = LeftReviewed(rows)  OBVIOUS
  <2>2. {key[x[1]] : x \in pairs} = {key[i] : i \in {x[1] : x \in pairs}}  OBVIOUS
  <2>3. QED  BY <1>1, <2>1, <2>2 DEF Keys
<1>3. ASSUME NEW k PROVE {x \in LeftReviewed(rows) : key[x[1]] = k} = LeftReviewed(Fibre(rows, key, k))
  <2>1. PICK alone : alone = {y \in rows : \A r \in reviews : r.order # y.order}  OBVIOUS
  <2>2. PICK own : own = {y \in Fibre(rows, key, k) : \A r \in reviews : r.order # y.order}  OBVIOUS
  <2>3. own = {y \in alone : key[y] = k}  BY <2>1, <2>2 DEF Fibre
  <2>4. {x \in Reviewed(rows) : key[x[1]] = k} = Reviewed(Fibre(rows, key, k))  BY DEF Reviewed, Fibre
  <2>5. {x \in {<<y, None>> : y \in alone} : key[x[1]] = k} = {<<y, None>> : y \in own}  BY <2>3
  <2>6. /\ LeftReviewed(rows) = Reviewed(rows) \cup {<<y, None>> : y \in alone}
        /\ LeftReviewed(Fibre(rows, key, k)) = Reviewed(Fibre(rows, key, k)) \cup {<<y, None>> : y \in own}
    BY <2>1, <2>2 DEF LeftReviewed
  <2>7. QED  BY <2>4, <2>5, <2>6
<1>4. QED  BY <1>2, <1>3

\* How many orders a part of some rows has.
LEMMA OrdersOfPart ==
    ASSUME NEW rows, IsFiniteSet(rows), NEW part \in SUBSET rows
    PROVE  /\ Orders(rows) \in Nat /\ Orders(part) \in Nat /\ Orders(part) =< Orders(rows)
           /\ Orders(part) = 0 <=> part = {}
<1> DEFINE f == [r \in rows |-> r.order]
           T == {r.order : r \in rows}
           P == {r.order : r \in part}
<1>1. IsFiniteSet(T)
  <2>1. T = {f[r] : r \in rows}  OBVIOUS
  <2> HIDE DEF f, T
  <2>2. QED  BY <2>1, ImageFinite
<1>2. P \in SUBSET T /\ (P = {} <=> part = {})  OBVIOUS
<1>3. Orders(rows) = Cardinality(T) /\ Orders(part) = Cardinality(P)  BY DEF Orders
<1> HIDE DEF T, P
<1>4. /\ IsFiniteSet(P) /\ Cardinality(P) \in Nat /\ Cardinality(T) \in Nat
      /\ Cardinality(P) =< Cardinality(T)
  BY <1>1, <1>2, PartOf
<1>5. Cardinality(P) = 0 <=> P = {}  BY <1>4, FS_EmptySet
<1>6. QED  BY <1>2, <1>3, <1>4, <1>5

\* What a comparison tells of the groups of some rows.
Compared(rows, key) == [k \in Keys(rows, key) |-> Facts(LeftReviewed(Fibre(rows, key, k)))]

LEMMA ComparedAddUp ==
    ASSUME Data, NEW rows, Valued(rows), NEW key, NEW compared, compared = Compared(rows, key)
    PROVE  /\ DOMAIN compared = {} <=> Orders(rows) = 0
           /\ \A k \in DOMAIN compared : compared[k].orders =< Orders(rows)
           /\ OneReviewEach => Sum([k \in DOMAIN compared |-> compared[k].revenue]) = Total(rows)
<1>1. DOMAIN compared = Keys(rows, key)  BY DEF Compared
<1>2. ASSUME NEW k \in Keys(rows, key)
      PROVE  /\ Fibre(rows, key, k) \in SUBSET rows
             /\ compared[k].orders = Orders(Fibre(rows, key, k))
             /\ OneReviewEach => compared[k].revenue = Total(Fibre(rows, key, k))
  <2>1. PICK part : part = Fibre(rows, key, k)  OBVIOUS
  <2>2. part \in SUBSET rows  BY <2>1 DEF Fibre
  <2>3. Valued(part)  BY <2>2, PartOf DEF Valued
  <2>4. compared[k] = Facts(LeftReviewed(part))  BY <2>1 DEF Compared
  <2>5. QED  BY <2>1, <2>2, <2>3, <2>4, FactsAre
<1>3. DOMAIN compared = {} <=> Orders(rows) = 0
  <2>1. Keys(rows, key) = {} <=> rows = {}  BY DEF Keys
  <2>2. Orders(rows) = 0 <=> rows = {}  BY OrdersOfPart DEF Valued
  <2>3. QED  BY <1>1, <2>1, <2>2
<1>4. \A k \in DOMAIN compared : compared[k].orders =< Orders(rows)
  <2> SUFFICES ASSUME NEW k \in Keys(rows, key) PROVE compared[k].orders =< Orders(rows)  BY <1>1
  <2>1. PICK part \in SUBSET rows : part = Fibre(rows, key, k)  BY <1>2
  <2>2. Orders(part) =< Orders(rows)  BY OrdersOfPart DEF Valued
  <2>3. QED  BY <1>2, <2>1, <2>2
<1>5. ASSUME OneReviewEach
      PROVE  Sum([k \in DOMAIN compared |-> compared[k].revenue]) = Total(rows)
  <2>1. [k \in DOMAIN compared |-> compared[k].revenue] = Totals(rows, key)
    BY <1>1, <1>2, <1>5 DEF Totals
  <2>2. QED  BY <2>1, TotalsAddUp
<1>6. QED  BY <1>3, <1>4, <1>5

\* Orders joined to their payments are all there, and are worth what was paid.
LEMMA LeftPaidRows ==
    ASSUME Data, NEW sel, sel \subseteq DOMAIN orders, NEW rows, rows = LeftPaid(sel)
    PROVE  /\ Valued(rows) /\ {r.order : r \in rows} = sel
           /\ Orders(rows) = Cardinality(sel)
           /\ Total(rows) = Total(PaymentsOf(sel))
<1> DEFINE unpaid == {x \in sel : \A p \in payments : p.order # x}
           blank == [o \in unpaid |-> [order |-> o, value |-> 0]]
           blanks == {blank[o] : o \in unpaid}
           paid == PaymentsOf(sel)
           value == [r \in rows |-> r.value]
<1>1. rows = paid \cup blanks  BY DEF LeftPaid
<1>0. \A o \in unpaid : blank[o].order = o /\ blank[o].value = 0  OBVIOUS
<1>2. \A r \in blanks : r.value = 0 /\ r.order \in unpaid
  <2> HIDE DEF blank, unpaid
  <2>1. QED  BY <1>0
<1>3. \A o \in unpaid : \E r \in blanks : r.order = o
  <2> HIDE DEF blank, unpaid
  <2>1. QED  BY <1>0
<1>4. unpaid \in SUBSET sel /\ IsFiniteSet(unpaid)
  <2>1. unpaid \subseteq DOMAIN orders /\ IsFiniteSet(DOMAIN orders)  BY DEF Data
  <2> HIDE DEF unpaid
  <2>2. IsFiniteSet(unpaid)  BY <2>1, PartOf
  <2>3. QED  BY <2>2 DEF unpaid
<1>5. IsFiniteSet(blanks)
  <2> HIDE DEF blank, unpaid
  <2>1. QED  BY <1>4, ImageFinite
<1>6. Valued(paid)  BY RowsValued
<1>7. \A p \in paid : p.order \in sel  BY DEF PaymentsOf
<1>8. \A o \in sel \ unpaid : \E p \in paid : p.order = o  BY DEF PaymentsOf
<1> HIDE DEF unpaid, blank, blanks, paid
<1>9. IsFiniteSet(rows)  BY <1>1, <1>5, <1>6, FS_Union DEF Valued
<1>10. Valued(rows)  BY <1>1, <1>2, <1>6, <1>9 DEF Valued
<1>11. {r.order : r \in rows} = sel
  <2>1. \A r \in rows : r.order \in sel  BY <1>1, <1>2, <1>4, <1>7
  <2>2. \A o \in sel : \E r \in rows : r.order = o  BY <1>1, <1>3, <1>8
  <2>3. QED  BY <2>1, <2>2
<1>12. Total(rows) = Total(paid)
  <2>1. paid \in SUBSET rows /\ rows \in SUBSET rows /\ rows \ paid \in SUBSET rows  BY <1>1
  <2>2. Total(rows) = SumOver(value, rows) /\ Total(paid) = SumOver(value, paid)
    BY <1>10, <2>1, TotalNat
  <2>3. \A r \in rows : value[r] \in Int  BY <1>10 DEF Valued
  <2>4. \A r \in rows \ paid : value[r] = 0  BY <1>1, <1>2
  <2>5. IsFiniteSet(rows \ paid)  BY <1>9, <2>1, PartOf
  <2> HIDE DEF value
  <2>6. SumOver(value, rows \ paid) = 0  BY <2>4, <2>5, SumZero
  <2>7. SumOver(value, paid) \in Int  BY <1>9, <2>1, <2>3, SumOfPart
  <2>8. SumOver(value, rows) = SumOver(value, paid) + SumOver(value, rows \ paid)
    BY <1>9, <2>1, <2>3, SumSplit
  <2>9. QED  BY <2>2, <2>6, <2>7, <2>8
<1>13. QED  BY <1>10, <1>11, <1>12 DEF paid, Orders

(***************************************************************************)
(* Products, categories and states.                                        *)
(***************************************************************************)
ProductKey(rows) == [i \in rows |-> i.product]

\* The items of a category, as its comparison, its count and its revenue see them.
LEMMA CategoryAlike ==
    ASSUME Data, NEW date, NEW sel, sel = All(date), sel # Error, NEW text \in DOMAIN Spaces,
           NEW compared, compared = CategoryComparison(<<text>>, date)
    PROVE  /\ DOMAIN compared = {} <=> CountByCategory(text, None, None, date) = 0
           /\ \A label \in DOMAIN compared :
                compared[label].orders =< CountByCategory(text, None, None, date)
           /\ OneReviewEach => Sum([label \in DOMAIN compared |-> compared[label].revenue])
                                 = GetRevenue(None, None, Spaces[text], None, date)
<1>0. None # "state" /\ None # "category" /\ None # "month"  BY Distinct
<1>1. /\ text # None /\ {text} # Error
      /\ Spaces[text] # None /\ Spaced(text) = Spaces[text]
  BY DataSet, Distinct, OlistConstants DEF Spaced
<1>2. PICK its : its = ItemsOf(sel)  OBVIOUS
<1>3. PICK rows : rows = {i \in its : InCategory(i.product, Spaces[text])}  OBVIOUS
<1>4. Of(Spaces[text], its) = rows /\ From_(None, its) = its  BY <1>1, <1>3 DEF Of, From_
<1>5. Valued(rows)
  <2>1. Valued(its) /\ rows \in SUBSET its  BY <1>2, <1>3, RowsValued
  <2>2. IsFiniteSet(rows)  BY <2>1, PartOf DEF Valued
  <2>3. QED  BY <2>1, <2>2 DEF Valued
<1>6. CountByCategory(text, None, None, date) = Orders(rows)
  BY <1>1, <1>2, <1>4 DEF CountByCategory, Answer, All
<1>7. GetRevenue(None, None, Spaces[text], None, date) = Total(rows)
  BY <1>0, <1>1, <1>2, <1>4 DEF GetRevenue, Answer, All, AsTyped
<1>8. PICK key : key = LabelKey(rows)  OBVIOUS
<1>9. compared = Compared(rows, key)
  <2>1. ComparedList(<<text>>) = {text} /\ {text} # Error  BY <1>1, ComparedOne
  <2>2. UNION {Of(Spaced(c), its) : c \in {text}} = rows  BY <1>1, <1>4
  <2>3. PICK pairs : pairs = LeftReviewed(rows)  OBVIOUS
  <2>4. compared = [k \in {Label(x[1].product) : x \in pairs} |->
                        Facts({x \in pairs : Label(x[1].product) = k})]
    BY <1>2, <2>1, <2>2, <2>3 DEF CategoryComparison, Answer, Group
  <2>5. \A x \in pairs : key[x[1]] = Label(x[1].product)
    <3>1. \A x \in pairs : x[1] \in rows  BY <2>3, JoinedRows
    <3>2. QED  BY <1>8, <3>1 DEF LabelKey
  <2>6. /\ {Label(x[1].product) : x \in pairs} = {key[x[1]] : x \in pairs}
        /\ \A k : {x \in pairs : Label(x[1].product) = k} = {x \in pairs : key[x[1]] = k}
    BY <2>5
  <2>7. /\ {key[x[1]] : x \in pairs} = Keys(rows, key)
        /\ \A k : {x \in pairs : key[x[1]] = k} = LeftReviewed(Fibre(rows, key, k))
    BY <2>3, JoinedGroups
  <2>8. QED  BY <2>4, <2>6, <2>7 DEF Compared
<1>10. QED  BY <1>5, <1>6, <1>7, <1>9, ComparedAddUp

\* The orders of a state, as its comparison, its count and its revenue see them.
LEMMA StateAlike ==
    ASSUME Data, NEW date, NEW sel, sel = All(date), sel # Error, NEW state \in States,
           NEW compared, compared = StateComparison(<<state>>, date)
    PROVE  LET placed == CountOrders(None, state, None, date)
           IN IF placed = 0 THEN DOMAIN compared = {}
              ELSE /\ DOMAIN compared = {state}
                   /\ compared[state].orders = placed
                   /\ OneReviewEach =>
                        compared[state].revenue = GetRevenue(None, state, None, None, date)
<1>0. None # "state" /\ None # "category" /\ None # "month"  BY Distinct
<1>1. state # None /\ {state} # Error  BY StatesFinite, Distinct DEF States
<1>2. PICK mine : mine = Fibre(sel, StateOf, state)  OBVIOUS
<1>3. sel \subseteq DOMAIN orders /\ IsFiniteSet(sel)  BY PlacedOrders DEF All
<1>4. mine \subseteq DOMAIN orders /\ mine \in SUBSET sel  BY <1>2, <1>3 DEF Fibre
<1>5. mine # Error  BY <1>4, NoError
<1>6. Placed(None, state, None, date) = mine  BY <1>2, PlacedByState DEF All
<1>7. CountOrders(None, state, None, date) = Cardinality(mine)  BY <1>5, <1>6, CountSelected
<1>8. GetRevenue(None, state, None, None, date) = Total(PaymentsOf(mine))
  BY <1>0, <1>5, <1>6 DEF GetRevenue, Answer
<1>9. {o \in sel : CustomerState(o) \in {state}} = mine  BY <1>2, <1>3 DEF Fibre, StateOf
<1>10. PICK rows : rows = LeftPaid(mine)  OBVIOUS
<1>11. /\ Valued(rows) /\ {r.order : r \in rows} = mine
       /\ Orders(rows) = Cardinality(mine)
       /\ Total(rows) = Total(PaymentsOf(mine))
  BY <1>4, <1>10, LeftPaidRows
<1>12. PICK pairs : pairs = LeftReviewed(rows)  OBVIOUS
<1>13. compared = [k \in {CustomerState(x[1].order) : x \in pairs} |->
                       Facts({x \in pairs : CustomerState(x[1].order) = k})]
  <2>1. ComparedList(<<state>>) = {state} /\ {state} # Error  BY <1>1, ComparedOne
  <2>2. QED  BY <1>9, <1>10, <1>12, <2>1 DEF StateComparison, Answer, Group
<1>14. {x[1] : x \in pairs} = rows  BY <1>12, JoinedRows
<1>15. \A x \in pairs : CustomerState(x[1].order) = state
  <2>1. \A o \in mine : CustomerState(o) = state  BY <1>9
  <2>2. \A x \in pairs : x[1].order \in mine  BY <1>11, <1>14
  <2>3. QED  BY <2>1, <2>2
<1>16. Cardinality(mine) = 0 <=> mine = {}
  <2>1. IsFiniteSet(mine)  BY <1>3, <1>4, PartOf
  <2>2. QED  BY <2>1, FS_EmptySet
<1>17. pairs = {} <=> mine = {}  BY <1>11, <1>14
<1>18. CASE mine = {}
  <2>1. DOMAIN compared = {}  BY <1>13, <1>17, <1>18
  <2>2. QED  BY <1>7, <1>16, <1>18, <2>1
<1>19. CASE mine # {}
  <2>1. {CustomerState(x[1].order) : x \in pairs} = {state}  BY <1>15, <1>17, <1>19
  <2>2. {x \in pairs : CustomerState(x[1].order) = state} = pairs  BY <1>15
  <2>3. DOMAIN compared = {state} /\ compared[state] = Facts(pairs)  BY <1>13, <2>1, <2>2
  <2>4. /\ compared[state].orders = Orders(rows)
        /\ OneReviewEach => compared[state].revenue = Total(rows)
    BY <1>11, <1>12, <2>3, FactsAre
  <2>5. QED  BY <1>7, <1>8, <1>11, <1>16, <1>19, <2>3, <2>4
<1>20. QED  BY <1>18, <1>19

\* The rankings of products by what was sold.
LEMMA ProductsRanked ==
    ASSUME Data, NEW date, NEW sel, sel = All(date), sel # Error, NEW limit \in {2, 25}
    PROVE  TopProducts(date, limit, "revenue", None)
             = Best(Totals(ItemsOf(sel), ProductKey(ItemsOf(sel))), limit, More)
<1>1. Top(limit) = limit
  <2>1. limit \in 1 .. 25 /\ 25 \in Nat  OBVIOUS
  <2>2. QED  BY <2>1, ClampIs DEF Top
<1>2. PICK its : its = ItemsOf(sel)  OBVIOUS
<1>3. Of(AsTyped(None), its) = its  BY DEF Of, AsTyped
<1>4. TopProducts(date, limit, "revenue", None)
        = Best([k \in {i.product : i \in its} |-> Total({i \in its : i.product = k})], limit, More)
  BY <1>1, <1>2, <1>3 DEF TopProducts, Answer, Ranking, Group, Measure
<1>5. /\ {i.product : i \in its} = Keys(its, ProductKey(its))
      /\ \A k : {i \in its : i.product = k} = Fibre(its, ProductKey(its), k)
  BY DEF Keys, Fibre, ProductKey
<1>6. [k \in {i.product : i \in its} |-> Total({i \in its : i.product = k})] = Totals(its, ProductKey(its))
  BY <1>5 DEF Totals
<1>7. QED  BY <1>2, <1>4, <1>6

\* A product that was sold: the lookup and the rankings say the same of it.
LEMMA ProductAlike ==
    ASSUME Data, NEW p \in DOMAIN Products, NEW facts, facts = ProductInfo(p).facts, facts.orders > 0
    PROVE  /\ OneReviewEach => \A best \in TopProducts(None, 25, "revenue", None) :
                                    Says(best, p, facts.revenue)
           /\ facts.rating # None => \A best \in AverageRatingByProduct(None, 25) :
                                    Says(best, p, facts.rating)
<1>1. PICK rows : rows = {i \in items : i.product = p}  OBVIOUS
<1>2. Valued(items) /\ IsFiniteSet(items)  BY DEF Valued, Data, ItemOk
<1>3. rows \in SUBSET items /\ Valued(rows)
  <2>1. rows \in SUBSET items  BY <1>1
  <2>2. IsFiniteSet(rows)  BY <1>2, <2>1, PartOf
  <2>3. QED  BY <1>2, <2>1, <2>2 DEF Valued
<1>4. facts = Facts(LeftReviewed(rows))  BY <1>1 DEF ProductInfo
<1>5. /\ facts.orders = Orders(rows) /\ facts.rating = Rating(Reviewed(rows))
      /\ OneReviewEach => facts.revenue = Total(rows)
  BY <1>3, <1>4, FactsAre
<1>6. rows # {}
  <2>1. Orders({}) = 0  BY FS_EmptySet DEF Orders
  <2>2. QED  BY <1>5, <2>1
<1>7. ASSUME OneReviewEach, NEW best \in TopProducts(None, 25, "revenue", None)
      PROVE  Says(best, p, facts.revenue)
  <2>1. PICK sel : sel = All(None)  OBVIOUS
  <2>2. sel = DOMAIN orders  BY <2>1 DEF All, Placed, KnownDate, InWindow
  <2>3. sel # Error  BY <2>2, NoError
  <2>4. ItemsOf(sel) = items  BY <2>2 DEF ItemsOf, Data, ItemOk
  <2>5. PICK g : g = Totals(items, ProductKey(items))  OBVIOUS
  <2>6. best \in Best(g, 25, More)
    <3>1. 25 \in {2, 25}  OBVIOUS
    <3>2. QED  BY <1>7, <2>1, <2>3, <2>4, <2>5, <3>1, ProductsRanked
  <2>7. IsFiniteSet(DOMAIN g)  BY <1>2, <2>5, TotalsAddUp
  <2>8. Fibre(items, ProductKey(items), p) = rows  BY <1>1 DEF Fibre, ProductKey
  <2>9. p \in Keys(items, ProductKey(items))  BY <1>1, <1>6 DEF Keys, ProductKey
  <2>10. p \in DOMAIN g /\ g[p] = Total(rows)  BY <2>5, <2>8, <2>9 DEF Totals
  <2>11. QED  BY <1>5, <1>7, <2>6, <2>7, <2>10, KeptSays DEF Best
<1>8. ASSUME facts.rating # None, NEW best \in AverageRatingByProduct(None, 25)
      PROVE  Says(best, p, facts.rating)
  <2>1. Reviewed(rows) # {}
    <3>1. {x \in Reviewed(rows) : x[2] # None} = Reviewed(rows)  BY JoinedRows
    <3>2. QED  BY <1>5, <1>8, <3>1 DEF Rating, Average
  <2>2. PICK g : g = Ratings(Pairs, ProductOf)  OBVIOUS
  <2>3. best \in Best(g, 25, Better)  BY <1>8, <2>2, RatingsAre
  <2>4. IsFiniteSet(DOMAIN g)  BY <2>2, RatedGroups
  <2>5. Fibre(Pairs, ProductOf, p) = Reviewed(rows)  BY <1>1 DEF Fibre, ProductOf, Pairs, Reviewed
  <2>6. p \in Keys(Pairs, ProductOf)  BY <2>1, <2>5 DEF Keys, Fibre
  <2>7. p \in DOMAIN g /\ g[p] = facts.rating  BY <1>5, <2>2, <2>5, <2>6 DEF Ratings
  <2>8. QED  BY <2>3, <2>4, <2>7, KeptSays DEF Best
<1>9. QED  BY <1>7, <1>8

\* A ranking of a category's products shows no more of them than there are.
LEMMA ProductsCounted ==
    ASSUME Data, NEW text \in DOMAIN Spaces, NEW best \in TopProducts(None, 25, "count", Spaces[text])
    PROVE  Cardinality(DOMAIN best) =< CountProducts(text)
<1>1. text # None /\ Spaces[text] # None  BY DataSet, OlistConstants
<1>2. PICK known : known = {p \in DOMAIN Products : InCategory(p, Spaces[text])}  OBVIOUS
<1>3. CountProducts(text) = Cardinality(known)  BY <1>1, <1>2 DEF CountProducts, Spaced
<1>4. IsFiniteSet(known)
  <2>1. IsFiniteSet(DOMAIN Products) /\ known \in SUBSET DOMAIN Products  BY <1>2, DataSet
  <2>2. QED  BY <2>1, PartOf
<1>5. PICK sel : sel = All(None)  OBVIOUS
<1>6. sel # Error
  <2>1. sel = DOMAIN orders  BY <1>5 DEF All, Placed, KnownDate, InWindow
  <2>2. QED  BY <2>1, NoError
<1>7. PICK rows : rows = Of(AsTyped(Spaces[text]), ItemsOf(sel))  OBVIOUS
<1>8. \A i \in rows : i.product \in known
  BY <1>1, <1>2, <1>7 DEF Of, AsTyped, ItemsOf, Data, ItemOk
<1>9. PICK n : n = Top(25)  OBVIOUS
<1>10. best \in Best([k \in {i.product : i \in rows} |-> Cardinality({i \in rows : i.product = k})], n, More)
  BY <1>5, <1>6, <1>7, <1>9 DEF TopProducts, Answer, Ranking, Group, Measure
<1>11. PICK g : g = [k \in {i.product : i \in rows} |-> Cardinality({i \in rows : i.product = k})]  OBVIOUS
<1>12. DOMAIN best \in SUBSET DOMAIN g  BY <1>10, <1>11 DEF Best, kSubset, Restrict
<1>13. DOMAIN g \subseteq known  BY <1>8, <1>11
<1>14. DOMAIN best \in SUBSET known  BY <1>12, <1>13
<1>15. QED  BY <1>3, <1>4, <1>14, PartOf

\* All that is said of a product, a category or a state is one story: the
\* rankings, the comparisons, the lookup, the counts and the catalog name the
\* same orders and products, and the comparisons and the lookup the revenue of
\* the others while no order has a second review.
THEOREM SalesAlike == Spec => []SalesToolsAgree
<1>1. Data => SalesToolsAgree
  <2> SUFFICES ASSUME Data PROVE SalesToolsAgree  OBVIOUS
  <2>1. ASSUME NEW date \in DatesAsked, SellerConcentration(date) # Error
        PROVE  All(date) # Error
    BY <2>1 DEF SellerConcentration, Answer
  <2>2. ASSUME NEW date \in DatesAsked, SellerConcentration(date) # Error
        PROVE  AddsUp(TopProducts(date, 2, "revenue", None), 2, SellerConcentration(date).total)
    <3>1. PICK sel : sel = All(date) /\ sel # Error  BY <2>1, <2>2
    <3>2. PICK its : its = ItemsOf(sel)  OBVIOUS
    <3>3. Valued(its)  BY <3>2, RowsValued
    <3>4. PICK g : g = Totals(its, ProductKey(its))  OBVIOUS
    <3>5. Sum(g) = Total(its) /\ IsFiniteSet(DOMAIN g) /\ \A k \in DOMAIN g : g[k] \in Nat
      BY <3>3, <3>4, TotalsAddUp
    <3>6. TopProducts(date, 2, "revenue", None) = Best(g, 2, More)
      <4>1. 2 \in {2, 25}  OBVIOUS
      <4>2. QED  BY <3>1, <3>2, <3>4, <4>1, ProductsRanked
    <3>7. SellerConcentration(date).total = Total(its)
      <4>1. 1 \in 1 .. 2  OBVIOUS
      <4>2. SellerConcentration(date).total = Sum(Totals(its, SellerKey(its)))
        BY <3>1, <3>2, <4>1, SoldBreakdowns
      <4>3. QED  BY <3>3, <4>2, TotalsAddUp
    <3>8. AddsUp(Best(g, 2, More), 2, Sum(g))
      <4>1. 2 \in Nat  OBVIOUS
      <4>2. QED  BY <3>5, <4>1, BestAddsUp
    <3>9. QED  BY <3>5, <3>6, <3>7, <3>8
  <2>3. ASSUME NEW date \in DatesAsked, SellerConcentration(date) # Error, NEW text \in DOMAIN Spaces
        PROVE  LET compared == CategoryComparison(<<text>>, date)
               IN /\ DOMAIN compared = {} <=> CountByCategory(text, None, None, date) = 0
                  /\ \A label \in DOMAIN compared :
                       compared[label].orders =< CountByCategory(text, None, None, date)
                  /\ OneReviewEach => Sum([label \in DOMAIN compared |-> compared[label].revenue])
                                        = GetRevenue(None, None, Spaces[text], None, date)
    BY <2>1, <2>3, CategoryAlike
  <2>4. ASSUME NEW date \in DatesAsked, SellerConcentration(date) # Error, NEW state \in States
        PROVE  LET compared == StateComparison(<<state>>, date)
                   placed == CountOrders(None, state, None, date)
               IN IF placed = 0 THEN DOMAIN compared = {}
                  ELSE /\ DOMAIN compared = {state}
                       /\ compared[state].orders = placed
                       /\ OneReviewEach =>
                            compared[state].revenue = GetRevenue(None, state, None, None, date)
    BY <2>1, <2>4, StateAlike
  <2>5. QED  BY <2>2, <2>3, <2>4, ProductAlike, ProductsCounted DEF SalesToolsAgree
<1>2. QED  BY <1>1, DataKept, PTL

(***************************************************************************)
(* Customers.                                                              *)
(***************************************************************************)
OrdersOf(c) == {o \in DOMAIN orders : Buyer(o) = c}
OrderKey(rows) == [r \in rows |-> r.order]
BuyerOf(sel) == [o \in sel |-> Buyer(o)]

\* The lookup and the history of a customer.
LEMMA HistoryAlike ==
    ASSUME Data, NEW c \in DOMAIN Customers, NEW facts, facts = CustomerInfo(c).facts,
           NEW history, history = CustomerOrderHistory(c, 50, 0)
    PROVE  /\ facts.orders = history.total /\ history.total = Cardinality(OrdersOf(c))
           /\ Sum(history.paid) = Total(PaymentsOf(OrdersOf(c)))
           /\ OneReviewEach => facts.revenue = Sum(history.paid)
<1>1. PICK placed : placed = OrdersOf(c)  OBVIOUS
<1>2. placed \in SUBSET DOMAIN orders /\ IsFiniteSet(placed)
  <2>1. placed \in SUBSET DOMAIN orders /\ IsFiniteSet(DOMAIN orders)  BY <1>1 DEF OrdersOf, Data
  <2>2. QED  BY <2>1, PartOf
<1>3. PICK rows : rows = LeftPaid(placed)  OBVIOUS
<1>4. PICK paid : paid = PaymentsOf(placed)  OBVIOUS
<1>5. /\ Valued(rows) /\ Orders(rows) = Cardinality(placed)
      /\ Total(rows) = Total(paid)
  BY <1>2, <1>3, <1>4, LeftPaidRows
<1>6. facts = Facts(LeftReviewed(rows))
  BY <1>1, <1>3 DEF CustomerInfo, OrdersOf, Buyer
<1>7. facts.orders = Cardinality(placed) /\ (OneReviewEach => facts.revenue = Total(paid))
  BY <1>5, <1>6, FactsAre
<1>8. /\ history.total = Cardinality(placed)
      /\ history.paid = [o \in placed |-> Total(PaymentsOf({o}))]
  <2>1. c # None  BY DataSet
  <2>2. QED  BY <1>1, <2>1 DEF CustomerOrderHistory, OrdersOf
<1>9. Sum(history.paid) = Total(paid)
  <2>1. \A o \in placed : PaymentsOf({o}) = Fibre(paid, OrderKey(paid), o)
    BY <1>4 DEF PaymentsOf, Fibre, OrderKey
  <2>2. history.paid = [o \in placed |-> Total(Fibre(paid, OrderKey(paid), o))]  BY <1>8, <2>1
  <2>3. Keys(paid, OrderKey(paid)) \subseteq placed  BY <1>4 DEF Keys, OrderKey, PaymentsOf
  <2>4. Valued(paid)  BY <1>4, RowsValued
  <2>5. QED  BY <1>2, <2>2, <2>3, <2>4, TotalOfGroups
<1>10. QED  BY <1>1, <1>4, <1>7, <1>8, <1>9

\* The ranking by lifetime value: who is in it, and what it says.
LEMMA LifetimeIs ==
    ASSUME Data, NEW least \in {1, 2}, NEW best \in CustomerLifetimeValue(None, None, least, 25),
           NEW c \in DOMAIN best
    PROVE  /\ best[c].value = Total(PaymentsOf(OrdersOf(c)))
           /\ best[c].orders = Orders(PaymentsOf(OrdersOf(c)))
           /\ best[c].orders >= least
<1>1. PICK sel : sel = Placed(None, None, None, None)  OBVIOUS
<1>2. sel = DOMAIN orders  BY <1>1 DEF Placed, KnownDate, InWindow
<1>3. sel # Error  BY <1>2, NoError
<1>4. PaymentsOf(sel) = payments  BY <1>2 DEF PaymentsOf, Data, PaymentOk
<1>5. Max({1, least}) = least
  <2>1. 1 \in Int /\ least \in Int  OBVIOUS
  <2>2. QED  BY <2>1, MinMax
<1>6. PICK value : value = [k \in {Buyer(p.order) : p \in payments} |->
             [value |-> Total({p \in payments : Buyer(p.order) = k}),
              orders |-> Orders({p \in payments : Buyer(p.order) = k})]]
  OBVIOUS
<1>7. PICK regular : regular = {k \in DOMAIN value : value[k].orders >= least}  OBVIOUS
<1>8. PICK g : g = Restrict(value, regular)  OBVIOUS
<1>9. \E kept \in SUBSET DOMAIN g : best = Restrict(g, kept)
  <2> DEFINE Values(rows) == [k \in {Buyer(p.order) : p \in rows} |->
                 [value |-> Total({p \in rows : Buyer(p.order) = k}),
                  orders |-> Orders({p \in rows : Buyer(p.order) = k})]]
             Regular(v) == Restrict(v, {k \in DOMAIN v : v[k].orders >= Max({1, least})})
             Bests(h, n) == {Restrict(h, kept) : kept \in
                {K \in kSubset(Min({n, Cardinality(DOMAIN h)}), DOMAIN h) :
                    \A k \in K, j \in DOMAIN h \ K : ~ (h[j].value > h[k].value)}}
  <2>1. best \in Bests(Regular(Values(PaymentsOf(sel))), Clamp(25, 1, 25))
    <3> DEFINE asked == Placed(None, None, None, None)
    <3>1. CustomerLifetimeValue(None, None, least, 25)
            = IF asked = Error THEN Error
              ELSE Bests(Regular(Values(PaymentsOf(asked))), Clamp(25, 1, 25))
      BY DEF CustomerLifetimeValue, Answer, Group, Best
    <3> HIDE DEF Values, Regular, Bests
    <3>2. QED  BY <1>1, <1>3, <3>1
  <2>2. Values(PaymentsOf(sel)) = value  BY <1>4, <1>6
  <2>3. Regular(value) = g  BY <1>5, <1>7, <1>8
  <2>4. \A h, n : \A b \in Bests(h, n) : \E kept \in SUBSET DOMAIN h : b = Restrict(h, kept)
    BY DEF kSubset
  <2> HIDE DEF Values, Regular, Bests
  <2>5. QED  BY <2>1, <2>2, <2>3, <2>4
<1>10. c \in regular /\ best[c] = value[c]  BY <1>7, <1>8, <1>9 DEF Restrict
<1>11. {p \in payments : Buyer(p.order) = c} = PaymentsOf(OrdersOf(c))
  BY DEF PaymentsOf, OrdersOf, Data, PaymentOk
<1>12. /\ value[c].value = Total(PaymentsOf(OrdersOf(c)))
       /\ value[c].orders = Orders(PaymentsOf(OrdersOf(c)))
       /\ value[c].orders >= least
  BY <1>6, <1>7, <1>10, <1>11
<1>13. QED  BY <1>10, <1>12

\* A customer's payments are for no more orders than the customer has.
LEMMA PaidOrders ==
    ASSUME Data, NEW c
    PROVE  /\ Orders(PaymentsOf(OrdersOf(c))) =< Cardinality(OrdersOf(c))
           /\ Orders(PaymentsOf(OrdersOf(c))) \in Nat /\ Cardinality(OrdersOf(c)) \in Nat
<1>1. PICK placed : placed = OrdersOf(c)  OBVIOUS
<1>2. IsFiniteSet(placed)
  <2>1. placed \in SUBSET DOMAIN orders /\ IsFiniteSet(DOMAIN orders)  BY <1>1 DEF OrdersOf, Data
  <2>2. QED  BY <2>1, PartOf
<1>3. PICK T : T = {p.order : p \in PaymentsOf(placed)}  OBVIOUS
<1>4. T \in SUBSET placed  BY <1>3 DEF PaymentsOf
<1>5. Orders(PaymentsOf(placed)) = Cardinality(T)  BY <1>3 DEF Orders
<1>6. QED  BY <1>1, <1>2, <1>4, <1>5, PartOf

\* The customers of some orders, and those of them with more than one.
BuyersOf(sel) == Keys(sel, BuyerOf(sel))
Repeaters(sel) == {c \in BuyersOf(sel) : Cardinality(Fibre(sel, BuyerOf(sel), c)) > 1}

LEMMA RateIs ==
    ASSUME Data, NEW date, NEW sel, sel = Placed(None, None, None, date), sel # Error
    PROVE  /\ RepeatCustomerRate(date).total = Cardinality(BuyersOf(sel))
           /\ RepeatCustomerRate(date).repeat = Cardinality(Repeaters(sel))
<1>1. PICK count : count = [k \in {Buyer(o) : o \in sel} |-> Cardinality({o \in sel : Buyer(o) = k})]
  OBVIOUS
<1>2. RepeatCustomerRate(date) = [total |-> Cardinality(DOMAIN count),
                                  repeat |-> Cardinality({c \in DOMAIN count : count[c] > 1})]
  BY <1>1 DEF RepeatCustomerRate, Answer, Group
<1>3. /\ {Buyer(o) : o \in sel} = BuyersOf(sel)
      /\ \A k : {o \in sel : Buyer(o) = k} = Fibre(sel, BuyerOf(sel), k)
  BY DEF BuyersOf, Keys, BuyerOf, Fibre
<1>4. DOMAIN count = BuyersOf(sel) /\ {c \in DOMAIN count : count[c] > 1} = Repeaters(sel)
  BY <1>1, <1>3 DEF Repeaters
<1>5. QED  BY <1>2, <1>4

\* Each customer has an order, and who repeats a second one.
LEMMA BuyersCounted ==
    ASSUME NEW sel, IsFiniteSet(sel)
    PROVE  /\ IsFiniteSet(BuyersOf(sel))
           /\ Cardinality(BuyersOf(sel)) + Cardinality(Repeaters(sel)) =< Cardinality(sel)
<1> DEFINE B == BuyersOf(sel)
           R == Repeaters(sel)
           key == BuyerOf(sel)
           f == [c \in B |-> IF c \in R THEN 2 ELSE 1]
           F == [T \in SUBSET B |-> Cardinality(T) + Cardinality(T \cap R)]
           g == Counts(sel, key, B)
<1>1. IsFiniteSet(B)  BY ImageFinite DEF BuyersOf, Keys
<1>2. R \in SUBSET B /\ \A o \in sel : key[o] \in B  BY DEF Repeaters, BuyersOf, Keys
<1>3. \A c \in B : f[c] \in Nat /\ f[c] = IF c \in R THEN 2 ELSE 1  OBVIOUS
<1>4. \A T \in SUBSET B : F[T] = Cardinality(T) + Cardinality(T \cap R)  OBVIOUS
<1>5. \A c \in B : g[c] = Cardinality(Fibre(sel, key, c))  BY DEF Counts
<1>6. \A c \in B : Cardinality(Fibre(sel, key, c)) > 1 <=> c \in R  BY DEF Repeaters
<1>7. \A c \in B : Fibre(sel, key, c) # {}  BY DEF BuyersOf, Keys, Fibre
<1> HIDE DEF B, R, key, f, F, g
<1>8. F[{}] = 0
  <2>1. {} \cap R = {} /\ Cardinality({}) = 0  BY FS_EmptySet
  <2>2. QED  BY <1>4, <2>1
<1>9. ASSUME NEW T \in SUBSET B, NEW x \in T PROVE F[T] = f[x] + F[T \ {x}]
  <2>1. IsFiniteSet(T) /\ Cardinality(T) \in Nat  BY <1>1, PartOf
  <2>2. T \cap R \in SUBSET B  BY <1>2
  <2>3. IsFiniteSet(T \cap R) /\ Cardinality(T \cap R) \in Nat  BY <1>1, <2>2, PartOf
  <2>4. Cardinality(T \ {x}) = Cardinality(T) - 1  BY <2>1, FS_RemoveElement
  <2>5. Cardinality((T \ {x}) \cap R) = Cardinality(T \cap R) - (IF x \in R THEN 1 ELSE 0)
    <3>1. CASE x \in R
      <4>1. (T \ {x}) \cap R = (T \cap R) \ {x} /\ x \in T \cap R  BY <3>1
      <4>2. Cardinality((T \cap R) \ {x}) = Cardinality(T \cap R) - 1  BY <2>3, <4>1, FS_RemoveElement
      <4>3. QED  BY <3>1, <4>1, <4>2
    <3>2. CASE x \notin R
      <4>1. (T \ {x}) \cap R = T \cap R  BY <3>2
      <4>2. QED  BY <2>3, <3>2, <4>1
    <3>3. QED  BY <3>1, <3>2
  <2>6. /\ F[T] = Cardinality(T) + Cardinality(T \cap R)
        /\ F[T \ {x}] = Cardinality(T \ {x}) + Cardinality((T \ {x}) \cap R)
        /\ f[x] = IF x \in R THEN 2 ELSE 1
    BY <1>3, <1>4
  <2>7. QED  BY <2>1, <2>3, <2>4, <2>5, <2>6
<1>10. AddsEach(F, f, B)  BY <1>8, <1>9 DEF AddsEach
<1>11. SumOver(f, B) = F[B]
  <2>1. \A c \in B : f[c] \in Int  BY <1>3
  <2>2. QED  BY <1>1, <1>10, <2>1, SumUnique
<1>12. F[B] = Cardinality(B) + Cardinality(R)
  <2>1. B \cap R = R  BY <1>2
  <2>2. QED  BY <1>4, <2>1
<1>13. \A c \in B : f[c] \in Nat /\ g[c] \in Nat /\ f[c] =< g[c]
  <2> SUFFICES ASSUME NEW c \in B PROVE f[c] \in Nat /\ g[c] \in Nat /\ f[c] =< g[c]  OBVIOUS
  <2>1. PICK part : part = Fibre(sel, key, c)  OBVIOUS
  <2>2. part \in SUBSET sel  BY <2>1 DEF Fibre
  <2>3. IsFiniteSet(part) /\ Cardinality(part) \in Nat  BY <2>2, PartOf
  <2>4. Cardinality(part) # 0  BY <1>7, <2>1, <2>3, FS_EmptySet
  <2>5. g[c] = Cardinality(part) /\ (Cardinality(part) > 1 <=> c \in R)  BY <1>5, <1>6, <2>1
  <2>6. f[c] = IF c \in R THEN 2 ELSE 1  BY <1>3
  <2>7. QED  BY <2>3, <2>4, <2>5, <2>6
<1>14. SumOver(g, B) = Cardinality(sel)  BY <1>1, <1>2, CountOfGroups DEF g
<1>15. SumOver(f, B) =< SumOver(g, B)  BY <1>1, <1>13, SumOrder
<1>16. Cardinality(B) + Cardinality(R) =< Cardinality(sel)  BY <1>11, <1>12, <1>14, <1>15
<1>17. QED  BY <1>1, <1>16 DEF B, R

\* The customers by city are all of them, each once.
LEMMA CitiesAddUp ==
    ASSUME Data, NEW date, NEW sel, sel = Placed(None, None, None, date), sel # Error, NEW limit \in {1, 25}
    PROVE  AddsUp(CustomersByCity(date, limit), limit, Cardinality(BuyersOf(sel)))
<1>1. sel \subseteq DOMAIN orders /\ IsFiniteSet(sel)  BY PlacedOrders
<1>2. PICK B : B = BuyersOf(sel)  OBVIOUS
<1>3. IsFiniteSet(B)  BY <1>1, <1>2, BuyersCounted
<1>4. PICK city : city = [c \in B |-> Customers[c].city]  OBVIOUS
<1>5. PICK K : K = Keys(B, city)  OBVIOUS
<1>6. IsFiniteSet(K) /\ \A c \in B : city[c] \in K  BY <1>3, <1>5, ImageFinite DEF Keys
<1>7. B = {Buyer(o) : o \in sel}  BY <1>2 DEF BuyersOf, Keys, BuyerOf
<1>8. {Customers[Buyer(o)].city : o \in sel} = K
  <2>1. \A o \in sel : Customers[Buyer(o)].city = city[Buyer(o)] /\ Buyer(o) \in B  BY <1>4, <1>7
  <2>2. {Customers[Buyer(o)].city : o \in sel} = {city[Buyer(o)] : o \in sel}  BY <2>1
  <2>3. {city[Buyer(o)] : o \in sel} = {city[c] : c \in B}  BY <1>7
  <2>4. QED  BY <1>5, <2>2, <2>3 DEF Keys
<1>9. \A k : {Buyer(o) : o \in {x \in sel : Customers[Buyer(x)].city = k}} = Fibre(B, city, k)
  <2>1. \A o \in sel : Customers[Buyer(o)].city = city[Buyer(o)] /\ Buyer(o) \in B  BY <1>4, <1>7
  <2>2. QED  BY <1>7, <2>1 DEF Fibre
<1>10. PICK g : g = Counts(B, city, K)  OBVIOUS
<1>11. Clamp(limit, 1, 25) = limit
  <2>1. limit \in 1 .. 25 /\ 25 \in Nat  OBVIOUS
  <2>2. QED  BY <2>1, ClampIs
<1>12. CustomersByCity(date, limit) = Best(g, limit, More)
  <2>1. [k \in {Customers[Buyer(o)].city : o \in sel} |->
            Cardinality({Buyer(o) : o \in {x \in sel : Customers[Buyer(x)].city = k}})] = g
    BY <1>8, <1>9, <1>10 DEF Counts
  <2>2. QED  BY <1>11, <2>1 DEF CustomersByCity, Answer, Group
<1>13. DOMAIN g = K /\ \A k \in K : g[k] \in Nat
  <2>1. DOMAIN g = K  BY <1>10 DEF Counts
  <2>2. ASSUME NEW k \in K PROVE g[k] \in Nat
    <3>1. Fibre(B, city, k) \in SUBSET B  BY DEF Fibre
    <3>2. QED  BY <1>3, <1>10, <3>1, PartOf DEF Counts
  <2>3. QED  BY <2>1, <2>2
<1>14. Sum(g) = Cardinality(B)
  <2>1. SumOver(g, K) = Cardinality(B)  BY <1>3, <1>6, <1>10, CountOfGroups
  <2>2. QED  BY <1>13, <2>1, SumIs
<1>15. limit \in Nat  OBVIOUS
<1>16. AddsUp(Best(g, limit, More), limit, Sum(g))  BY <1>6, <1>13, <1>15, BestAddsUp
<1>17. QED  BY <1>2, <1>12, <1>14, <1>16

\* All that is said of a customer is one story: the lookup, the history and the
\* ranking by lifetime value name the same orders and payments - the lookup's
\* payments while no order has a second review - the customers counted by city
\* are those of the repeat rate, and who has two orders has them in the count.
THEOREM CustomersAlike == Spec => []CustomerToolsAgree
<1>1. Data => CustomerToolsAgree
  <2> SUFFICES ASSUME Data PROVE CustomerToolsAgree  OBVIOUS
  <2>1. ASSUME NEW c \in DOMAIN Customers,
               NEW history, history = CustomerOrderHistory(c, 50, 0),
               NEW facts, facts = CustomerInfo(c).facts
        PROVE  /\ facts.orders = history.total
               /\ OneReviewEach => facts.revenue = Sum(history.paid)
               /\ \A best \in CustomerLifetimeValue(None, None, 1, 25) :
                    c \in DOMAIN best => /\ best[c].value = Sum(history.paid)
                                         /\ best[c].orders =< history.total
    <3>1. /\ facts.orders = history.total /\ history.total = Cardinality(OrdersOf(c))
          /\ Sum(history.paid) = Total(PaymentsOf(OrdersOf(c)))
          /\ OneReviewEach => facts.revenue = Sum(history.paid)
      BY <2>1, HistoryAlike
    <3>2. ASSUME NEW best \in CustomerLifetimeValue(None, None, 1, 25), c \in DOMAIN best
          PROVE  best[c].value = Sum(history.paid) /\ best[c].orders =< history.total
      <4>1. 1 \in {1, 2}  OBVIOUS
      <4>2. /\ best[c].value = Total(PaymentsOf(OrdersOf(c)))
            /\ best[c].orders = Orders(PaymentsOf(OrdersOf(c)))
        BY <3>2, <4>1, LifetimeIs
      <4>3. QED  BY <3>1, <4>2, PaidOrders
    <3>3. QED  BY <3>1, <3>2
  <2>2. ASSUME NEW best \in CustomerLifetimeValue(None, None, 2, 25)
        PROVE  Cardinality(DOMAIN best) =< RepeatCustomerRate(None).repeat
    <3>1. PICK sel : sel = Placed(None, None, None, None)  OBVIOUS
    <3>2. sel = DOMAIN orders  BY <3>1 DEF Placed, KnownDate, InWindow
    <3>3. sel # Error /\ IsFiniteSet(sel)  BY <3>2, NoError DEF Data
    <3>4. RepeatCustomerRate(None).repeat = Cardinality(Repeaters(sel))  BY <3>1, <3>3, RateIs
    <3>5. \A c : OrdersOf(c) = Fibre(sel, BuyerOf(sel), c)  BY <3>2 DEF OrdersOf, Fibre, BuyerOf
    <3>6. ASSUME NEW c \in DOMAIN best PROVE c \in Repeaters(sel)
      <4>1. 2 \in {1, 2}  OBVIOUS
      <4>2. best[c].orders = Orders(PaymentsOf(OrdersOf(c))) /\ best[c].orders >= 2
        BY <4>1, LifetimeIs
      <4>3. PICK n \in Nat, m \in Nat : /\ n = Orders(PaymentsOf(OrdersOf(c)))
                                       /\ m = Cardinality(OrdersOf(c)) /\ n =< m
        BY PaidOrders
      <4>4. m > 1  BY <4>2, <4>3
      <4>5. Cardinality(Fibre(sel, BuyerOf(sel), c)) > 1  BY <3>5, <4>3, <4>4
      <4>6. Fibre(sel, BuyerOf(sel), c) # {}
        <5>1. Cardinality({}) = 0  BY FS_EmptySet
        <5>2. QED  BY <4>5, <5>1
      <4>7. c \in BuyersOf(sel)  BY <4>6 DEF BuyersOf, Keys, Fibre
      <4>8. QED  BY <4>5, <4>7 DEF Repeaters
    <3>7. IsFiniteSet(Repeaters(sel))
      <4>1. IsFiniteSet(BuyersOf(sel))  BY <3>3, BuyersCounted
      <4>2. Repeaters(sel) \in SUBSET BuyersOf(sel)  BY DEF Repeaters
      <4>3. QED  BY <4>1, <4>2, PartOf
    <3>8. DOMAIN best \in SUBSET Repeaters(sel)  BY <3>6
    <3>9. QED  BY <3>4, <3>7, <3>8, PartOf
  <2>3. ASSUME NEW date \in DatesAsked, NEW rate, rate = RepeatCustomerRate(date), rate # Error
        PROVE  /\ AddsUp(CustomersByCity(date, 1), 1, rate.total)
               /\ AddsUp(CustomersByCity(date, 25), 25, rate.total)
               /\ rate.total + rate.repeat =< CountOrders(None, None, None, date)
    <3>1. PICK sel : sel = Placed(None, None, None, date)  OBVIOUS
    <3>2. sel # Error  BY <2>3, <3>1 DEF RepeatCustomerRate, Answer
    <3>3. rate.total = Cardinality(BuyersOf(sel)) /\ rate.repeat = Cardinality(Repeaters(sel))
      BY <2>3, <3>1, <3>2, RateIs
    <3>4. CountOrders(None, None, None, date) = Cardinality(sel)  BY <3>1, <3>2, CountSelected
    <3>5. IsFiniteSet(sel)  BY <3>1, <3>2, PlacedOrders
    <3>6. Cardinality(BuyersOf(sel)) + Cardinality(Repeaters(sel)) =< Cardinality(sel)
      BY <3>5, BuyersCounted
    <3>7. \A limit \in {1, 25} : AddsUp(CustomersByCity(date, limit), limit, Cardinality(BuyersOf(sel)))
      BY <3>1, <3>2, CitiesAddUp
    <3>8. QED  BY <3>3, <3>4, <3>6, <3>7
  <2>4. QED  BY <2>1, <2>2, <2>3 DEF CustomerToolsAgree
<1>2. QED  BY <1>1, DataKept, PTL

=============================================================================
