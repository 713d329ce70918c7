------------------------------- MODULE Olist -------------------------------
(***************************************************************************)
(* The operational database and what the query functions share: tables,    *)
(* joins and aggregates, and the filters of functions/_filters.py.         *)
(*                                                                         *)
(* The data set is imported order by order (external: the application only *)
(* reads it); an order comes with its items, payments and reviews, which   *)
(* foreign keys tie to it.  Texts are taken up to letter case and outer    *)
(* spaces, which every handler strips.                                     *)
(***************************************************************************)
EXTENDS DateRange, Sequences, Functions

CONSTANTS
    None,           \* NULL, an argument not given
    OrderIds,
    Shapes,         \* the orders that may be imported, each with its rows
    Today,          \* the possible settings.reference_date
    Customers,      \* customer_id -> [city, state, person]; person is customer_unique_id
    Sellers,        \* seller_id -> [city, state]
    Products,       \* product_id -> the category in Portuguese, or None
    English,        \* the translation table: Portuguese -> English
    Spaces,         \* a text -> the same text with its underscores made spaces
    Closest,        \* a typed city -> the known city difflib finds closest, or None (external)
    Statuses, PaymentTypes, \* the schema's enums; an empty one takes any value
    Shown,          \* the LIMIT 15 of the breakdowns that take no limit
    Leaders         \* the 10 sellers of seller_concentration

VARIABLES orders, items, payments, reviews, today

vars == <<orders, items, payments, reviews, today>>

ASSUME OlistConstants ==
    /\ Shown \in Nat \ {0} /\ Leaders \in Nat \ {0}
    /\ \A text \in DOMAIN Spaces : Spaces[text] \in DOMAIN Spaces
                                   /\ Spaces[Spaces[text]] = Spaces[text]
    /\ \A p \in DOMAIN Products : Products[p] # None => Products[p] \in DOMAIN Spaces

\* The rows of order_reviews; scores are one to five stars
ReviewRows == [order : OrderIds, id : Int, score : 1..5, created : Int]

\* NULL and an error reply are nothing else
ASSUME Distinct ==
    /\ None \notin {"state", "category", "month"}
    /\ None \notin [token : Tokens] /\ None \notin [from : Int, to : Int]
    /\ None \notin Int \X Int /\ Error \notin Int \X Int /\ \A sel \in SUBSET OrderIds : sel # Error
    /\ Error \notin [total : Nat, pages : SUBSET SUBSET OrderIds]
    /\ \A x \in DOMAIN Sellers \cup DOMAIN Spaces \cup {Customers[c].state : c \in DOMAIN Customers} :
            {x} # Error
    /\ None \notin ReviewRows

\* Every reference date lies in a year that has one before it
ASSUME Calendar ==
    \A day \in Today : day \in Int /\ \E last, this \in YearStarts : last < this /\ this =< day

\* The data set: foreign keys are valid, states and statuses are given, purchases
\* are whole seconds, amounts are not negative, and review ids are ordered.
ASSUME DataSet ==
    /\ IsFiniteSet(DOMAIN Customers) /\ IsFiniteSet(DOMAIN Sellers) /\ IsFiniteSet(Statuses)
    /\ IsFiniteSet(DOMAIN Products)
    /\ None \notin Statuses \cup DOMAIN Sellers \cup DOMAIN Customers \cup DOMAIN Spaces
    /\ None \notin {Customers[c].state : c \in DOMAIN Customers}
    /\ \A shape \in Shapes :
        /\ shape.order.customer \in DOMAIN Customers /\ shape.order.status \in Statuses
        /\ shape.order.purchase \in Int /\ shape.order.purchase % 3 # 2
        /\ \A instant \in {shape.order.delivered, shape.order.estimated} :
                instant # None => instant \in Int
        /\ IsFiniteSet(shape.items) /\ IsFiniteSet(shape.payments)
        /\ \A i \in shape.items :
                i.product \in DOMAIN Products /\ i.seller \in DOMAIN Sellers /\ i.value \in Nat
        /\ \A p \in shape.payments : p.value \in Nat
        /\ IsFiniteSet(shape.reviews)
        /\ \A r \in shape.reviews : r.id \in Int /\ r.score \in 1..5 /\ r.created \in Int

Init ==
    /\ today \in Today
    /\ orders = <<>>
    /\ items = {} /\ payments = {} /\ reviews = {}

Import(o, shape) ==
    /\ o \notin DOMAIN orders
    /\ orders' = [x \in DOMAIN orders \cup {o} |-> IF x = o THEN shape.order ELSE orders[x]]
    /\ items' = items \cup {[order |-> o, item |-> i.item, product |-> i.product,
                             seller |-> i.seller, value |-> i.value] : i \in shape.items}
    /\ payments' = payments \cup {[order |-> o, seq |-> p.seq, type |-> p.type,
                                   value |-> p.value] : p \in shape.payments}
    /\ reviews' = reviews \cup {[order |-> o, id |-> r.id, score |-> r.score,
                                 created |-> r.created] : r \in shape.reviews}
    /\ UNCHANGED today

Next == \E o \in OrderIds, shape \in Shapes : Import(o, shape)

Spec == Init /\ [][Next]_vars
-----------------------------------------------------------------------------
(* Filters *)

\* A date_token: whether parse_date_range takes it, and what it lets through
KnownDate(date) == date # None => DateRange(date, today) # Error
InWindow(instant, date) == date # None => Within(instant, DateRange(date, today))

ResolveCity(city) ==
    IF city \in {Customers[c].city : c \in DOMAIN Customers} THEN city ELSE Closest[city]

ValidStatus(status) == Statuses = {} \/ status \in Statuses
ValidPaymentType(type) == type # None /\ (PaymentTypes = {} \/ type \in PaymentTypes)

\* resolve_order_filters and its copies: Error when a value is not one the
\* database or the schema knows
Placed(city, state, status, date) ==
    IF \/ city # None /\ ResolveCity(city) = None
       \/ status # None /\ ~ValidStatus(status)
       \/ ~KnownDate(date)
      THEN Error
      ELSE {o \in DOMAIN orders :
              LET customer == Customers[orders[o].customer]
              IN /\ city # None => customer.city = ResolveCity(city)
                 /\ state # None => customer.state = state
                 /\ status # None => orders[o].status = status
                 /\ InWindow(orders[o].purchase, date)}

\* An error reply is passed on, anything else is worked out from the selection
Answer(sel, Of(_)) == IF sel = Error THEN Error ELSE Of(sel)

EnglishOf(pt) == IF pt \in DOMAIN English THEN English[pt] ELSE None

\* COALESCE(english, portuguese)
Label(product) ==
    LET pt == Products[product] IN IF EnglishOf(pt) # None THEN EnglishOf(pt) ELSE pt

\* english = $i OR portuguese = $j; never true of NULL
InCategory(product, text) ==
    Products[product] # None /\ text \in {EnglishOf(Products[product]), Products[product]}

AsTyped(text) == text
Spaced(text) == IF text = None THEN None ELSE Spaces[text]

Clamp(n, least, most) == Max({least, Min({most, n})})
-----------------------------------------------------------------------------
(* Joins and aggregates *)

ItemsOf(sel) == {i \in items : i.order \in sel}
PaymentsOf(sel) == {p \in payments : p.order \in sel}
ReviewsOf(sel) == {r \in reviews : r.order \in sel}

Of(category, rows) == IF category = None THEN rows
                      ELSE {i \in rows : InCategory(i.product, category)}
From_(seller, rows) == IF seller = None THEN rows ELSE {i \in rows : i.seller = seller}
By(type, rows) == IF type = None THEN rows ELSE {p \in rows : p.type = type}

\* Rows joined to the reviews of their order: one row for each pair
Reviewed(rows) == {x \in rows \X reviews : x[1].order = x[2].order}

\* LEFT JOIN: a row of an order without review stays, once
LeftReviewed(rows) ==
    Reviewed(rows) \cup {<<x, None>> : x \in {y \in rows : \A r \in reviews : r.order # y.order}}

\* orders LEFT JOIN payments: an order without payment stays, and adds nothing
LeftPaid(sel) ==
    PaymentsOf(sel) \cup {[order |-> o, value |-> 0] :
                              o \in {x \in sel : \A p \in payments : p.order # x}}

\* SUM(price + freight_value) of items, SUM(payment_value) of payments
Sum(f) == FoldFunction(+, 0, f)
Total(rows) == Sum([r \in rows |-> r.value])
Orders(rows) == Cardinality({r.order : r \in rows})          \* COUNT(DISTINCT order_id)

\* AVG as the sum and the count it is the quotient of; None over no rows
Average(rows, Value(_)) ==
    IF rows = {} THEN None ELSE <<Sum([r \in rows |-> Value(r)]), Cardinality(rows)>>
Rating(pairs) == Average({x \in pairs : x[2] # None}, LAMBDA x : x[2].score)
Higher(a, b) == a[1] * b[2] > b[1] * a[2]
SameAverage(a, b) == IF None \in {a, b} THEN a = b ELSE a[1] * b[2] = b[1] * a[2]

CustomerState(o) == Customers[orders[o].customer].state
MonthOf(o) == MonthStart(orders[o].purchase \div 3)          \* date_trunc('month', purchase)

\* GROUP BY: what Agg makes of the rows of each key
Group(rows, Key(_), Agg(_)) ==
    [k \in {Key(r) : r \in rows} |-> Agg({r \in rows : Key(r) = k})]

\* ORDER BY ... LIMIT n over groups: every answer the ties allow
Best(groups, n, Above(_, _)) ==
    {Restrict(groups, kept) : kept \in
        {K \in kSubset(Min({n, Cardinality(DOMAIN groups)}), DOMAIN groups) :
            \A k \in K, j \in DOMAIN groups \ K : ~Above(groups[j], groups[k])}}
More(a, b) == a > b

\* ORDER BY ... LIMIT n OFFSET m over rows: every set of rows the ties allow
Pages(rows, limit, offset, Before(_, _)) ==
    {page \in kSubset(Max({0, Min({limit, Cardinality(rows) - offset})}), rows) :
        \E earlier \in kSubset(Min({offset, Cardinality(rows)}), rows \ page) :
            LET later == rows \ (page \cup earlier)
            IN /\ \A x \in page \cup later, y \in earlier : ~Before(x, y)
               /\ \A x \in later, y \in page : ~Before(x, y)}
=============================================================================
