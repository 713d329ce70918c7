----------------------------- MODULE SalesTools -----------------------------
(***************************************************************************)
(* The query functions about revenue, products and sellers.  As in         *)
(* OrderTools an operator is a handler.  A ranking with a limit is the set *)
(* of all breakdowns the ties allow.                                       *)
(***************************************************************************)
EXTENDS Olist

All(date) == Placed(None, None, None, date)
Top(limit) == Clamp(limit, 1, 25)       \* clamp_limit

SellerState(i) == Sellers[i.seller].state
\* fault: the state is the customer's
InCustomerState(state, rows) ==
    IF state = None THEN rows ELSE {i \in rows : CustomerState(i.order) = state}

InSellerState(state, rows) ==
    IF state = None THEN rows ELSE {i \in rows : SellerState(i) = state}

\* With a category revenue is that of the items, otherwise what was paid
GetRevenue(city, state, category, group_by, date) ==
    IF group_by \notin {None, "state", "category", "month"} THEN Error
    ELSE Answer(Placed(city, state, None, date), LAMBDA sel :
        LET rows == IF category # None \/ group_by = "category"
                    THEN Of(AsTyped(category), ItemsOf(sel)) ELSE PaymentsOf(sel)
        IN CASE group_by = None -> Total(rows)
             [] group_by = "state" ->
                    Best(Group(rows, LAMBDA r : CustomerState(r.order), Total), Shown, More)
             [] group_by = "category" ->
                    Best(Group(rows, LAMBDA r : Label(r.product), Total), Shown, More)
             [] OTHER -> {Group(rows, LAMBDA r : MonthOf(r.order), Total)})

Measure(by, rows) == CASE by = "revenue" -> Total(rows)
                       [] by = "count"   -> Cardinality(rows)
                       [] by = "orders"  -> Orders(rows)

\* Items by a key, ranked by a measure
Ranking(rows, Key(_), by, limit) ==
    Best(Group(rows, Key, LAMBDA group : Measure(by, group)), limit, More)

TopProducts(date, limit, by, category) ==
    IF by \notin {"count", "revenue"} THEN Error
    ELSE Answer(All(date), LAMBDA sel :
        Ranking(Of(AsTyped(category), ItemsOf(sel)), LAMBDA i : i.product, by, Top(limit)))

TopCategories(date, limit, by) ==
    IF by \notin {"count", "revenue"} THEN Error
    ELSE Answer(All(date), LAMBDA sel :
        Ranking(ItemsOf(sel), LAMBDA i : Label(i.product), by, Top(limit)))

\* review_count counts an order's review once for each of its items of the product
ProductsByRating(category, limit, min_reviews, sort) ==
    IF sort \notin {"best", "worst"} THEN Error
    ELSE LET rated == Group(Reviewed(Of(AsTyped(category), items)), LAMBDA x : x[1].product, Rating)
             enough == {p \in DOMAIN rated : rated[p][2] >= Clamp(min_reviews, 1, 100)}
         IN Best(Restrict(rated, enough), Top(limit),
                 LAMBDA a, b : IF sort = "best" THEN Higher(a, b) ELSE Higher(b, a))

\* The catalog, whatever was sold
CountProducts(category) ==
    Cardinality({p \in DOMAIN Products : category = None \/ InCategory(p, Spaced(category))})
-----------------------------------------------------------------------------
(* revenue_breakdowns.py *)

RevenueByState(date) ==
    Answer(All(date), LAMBDA sel :
        Best(Group(PaymentsOf(sel), LAMBDA p : CustomerState(p.order), Total), Shown, More))

RevenueByCategory(date, limit) ==
    Answer(All(date), LAMBDA sel :
        Ranking(ItemsOf(sel), LAMBDA i : Label(i.product), "revenue", Top(limit)))

RevenueBySeller(date, state, limit) ==
    Answer(All(date), LAMBDA sel :
        Ranking(InSellerState(state, ItemsOf(sel)), LAMBDA i : i.seller, "revenue", Top(limit)))

\* fault: joining the items repeats a payment for each of them
PaymentsPerItem(date) ==
    Answer(All(date), LAMBDA sel :
        Group({x \in PaymentsOf(sel) \X items : x[1].order = x[2].order}, LAMBDA x : x[1].type,
              LAMBDA pairs : Sum([x \in pairs |-> x[1].value])))

RevenueByPaymentType(date) ==
    Answer(All(date), LAMBDA sel : Group(PaymentsOf(sel), LAMBDA p : p.type, Total))

RevenueTrend(date, granularity) ==
    IF granularity # "month" THEN Error
    ELSE Answer(All(date), LAMBDA sel :
            Group(PaymentsOf(sel), LAMBDA p : MonthOf(p.order), Total))
-----------------------------------------------------------------------------
(* seller_analytics.py *)

TopSellers(date, state, limit, by) ==
    IF by \notin {"revenue", "orders"} THEN Error
    ELSE Answer(All(date), LAMBDA sel :
        Ranking(InSellerState(state, ItemsOf(sel)), LAMBDA i : i.seller, by, Top(limit)))

\* Five queries over the seller's items; a review counts once for each item
SellerMetrics(seller, date) ==
    Answer(All(date), LAMBDA sel :
        LET sold == From_(seller, ItemsOf(sel))
        IN [orders |-> Orders(sold), revenue |-> Total(sold),
            products |-> Cardinality({i.product : i \in sold}),
            rating |-> Rating(Reviewed(sold)),
            cities |-> Cardinality({Customers[orders[i.order].customer].city : i \in sold})])

SellerConcentration(date) ==
    Answer(All(date), LAMBDA sel :
        LET revenue == Group(ItemsOf(sel), LAMBDA i : i.seller, Total)
            leaders == CHOOSE best \in Best(revenue, Leaders, More) : TRUE
        IN [top |-> Sum(leaders), sellers |-> Cardinality(DOMAIN revenue),
            total |-> Sum(revenue)])

SellersByState(date, by) ==
    IF by \notin {"revenue", "orders"} THEN Error
    ELSE Answer(All(date), LAMBDA sel :
        Group(ItemsOf(sel), SellerState, LAMBDA group : Measure(by, group)))
-----------------------------------------------------------------------------
(* comparative.py and entity_lookups.py: rows LEFT JOIN reviews, so that   *)
(* what a row is worth is added once for each review of its order.         *)

ComparedList(list) ==
    LET given == {n \in DOMAIN list : list[n] # None}
    IN IF Cardinality(given) \in 1 .. 5 THEN {list[n] : n \in given} ELSE Error

Facts(pairs) ==
    [orders |-> Orders({x[1] : x \in pairs}),
     revenue |-> Sum([x \in pairs |-> x[1].value]), rating |-> Rating(pairs)]

SellerComparison(sellers, date) ==
    Answer(ComparedList(sellers), LAMBDA named : Answer(All(date), LAMBDA sel :
        Group(LeftReviewed({i \in ItemsOf(sel) : i.seller \in named}),
              LAMBDA x : x[1].seller, Facts)))

\* fault: an inner join loses the items of orders without review
ComparedReviewed(categories, date) ==
    Answer(ComparedList(categories), LAMBDA named : Answer(All(date), LAMBDA sel :
        Group(Reviewed(UNION {Of(Spaced(c), ItemsOf(sel)) : c \in named}),
              LAMBDA x : Label(x[1].product), Facts)))

CategoryComparison(categories, date) ==
    Answer(ComparedList(categories), LAMBDA named : Answer(All(date), LAMBDA sel :
        Group(LeftReviewed(UNION {Of(Spaced(c), ItemsOf(sel)) : c \in named}),
              LAMBDA x : Label(x[1].product), Facts)))

StateComparison(states, date) ==
    Answer(ComparedList(states), LAMBDA named : Answer(All(date), LAMBDA sel :
        Group(LeftReviewed(LeftPaid({o \in sel : CustomerState(o) \in named})),
              LAMBDA x : CustomerState(x[1].order), Facts)))

PaymentTypeBreakdown(date) ==
    Answer(All(date), LAMBDA sel :
        Group(PaymentsOf(sel), LAMBDA p : p.type,
              LAMBDA rows : [orders |-> Orders(rows), revenue |-> Total(rows)]))

CustomerInfo(c) ==
    IF c \notin DOMAIN Customers THEN Error
    ELSE [city |-> Customers[c].city, state |-> Customers[c].state,
          facts |-> Facts(LeftReviewed(LeftPaid({o \in DOMAIN orders : orders[o].customer = c})))]

ProductInfo(p) ==
    IF p \notin DOMAIN Products THEN Error
    ELSE [category |-> Label(p),
          facts |-> Facts(LeftReviewed({i \in items : i.product = p}))]

SellerInfo(s) ==
    IF s \notin DOMAIN Sellers THEN Error
    ELSE LET sold == From_(s, items)
         IN [city |-> Sellers[s].city, state |-> Sellers[s].state,
             products |-> Cardinality({i.product : i \in sold}),
             facts |-> Facts(LeftReviewed(sold))]
=============================================================================
