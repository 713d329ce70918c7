--------------------------- MODULE CustomerTools ---------------------------
(***************************************************************************)
(* The query functions about customers and about review quality, as in     *)
(* OrderTools and SalesTools.  A customer is a customer_id here, not the   *)
(* person behind it (customer_unique_id).                                  *)
(***************************************************************************)
EXTENDS Olist

Buyer(o) == orders[o].customer

\* fault: the orders are counted per payment
LifetimePerPayment(city, state, min_orders, limit) ==
    Answer(Placed(city, state, None, None), LAMBDA sel :
        LET value == Group(PaymentsOf(sel), LAMBDA p : Buyer(p.order),
                           LAMBDA rows : [value |-> Total(rows), orders |-> Cardinality(rows)])
            regular == {c \in DOMAIN value : value[c].orders >= Max({1, min_orders})}
        IN Best(Restrict(value, regular), Clamp(limit, 1, 25),
                LAMBDA a, b : a.value > b.value))

CustomerLifetimeValue(city, state, min_orders, limit) ==
    Answer(Placed(city, state, None, None), LAMBDA sel :
        LET value == Group(PaymentsOf(sel), LAMBDA p : Buyer(p.order),
                           LAMBDA rows : [value |-> Total(rows), orders |-> Orders(rows)])
            regular == {c \in DOMAIN value : value[c].orders >= Max({1, min_orders})}
        IN Best(Restrict(value, regular), Clamp(limit, 1, 25),
                LAMBDA a, b : a.value > b.value))

RepeatCustomerRate(date) ==
    Answer(Placed(None, None, None, date), LAMBDA sel :
        LET count == Group(sel, Buyer, Cardinality)
        IN [total |-> Cardinality(DOMAIN count),
            repeat |-> Cardinality({c \in DOMAIN count : count[c] > 1})])

\* fault: COUNT(*)
OrdersByCity(date, limit) ==
    Answer(Placed(None, None, None, date), LAMBDA sel :
        Best(Group(sel, LAMBDA o : Customers[Buyer(o)].city, Cardinality),
             Clamp(limit, 1, 25), More))

CustomersByCity(date, limit) ==
    Answer(Placed(None, None, None, date), LAMBDA sel :
        Best(Group(sel, LAMBDA o : Customers[Buyer(o)].city,
                   LAMBDA group : Cardinality({Buyer(o) : o \in group})),
             Clamp(limit, 1, 25), More))

CustomerOrderHistory(c, limit, offset) ==
    IF c = None THEN Error
    ELSE LET placed == {o \in DOMAIN orders : Buyer(o) = c}
         IN [total |-> Cardinality(placed),
             paid |-> [o \in placed |-> Total(PaymentsOf({o}))],
             pages |-> Pages(placed, Clamp(limit, 1, 50), Max({0, offset}),
                             LAMBDA x, y : orders[x].purchase > orders[y].purchase)]

FirstPurchase(c) == Min({orders[o].purchase : o \in {x \in DOMAIN orders : Buyer(x) = c}})

\* fault: every customer with an order in the window
BuyersIn(date) == {Buyer(o) : o \in {x \in DOMAIN orders : InWindow(orders[x].purchase, date)}}

\* The customers whose first order ever lies in the window
Cohort(date) == {c \in {Buyer(o) : o \in DOMAIN orders} : InWindow(FirstPurchase(c), date)}

\* By the month of the first order.  The revenue metric joins payments, and so
\* leaves out who paid nothing.
CustomerCohortAnalysis(date, metric) ==
    IF date = None \/ metric \notin {"revenue", "retention"} THEN Error
    ELSE Answer(Placed(None, None, None, date), LAMBDA sel :
        LET cohort == Cohort(date)
            Month(c) == MonthStart(FirstPurchase(c) \div 3)
            theirs == {o \in sel : Buyer(o) \in cohort}
        IN IF metric = "revenue"
           THEN Group(PaymentsOf(theirs), LAMBDA p : Month(Buyer(p.order)),
                      LAMBDA rows : [size |-> Cardinality({Buyer(p.order) : p \in rows}),
                                     revenue |-> Total(rows)])
           ELSE Group(cohort, Month,
                      LAMBDA group : [size |-> Cardinality(group),
                          repeat |-> Cardinality({c \in group :
                              Cardinality({o \in theirs : Buyer(o) = c}) > 1})]))
-----------------------------------------------------------------------------
(* quality_metrics.py *)

\* ROUND(AVG(review_score), 2), in hundredths
Rounded(a) == (200 * a[1] + a[2]) \div (2 * a[2])

\* fault: no DESC
Worse(a, b) == Rounded(a) < Rounded(b) \/ (Rounded(a) = Rounded(b) /\ a[2] > b[2])

\* ORDER BY avg_rating DESC, review_count DESC; avg_rating is the rounded one
Better(a, b) == Rounded(a) > Rounded(b) \/ (Rounded(a) = Rounded(b) /\ a[2] > b[2])

AverageRatingByProduct(category, limit) ==
    Best(Group(Reviewed(Of(Spaced(category), items)), LAMBDA x : x[1].product, Rating),
         Clamp(limit, 1, 25), Better)

AverageRatingBySeller(state, limit) ==
    Best(Group(Reviewed({i \in items : state # None => Sellers[i.seller].state = state}),
               LAMBDA x : x[1].seller, Rating),
         Clamp(limit, 1, 25), Better)

AverageRatingByCategory == Group(Reviewed(items), LAMBDA x : Label(x[1].product), Rating)

\* The date conditions take the parameters $1 and $2, and so do those of
\* resolve_order_filters, whose list starts anew: with both the database
\* refuses the statement.
ParametersClash(date, state, seller) == date # None /\ (state # None \/ seller # None)

\* fault: the items are always joined
DistributionByItem(date, state, seller) ==
    IF ~KnownDate(date) \/ ParametersClash(date, state, seller) THEN Error
    ELSE Answer(Placed(None, state, None, None), LAMBDA sel :
        Group({x \in Reviewed(From_(seller, ItemsOf(sel))) : InWindow(x[2].created, date)},
              LAMBDA x : x[2].score, Cardinality))

\* With a seller the rows counted are items
ReviewScoreDistribution(date, state, seller) ==
    IF ~KnownDate(date) \/ ParametersClash(date, state, seller) THEN Error
    ELSE Answer(Placed(None, state, None, None), LAMBDA sel :
        LET dated == {r \in ReviewsOf(sel) : InWindow(r.created, date)}
        IN IF seller = None THEN Group(dated, LAMBDA r : r.score, Cardinality)
           ELSE Group({x \in Reviewed(From_(seller, items)) : x[2] \in dated},
                      LAMBDA x : x[2].score, Cardinality))

ReviewSentimentTrend(date, granularity) ==
    IF granularity # "month" \/ ~KnownDate(date) THEN Error
    ELSE Group({r \in reviews : InWindow(r.created, date)},
               LAMBDA r : MonthStart(r.created \div 3),
               LAMBDA rows : Average(rows, LAMBDA r : r.score))
=============================================================================
