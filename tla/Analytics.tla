----------------------------- MODULE Analytics -----------------------------
(***************************************************************************)
(* All query functions over one database.  Each writes its own SQL for the *)
(* joins, filters and sums it needs; the properties say where answers that *)
(* the user can put side by side must agree.                               *)
(***************************************************************************)
EXTENDS OrderTools, SalesTools, CustomerTools

CONSTANTS
    DatesAsked, CitiesAsked     \* date_token and city arguments, None among them

ASSUME AnalyticsConstants == None \in DatesAsked /\ None \in CitiesAsked

States == {Customers[c].state : c \in DOMAIN Customers}
Sizes(cohorts) == Sum([month \in DOMAIN cohorts |-> cohorts[month].size])

\* A ranking cut at its limit shows part of the whole; otherwise all of it
AddsUp(rankings, limit, whole) ==
    \A best \in rankings :
        IF Cardinality(DOMAIN best) < limit THEN Sum(best) = whole ELSE Sum(best) =< whole

\* However the user asks how many orders there are, the answer is the same: the
\* count, the total of the listing, the counts by status, by state and of the
\* fulfillment breakdown, and the orders looked up one by one.
CountsAgree ==
    \A date \in DatesAsked, city \in CitiesAsked :
        LET count == CountOrders(city, None, None, date)
        IN /\ \A state \in States \cup {None}, status \in Statuses \cup {None} :
                LET some == ListOrders(city, state, status, date, 50, 0)
                IN IF some = Error THEN CountOrders(city, state, status, date) = Error
                   ELSE some.total = CountOrders(city, state, status, date)
           /\ count # Error =>
                /\ count = Sum([s \in States |-> CountOrders(city, s, None, date)])
                /\ city = None =>
                    /\ count = Sum([s \in Statuses |-> CountByStatus(s, date)])
                    /\ count = Sum(FulfillmentStatusBreakdown(date))
                    /\ date = None => \A s \in Statuses :
                        CountByStatus(s, date) = Cardinality({o \in DOMAIN orders : OrderStatus(o).status = s})

\* What was paid adds up to the same revenue by payment type, month and state,
\* and what was sold by category, seller and seller state: no join loses or
\* repeats a payment or an item.  The orders paid with a type are the same in the
\* breakdown, in its own count and state by state.
RevenueAddsUp ==
    \A date \in DatesAsked :
        LET paid == GetRevenue(None, None, None, None, date)
            sold == SellerConcentration(date)
            types == PaymentTypeBreakdown(date)
        IN paid # Error =>
            /\ paid = Sum(RevenueByPaymentType(date))
            /\ paid = Sum([t \in DOMAIN types |-> types[t].revenue])
            /\ \A t \in DOMAIN types : ValidPaymentType(t) =>
                /\ types[t].orders = CountByPaymentType(t, None, date)
                /\ types[t].orders = Sum([s \in States |-> CountByPaymentType(t, s, date)])
            /\ paid = Sum(RevenueTrend(date, "month"))
            /\ AddsUp(GetRevenue(None, None, None, "month", date), 1000, paid)
            /\ AddsUp(RevenueByState(date), Shown, paid)
            /\ RevenueByState(date) = GetRevenue(None, None, None, "state", date)
            /\ paid = Sum([s \in States |-> GetRevenue(None, s, None, None, date)])
            /\ \A limit \in 1 .. 2 :
                /\ AddsUp(RevenueByCategory(date, limit), limit, sold.total)
                /\ AddsUp(RevenueBySeller(date, None, limit), limit, sold.total)
                /\ RevenueByCategory(date, limit) = TopCategories(date, limit, "revenue")
            /\ AddsUp(GetRevenue(None, None, None, "category", date), Shown, sold.total)
            /\ sold.total = Sum(SellersByState(date, "revenue"))
            /\ sold.total = Sum([s \in DOMAIN Sellers |-> SellerMetrics(s, date).revenue])

\* No order was reviewed twice
OneReviewEach == \A r1, r2 \in reviews : r1.order = r2.order => r1 = r2

\* A ranking of at most 25 says it, unless it has no room left
Says(best, key, value) ==
    IF key \in DOMAIN best THEN best[key] = value ELSE Cardinality(DOMAIN best) >= 25

\* All that is said of a seller is one story: the ranking, the breakdown, the
\* metrics, the comparison and the lookup count the same orders and the same
\* reviews, and the revenue of the comparison and of the lookup is that of the
\* others while no order has a second review.
SellerToolsAgree ==
    \A date \in DatesAsked, s \in DOMAIN Sellers :
        LET metrics == SellerMetrics(s, date)
            compared == SellerComparison(<<s>>, date)
        IN compared # Error =>
            /\ metrics.orders > 0 <=> s \in DOMAIN compared
            /\ s \in DOMAIN compared =>
                /\ compared[s].orders = metrics.orders
                /\ SameAverage(compared[s].rating, metrics.rating)
                /\ OneReviewEach => compared[s].revenue = metrics.revenue
                /\ \A best \in RevenueBySeller(date, Sellers[s].state, 25) : Says(best, s, metrics.revenue)
                /\ \A best \in TopSellers(date, Sellers[s].state, 25, "revenue") : Says(best, s, metrics.revenue)
                /\ \A best \in TopSellers(date, None, 25, "orders") : Says(best, s, metrics.orders)
                /\ date = None => /\ SellerInfo(s).facts = compared[s]
                                  /\ SellerInfo(s).products = metrics.products
            /\ date = None /\ metrics.rating # None =>
                \A best \in AverageRatingBySeller(None, 25) : Says(best, s, metrics.rating)

\* All that is said of a product, a category or a state is one story: the
\* rankings, the comparisons, the lookup, the counts and the catalog name the
\* same orders and products, and the comparisons and the lookup the revenue of
\* the others while no order has a second review.
SalesToolsAgree ==
    /\ \A date \in DatesAsked : SellerConcentration(date) # Error =>
        /\ AddsUp(TopProducts(date, 2, "revenue", None), 2, SellerConcentration(date).total)
        /\ \A text \in DOMAIN Spaces :
            LET compared == CategoryComparison(<<text>>, date)
            IN /\ DOMAIN compared = {} <=> CountByCategory(text, None, None, date) = 0
               /\ \A label \in DOMAIN compared :
                    compared[label].orders =< CountByCategory(text, None, None, date)
               /\ OneReviewEach => Sum([label \in DOMAIN compared |-> compared[label].revenue])
                                     = GetRevenue(None, None, Spaces[text], None, date)
        /\ \A state \in States :
            LET compared == StateComparison(<<state>>, date)
                placed == CountOrders(None, state, None, date)
            IN IF placed = 0 THEN DOMAIN compared = {}
               ELSE /\ DOMAIN compared = {state}
                    /\ compared[state].orders = placed
                    /\ OneReviewEach =>
                        compared[state].revenue = GetRevenue(None, state, None, None, date)
    /\ \A p \in DOMAIN Products :
        LET facts == ProductInfo(p).facts
        IN facts.orders > 0 =>
            /\ OneReviewEach => \A best \in TopProducts(None, 25, "revenue", None) :
                                    Says(best, p, facts.revenue)
            /\ facts.rating # None => \A best \in AverageRatingByProduct(None, 25) :
                                    Says(best, p, facts.rating)
    /\ \A text \in DOMAIN Spaces : \A best \in TopProducts(None, 25, "count", Spaces[text]) :
        Cardinality(DOMAIN best) =< CountProducts(text)

\* All that is said of a customer is one story: the lookup, the history and the
\* ranking by lifetime value name the same orders and payments - the lookup's
\* payments while no order has a second review - the customers counted by city
\* are those of the repeat rate, and who has two orders has them in the count.
CustomerToolsAgree ==
    /\ \A c \in DOMAIN Customers :
        LET history == CustomerOrderHistory(c, 50, 0)
            facts == CustomerInfo(c).facts
        IN /\ facts.orders = history.total
           /\ OneReviewEach => facts.revenue = Sum(history.paid)
           /\ \A best \in CustomerLifetimeValue(None, None, 1, 25) :
                c \in DOMAIN best => /\ best[c].value = Sum(history.paid)
                                     /\ best[c].orders =< history.total
    /\ \A best \in CustomerLifetimeValue(None, None, 2, 25) :
        Cardinality(DOMAIN best) =< RepeatCustomerRate(None).repeat
    /\ \A date \in DatesAsked :
        LET rate == RepeatCustomerRate(date)
        IN rate # Error =>
            /\ AddsUp(CustomersByCity(date, 1), 1, rate.total)
            /\ AddsUp(CustomersByCity(date, 25), 25, rate.total)
            /\ rate.total + rate.repeat =< CountOrders(None, None, None, date)

\* An average exceeds another by less than 0.01
Close(a, b) == 100 * (a[1] * b[2] - b[1] * a[2]) < a[2] * b[2]

\* The reviews counted by score, by month, by product and by category are the
\* same reviews, as often as each was asked to be counted.  The rankings of
\* products by rounded and by exact average differ only in products whose
\* averages are less than a hundredth apart.
RatingsAddUp ==
    /\ \A date \in DatesAsked :
        LET scores == ReviewScoreDistribution(date, None, None)
            trend == ReviewSentimentTrend(date, "month")
        IN scores # Error =>
            /\ \A k \in 1 .. 5 : CountLowReviews(k, None, date) =
                    Sum(Restrict(scores, {s \in DOMAIN scores : s =< k}))
            /\ Sum(scores) = Sum([m \in DOMAIN trend |-> trend[m][2]])
    /\ LET categories == AverageRatingByCategory
       IN \A limit \in {1, 25} : \A products \in AverageRatingByProduct(None, limit) :
            /\ \A best \in ProductsByRating(None, limit, 1, "best") :
                \A p \in DOMAIN best \ DOMAIN products, q \in DOMAIN products \ DOMAIN best :
                    Close(best[p], products[q])
            /\ \A k \in 1 .. 2 :
                AddsUp({[p \in DOMAIN products |-> products[p][k]]}, limit,
                       Sum([c \in DOMAIN categories |-> categories[c][k]]))

\* Who pages through a listing sees each row once, provided no two rows tie on
\* what it is sorted by.
PagesCover ==
    LET Covers(Page(_), rows) ==
            LET numbers == 0 .. Cardinality(rows)
            IN /\ \A n \in numbers : Cardinality(Page(n)) = 1
               /\ UNION {UNION Page(n) : n \in numbers} = rows
               /\ Cardinality(rows) =
                    Sum([n \in numbers |-> Cardinality(UNION Page(n))])
        placed == Placed(None, None, None, None)
        low == LowReviews(placed, 2, None)
    IN \A limit \in 1 .. 2 :
        /\ (\A x, y \in low : <<x.created, x.id>> = <<y.created, y.id>> => x = y) =>
            Covers(LAMBDA n : ListLowReviews(2, None, None, limit, n * limit).pages, low)
        /\ (\A x, y \in placed : orders[x].purchase = orders[y].purchase => x = y) =>
            Covers(LAMBDA n : ListOrders(None, None, None, None, limit, n * limit).pages, placed)

\* Deliveries on time and deliveries late do not overlap, together are no more
\* than the delivered orders, and a longer delay never has more of them.  The
\* average takes every order that has arrived, estimated or not.
DeliveriesConsistent ==
    \A date \in DatesAsked, state \in States \cup {None} :
        LET rate == OnTimeDeliveryRate(state, date)
        IN rate # Error =>
            /\ rate.on_time + LateDeliveries(1, state, date) =< rate.delivered
            /\ rate.delivered =< CountOrders(None, state, "delivered", date)
            /\ LateDeliveries(2, state, date) =< LateDeliveries(1, state, date)
            /\ LET days == AverageDeliveryDays(state, None, None, date)
               IN IF days = None THEN rate.delivered = 0
                  ELSE rate.delivered =< days[2] /\ days[2] =< CountOrders(None, state, "delivered", date)

Windows == {<<"yesterday", "today">>, <<"last_week", "this_week">>,
            <<"last_month", "this_month">>, <<"last_year", "this_year">>}
Named(token) == [token |-> token]
Span(window) == [from |-> TokenRange(window[1], today)[1] \div 3, to |-> today]

\* A window and the one before it split the range they span: no order falls
\* between them or into both.
WindowsTile ==
    \A window \in Windows :
        LET N(date) == CountOrders(None, None, None, date)
        IN N(Named(window[1])) + N(Named(window[2])) = N(Span(window))

\* A customer belongs to one cohort, that of the first order ever: the cohorts of
\* two windows in a row are those of the range they span.  Revenue is told of
\* the same cohorts, without the customers who paid nothing.
CohortsDisjoint ==
    \A window \in Windows :
        LET Size(date, metric) == Sizes(CustomerCohortAnalysis(date, metric))
        IN /\ Size(Named(window[1]), "retention") + Size(Named(window[2]), "retention")
                = Size(Span(window), "retention")
           /\ \A date \in {Named(window[1]), Named(window[2]), Span(window)} :
                Size(date, "revenue") =< Size(date, "retention")
-----------------------------------------------------------------------------
\* count_variants.py:67 describes the category of count_by_category as
\* "Product category in English or Portuguese (required, e.g., 'health_beauty')":
\* a category with revenue has orders.
CategoryToolsAgree ==
    \A text \in DOMAIN Spaces :
        GetRevenue(None, None, text, None, None) > 0 =>
            CountByCategory(text, None, None, None) > 0

=============================================================================
