----------------------------- MODULE OrderTools -----------------------------
(***************************************************************************)
(* The query functions about orders and their reviews: counts, listings    *)
(* with pages, delivery.  An operator is a handler: its parameters are the *)
(* handler's, None where the caller gives nothing, and its value is what   *)
(* the reply says, rounding and echoed filters apart.                      *)
(***************************************************************************)
EXTENDS Olist

CountOrders(city, state, status, date) ==
    Answer(Placed(city, state, status, date), Cardinality)

Newer(x, y) == orders[x].purchase > orders[y].purchase

\* The total and the pages that may be shown: orders placed at the same
\* instant come in no particular order.
ListOrders(city, state, status, date, limit, offset) ==
    Answer(Placed(city, state, status, date), LAMBDA sel :
        [total |-> Cardinality(sel),
         pages |-> Pages(sel, Clamp(limit, 1, 50), Max({0, offset}), Newer)])

OrderStatus(o) ==
    IF o \notin DOMAIN orders THEN Error
    ELSE [city |-> Customers[orders[o].customer].city, state |-> CustomerState(o),
          status |-> orders[o].status, purchase |-> orders[o].purchase,
          estimated |-> orders[o].estimated, delivered |-> orders[o].delivered]

\* fault: the date is left out
CountAnyDate(status, date) ==
    IF status = None THEN Error ELSE CountOrders(None, None, status, None)

CountByStatus(status, date) ==
    IF status = None THEN Error ELSE CountOrders(None, None, status, date)

CountByPaymentType(type, state, date) ==
    IF ~ValidPaymentType(type) THEN Error
    ELSE Answer(Placed(None, state, None, date), LAMBDA sel : Orders(By(type, PaymentsOf(sel))))

\* fault: the underscores stay
CountAsTyped(category, state, seller, date) ==
    IF category = None THEN Error
    ELSE Answer(Placed(None, state, None, date), LAMBDA sel :
            Orders(Of(AsTyped(category), From_(seller, ItemsOf(sel)))))

CountByCategory(category, state, seller, date) ==
    IF category = None THEN Error
    ELSE Answer(Placed(None, state, None, date), LAMBDA sel :
            Orders(Of(Spaced(category), From_(seller, ItemsOf(sel)))))
-----------------------------------------------------------------------------
(* Reviews.  Their dates are those of the review, not of the order. *)

OfCity(city, date) == IF ~KnownDate(date) THEN Error ELSE Placed(city, None, None, None)

LowReviews(sel, score, date) ==
    {r \in ReviewsOf(sel) : r.score =< Clamp(score, 1, 5) /\ InWindow(r.created, date)}

CountLowReviews(score, city, date) ==
    Answer(OfCity(city, date), LAMBDA sel : Cardinality(LowReviews(sel, score, date)))

\* fault: reviews of the same instant in no order
NewerOrSame(x, y) == x.created > y.created

\* ORDER BY review_creation_date DESC, review_id DESC
Latest(x, y) == x.created > y.created \/ (x.created = y.created /\ x.id > y.id)

ListLowReviews(score, city, date, limit, offset) ==
    Answer(OfCity(city, date), LAMBDA sel :
        LET rows == LowReviews(sel, score, date)
        IN [total |-> Cardinality(rows),
            pages |-> Pages(rows, Clamp(limit, 1, 50), Max({0, offset}), Latest)])
-----------------------------------------------------------------------------
(* Delivery *)

\* fault: any order that has a delivery date
DeliveredOrNot(state, date) == Placed(None, state, None, date)

Delivered(state, date) == Placed(None, state, "delivered", date)

\* _delivered_date_conditions
Timed(sel) == {o \in sel : orders[o].delivered # None /\ orders[o].estimated # None}

OnTimeDeliveryRate(state, date) ==
    Answer(Delivered(state, date), LAMBDA sel :
        [on_time |-> Cardinality({o \in Timed(sel) : orders[o].delivered =< orders[o].estimated}),
         delivered |-> Cardinality(Timed(sel))])

LateDeliveries(days, state, date) ==
    Answer(Delivered(state, date), LAMBDA sel :
        Cardinality({o \in Timed(sel) :
            orders[o].delivered > orders[o].estimated + 3 * Clamp(days, 1, 365)}))

Duration(o) == orders[o].delivered - orders[o].purchase

\* With a category or a seller the rows averaged are items, so an order counts
\* once for each of its items.
AverageDeliveryDays(state, category, seller, date) ==
    Answer(Delivered(state, date), LAMBDA sel :
        LET arrived == {o \in sel : orders[o].delivered # None}
            sold == From_(seller, ItemsOf(arrived))
        IN IF category = None /\ seller = None THEN Average(arrived, Duration)
           ELSE Average(IF category = None THEN sold ELSE Of(Spaced(category), sold),
                        LAMBDA i : Duration(i.order)))

FulfillmentStatusBreakdown(date) ==
    Answer(Placed(None, None, None, date), LAMBDA sel :
        Group(sel, LAMBDA o : orders[o].status, Cardinality))
=============================================================================
