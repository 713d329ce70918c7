--------------------------- MODULE MCConversation ---------------------------
EXTENDS Conversation
CONSTANTS v1, v2

MCTools == Routed \cup {"state_comparison", "average_rating_by_category"}

MCSupports == [t \in MCTools |->
    CASE t \in {"count_orders", "list_orders"} -> {"city", "state", "date_token", "status"}
      [] t = "get_revenue" -> {"city", "state", "date_token", "category"}
      [] t \in {"count_low_reviews", "list_low_reviews"} -> {"city", "date_token"}
      [] t \in {"count_products", "products_by_rating"} -> {"category"}
      [] t \in {"count_by_category", "average_delivery_days"} -> {"category", "date_token", "state"}
      [] t = "count_by_status" -> {"status", "date_token"}
      [] t = "top_products" -> {"category", "date_token"}
      [] t \in {"top_categories", "revenue_by_state", "revenue_by_category", "revenue_trend",
                "revenue_by_payment_type", "repeat_customer_rate", "seller_concentration",
                "state_comparison"} -> {"date_token"}
      [] t \in {"top_sellers", "revenue_by_seller", "on_time_delivery_rate"} -> {"date_token", "state"}
      [] t = "customer_lifetime_value" -> {"city", "state"}
      [] OTHER -> {}]

MCValues == {v1, v2}
MCLists == {"state_comparison"}
MCParams == MCTools \ {"average_rating_by_category"}
MCSkipStatus == {"average_delivery_days", "on_time_delivery_rate"}

MCRequires == [t \in MCTools |->
    CASE t = "count_by_category" -> {"category"}
      [] t = "count_by_status" -> {"status"}
      [] OTHER -> {}]

MCEntityOf == [t \in MCTools |->
    CASE t \in {"count_low_reviews", "list_low_reviews", "products_by_rating",
                "average_rating_by_category"} -> "reviews"
      [] t \in {"count_orders", "count_by_status", "count_by_category", "list_orders",
                "average_delivery_days", "on_time_delivery_rate", "customer_order_history"} -> "orders"
      [] t \in {"count_products", "top_products", "top_categories"} -> "products"
      [] t \in {"get_revenue", "revenue_by_state", "revenue_by_category", "revenue_trend",
                "revenue_by_seller", "revenue_by_payment_type"} -> "revenue"
      [] t \in {"top_sellers", "seller_concentration"} -> "sellers"
      [] t \in {"customer_lifetime_value", "repeat_customer_rate"} -> "customers"
      [] OTHER -> None]

Named(dims, v) == [d \in Dims |-> IF d \in dims THEN v ELSE None]
Asked == [named |-> NoFilters, bad |-> FALSE, measure |-> FALSE, reset |-> FALSE,
          deixis |-> FALSE, blank |-> FALSE, topic |-> None]

MCQuestions ==
         \* fragments: "for Rio?", "canceled ones?"
    {[Asked EXCEPT !.named = Named({d}, v1)] : d \in Dims}
    \cup {[Asked EXCEPT !.named = Named({"city"}, v2)]}
         \* self-contained questions
    \cup {[Asked EXCEPT !.measure = TRUE, !.topic = t] : t \in {"orders", "reviews", "either"}}
    \cup {[Asked EXCEPT !.measure = TRUE, !.named = Named({d}, v1)] : d \in {"state", "category"}}
    \cup {[Asked EXCEPT !.measure = TRUE, !.bad = TRUE]}
         \* "overall", "total canceled orders", "which of those", "top sellers"
    \cup {[Asked EXCEPT !.reset = TRUE, !.named = Named(ds, v1)] : ds \in {{}, {"status"}}}
    \cup {[Asked EXCEPT !.deixis = TRUE, !.measure = TRUE],
          [Asked EXCEPT !.topic = "sellers"]}

Call(op, about, dims) ==
    [op |-> op, about |-> about, by |-> None, args |-> Named(dims, v1), listed |-> {}]

MCCandidates ==
    {Call("count_orders", None, ds) : ds \in {{}, {"city"}, {"state", "date_token"}}}
    \cup {Call("count_low_reviews", None, {}), Call("average_rating_by_category", None, {}),
          Call("count_by_status", None, {"status"}), Call("count_by_status", None, {}),
          [Call("state_comparison", None, {}) EXCEPT !.listed = {v1, v2}]}
    \cup {Call("count", about, {}) : about \in {None, "orders", "reviews"}}
    \cup {Call("count", "orders", {"city"}), Call("rank", None, {"category"}),
          Call("sum", None, {}),
          [Call("sum", None, {}) EXCEPT !.by = "revenue_by_state"],
          [Call("sum", None, {}) EXCEPT !.by = "on_time_delivery_rate"],
          Call("list", "customer_orders", {}),
          [Call("list", "customer_orders", {}) EXCEPT !.by = "customer_order_history"],
          Call("list", None, {"status"}), Call("list", "reviews", {})}
=============================================================================
