---------------------------- MODULE Conversation ----------------------------
(***************************************************************************)
(* What a question means in a conversation: the resolver (classify_turn,   *)
(* resolve), the meta-tool routing of follow-ups in process_question and   *)
(* meta_router, the filter-faithfulness guard, and the state a successful  *)
(* turn leaves behind.  Turns of one conversation are taken one at a time; *)
(* ChatTurns models how they interleave.                                   *)
(*                                                                         *)
(* A question is what the detectors find in it: the filters it names and   *)
(* the words that steer resolution.  A call is a tool, what it is about    *)
(* (the entity of a meta tool), its filters, and the values it compares    *)
(* side by side (states, categories, seller_ids); other arguments, such as *)
(* limits, are left out, and so are payment types: no call here names one. *)
(* Chain plans, which store no state, are left out.                        *)
(***************************************************************************)
EXTENDS Naturals, FiniteSets

\* resolver.OVERLAY_DIMS, the filters the guard looks for
Dims == {"city", "state", "date_token", "status", "category"}

\* meta_schemas: the shapes the model chooses from when meta tools are enabled.
\* (lookup, breakdown, compare and query carry no filter and are left out.)
MetaTools == {"count", "rank", "sum", "list"}

\* the tools meta_router routes these shapes to
Routed == {"count_products", "count_low_reviews", "count_by_category", "count_by_status",
           "count_orders", "top_products", "products_by_rating", "top_categories",
           "top_sellers", "customer_lifetime_value", "get_revenue", "revenue_by_state",
           "revenue_by_category", "revenue_trend", "revenue_by_seller", "revenue_by_payment_type",
           "average_delivery_days", "on_time_delivery_rate", "repeat_customer_rate",
           "seller_concentration", "list_low_reviews", "list_orders", "customer_order_history"}

\* the routed tools that a measure or a grouping selects
Sums == {"get_revenue", "revenue_by_state", "revenue_by_category", "revenue_trend", "revenue_by_seller",
         "revenue_by_payment_type", "average_delivery_days", "on_time_delivery_rate",
         "repeat_customer_rate", "seller_concentration"}

CONSTANTS
    Values,      \* filter values
    None,        \* Python's None
    Tools,       \* registered tools
    Params,      \* the tools whose JSON schema has any parameter
    Supports,    \* the filters in the JSON schema of each tool
    Requires,    \* those without which its handler cannot be called
    Lists,       \* the tools that take a list of values to compare
    SkipStatus,  \* faithfulness._status_skip_tools
    EntityOf,    \* meta_router._OP_ENTITY
    Questions,   \* questions as the detectors see them
    Candidates   \* calls the model may translate a question to

VARIABLES
    meta,   \* settings.meta_tools_enabled
    prior,  \* the resolved call a follow-up inherits from
    shown,  \* the call that produced the last answer
    out     \* the response under way: question, candidate, outcome and final call

vars == <<meta, prior, shown, out>>

Filters == [Dims -> Values \cup {None}]
NoFilters == [d \in Dims |-> None]

Topics == {None, "products", "orders", "reviews", "sellers", "revenue", "customers", "categories",
           "customer_orders"}

\* named: values found per filter; bad: a status-like word that is no status;
\* topic: the entity its nouns signal, "either" when products may be meant as
\* catalog entries or as sales; the rest: words the resolver looks for
QuestionRecords == [named : Filters, bad : BOOLEAN, measure : BOOLEAN, reset : BOOLEAN,
                    deixis : BOOLEAN, blank : BOOLEAN, topic : Topics \cup {"either"}]

\* by: what the measure, grouping or order the model or the words of the
\* question choose selects among the tools of one shape; for the orders of one
\* customer, whether a customer is given
Calls == [op : Tools \cup MetaTools, about : Topics, by : Routed \cup {None},
          args : Filters, listed : SUBSET Values]

ASSUME ConversationConstants ==
    /\ None \notin Values \cup Tools \cup MetaTools \cup Routed
    /\ None \notin Calls
    /\ Tools \cap MetaTools = {}
    /\ Routed \subseteq Tools
    /\ Supports \in [Tools -> SUBSET Dims]
    /\ Requires \in [Tools -> SUBSET Dims]
    /\ \A t \in Tools : Requires[t] \subseteq Supports[t] /\ (t \in Params \/ Supports[t] = {})
    /\ Params \subseteq Tools /\ Lists \subseteq Params /\ SkipStatus \subseteq Tools
    /\ EntityOf \in [Tools -> Topics]
    /\ Questions \subseteq QuestionRecords
    /\ Candidates \subseteq Calls

\* the schemas and handlers of the routed tools
ASSUME RoutedSchemas ==
    /\ Routed \cap Lists = {}
    /\ Requires["count_by_category"] = {"category"} /\ Requires["count_by_status"] = {"status"}
    /\ \A t \in Routed \ {"count_by_category", "count_by_status"} : Requires[t] = {}
    /\ "category" \notin Supports["list_low_reviews"]
    /\ \A c \in Candidates : c.op \in MetaTools => c.listed = {}

Given(args) == {d \in Dims : args[d] # None}
Overlay(args, new) == [d \in Dims |-> IF new[d] # None THEN new[d] ELSE args[d]]
Restricted(args, dims) == [d \in Dims |-> IF d \in dims THEN args[d] ELSE None]

-----------------------------------------------------------------------------
(* resolver.py *)

\* classify_turn.  (A connector changes nothing: with or without one, a
\* question that names a filter and no measure is a follow-up.)
FollowUp(q) ==
    \/ q.blank \/ q.reset
    \/ q.deixis /\ (q.measure \/ Given(q.named) # {})
    \/ ~q.measure /\ Given(q.named) # {}

\* A tool whose schema has no parameter is taken for one no longer registered,
\* as every meta tool is.
HasParams(op) == op \in Params

\* mode: "fresh", "inherited" (from the prior call) or "clarify"
Resolution(mode, call) == [mode |-> mode, call |-> call]

\* the follow-up names a filter the inherited tool cannot apply
Unfilterable(q) == ~q.reset /\ ~ (Given(q.named) \subseteq Supports[prior.op])

\* fault: the overlay is laid under what is inherited
InheritedFirst(q) ==
    [prior EXCEPT !.args = Restricted(Overlay(IF q.reset THEN NoFilters ELSE q.named, prior.args),
                                      Supports[prior.op])]

\* fault: the filters the question does not name are lost
InheritedNamedOnly(q) == [prior EXCEPT !.args = Restricted(q.named, Supports[prior.op])]

\* carried: what of the prior call the question does not overlay.  A reset
\* drops all of it, the compared values too; what the question names is then
\* left to the guard.
Inherited(q) ==
    IF q.reset
      THEN [prior EXCEPT !.args = NoFilters, !.listed = {}]
      ELSE [prior EXCEPT !.args = Restricted(Overlay(prior.args, q.named), Supports[prior.op])]

\* resolve
Resolve(q, c) ==
    CASE ~FollowUp(q) \/ prior = None -> Resolution("fresh", c)
      [] FollowUp(q) /\ prior # None /\ ~HasParams(prior.op) -> Resolution("fresh", c)
      [] FollowUp(q) /\ prior # None /\ HasParams(prior.op) /\ Unfilterable(q) ->
             Resolution("clarify", prior)
      [] OTHER -> Resolution("inherited", Inherited(q))

-----------------------------------------------------------------------------
(* meta_router.py and entity_intent.py *)

\* fault: whatever the nouns signal is the entity
CountAboutTopic(q, c) == IF c.about = None THEN q.topic ELSE c.about

\* apply_entity_intent: what a count is about.  Catalog phrasing overrides
\* orders; without a model's choice the nouns decide, orders by default.
CountAbout(q, c) ==
    CASE c.about = "orders" /\ q.topic = "products" /\ c.args["status"] = None
             /\ c.args["date_token"] = None -> "products"
      [] c.about = None /\ q.topic \in {"products", "reviews"} -> q.topic
      [] c.about = None /\ q.topic = "either" -> None
      [] c.about = None /\ q.topic \notin {"products", "reviews", "either"} -> "orders"
      [] OTHER -> c.about

\* apply_rank_defaults
RankAbout(q, c) ==
    CASE c.about # None -> c.about
      [] c.about = None /\ q.topic = "sellers" -> "sellers"
      [] c.about = None /\ q.topic = "categories" /\ c.args["category"] = None -> "categories"
      [] OTHER -> "products"

\* Any count that is not about products or reviews counts orders.
CountTool(about, args) ==
    CASE about = None -> None
      [] about = "products" -> "count_products"
      [] about = "reviews" -> "count_low_reviews"
      [] OTHER -> IF args["category"] # None THEN "count_by_category"
                  ELSE IF Given(args) \cap {"status", "city", "state"} = {"status"}
                       THEN "count_by_status" ELSE "count_orders"

RankTool(about, by) ==
    CASE about = "products" -> IF by = "products_by_rating" THEN by ELSE "top_products"
      [] about = "categories" -> "top_categories"
      [] about = "sellers" -> "top_sellers"
      [] about = "customers" -> "customer_lifetime_value"
      [] OTHER -> None

\* the orders of a customer need one
ListTool(about, by) ==
    CASE about = "customer_orders" -> IF by = "customer_order_history" THEN by ELSE None
      [] about = "reviews" -> "list_low_reviews"
      [] OTHER -> "list_orders"

\* resolve_meta_call; None where it raises ValueError
Route(q, c) ==
    CASE c.op = "count" -> CountTool(CountAbout(q, c), c.args)
      [] c.op = "rank" -> RankTool(RankAbout(q, c), c.by)
      [] c.op = "sum" -> IF c.by \in Sums THEN c.by ELSE "get_revenue"
      [] c.op = "list" -> ListTool(c.about, c.by)
      [] OTHER -> None

\* _OP_ENTITY.get: nothing for a meta tool's name
Entity(op) == IF op \in Tools THEN EntityOf[op] ELSE None

\* the follow-up would move from what the prior answer was about to another entity
Pivots(q, c) ==
    /\ Entity(prior.op) # None
    /\ Entity(Route(q, c)) # None
    /\ Entity(prior.op) # Entity(Route(q, c))

\* the rewrite of "the last five of those" after an answer about reviews
ThoseReviews ==
    [op |-> "list", about |-> "reviews", by |-> None, listed |-> {},
     args |-> Restricted(prior.args, {"city", "state", "date_token"})]

\* _META_CARRY_KEYS
CarryKeys == {"category", "city", "state", "date_token"}

\* fault: the date is missing from _META_CARRY_KEYS
CarriedUndated(c) ==
    [c EXCEPT !.args = Overlay(Restricted(prior.args, CarryKeys \ {"date_token"}), c.args),
              !.about = IF c.about = None THEN prior.about ELSE c.about]

\* inherit_meta_filters
Carried(c) ==
    [c EXCEPT !.args = Overlay(Restricted(prior.args, CarryKeys), c.args),
              !.about = IF c.about = None THEN prior.about ELSE c.about]

\* process_question with meta tools: a change of shape takes the filters along,
\* the same shape again goes through the resolver
MetaResolve(q, c) ==
    CASE prior = None -> Resolve(q, c)
      [] prior # None /\ c.op = prior.op -> Resolve(q, c)
      [] prior # None /\ c.op # prior.op /\ Pivots(q, c) ->
             IF q.deixis /\ Entity(prior.op) = "reviews"
               THEN Resolution("carried", ThoseReviews) ELSE Resolution("clarify", prior)
      [] OTHER -> Resolution("carried", Carried(c))

Resolved(q, c) == IF meta THEN MetaResolve(q, c) ELSE Resolve(q, c)

-----------------------------------------------------------------------------
(* the rest of process_question *)

\* the call as the next turn's meta_args keep it: a count records its entity
Intent(q, call) ==
    IF meta /\ call.op = "count" THEN [call EXCEPT !.about = CountAbout(q, call)] ELSE call

\* detect_count_ambiguity, when nothing else settles the entity
Ambiguous(q, call) ==
    meta /\ call.op = "count" /\ q.topic = "either" /\ CountAbout(q, call) = None

Routes(q, call) == ~meta \/ Route(q, call) # None

\* what is dispatched: the routed tool with the filters _pick keeps for it
Internal(q, call) ==
    IF meta THEN [call EXCEPT !.op = Route(q, call), !.about = None, !.by = None,
                              !.args = Restricted(call.args, Supports[Route(q, call)])]
            ELSE call

\* check_filter_faithfulness: the filters it looks for.  "delivered" is part of
\* what some metrics mean, and a compared state is no filter.
Looked(q, call) ==
    [d \in Dims |-> IF \/ d = "status" /\ call.op \in SkipStatus
                       \/ d = "state" /\ q.named[d] \in call.listed
                      THEN None ELSE q.named[d]]

\* a named filter the tool cannot apply, or a status that is none; a tool
\* without a schema is not guarded
Unresolved(q, call) ==
    /\ call.op \in Tools
    /\ \/ ~ (Given(Looked(q, call)) \subseteq Supports[call.op])
       \/ q.bad /\ "status" \in Supports[call.op] /\ call.args["status"] = None

\* fault: nothing is filled in
RepairedNever(q, call) == call

\* the filters the call lacks are filled in
Repaired(q, call) ==
    IF call.op \in Tools THEN [call EXCEPT !.args = Overlay(Looked(q, call), call.args)] ELSE call

\* the handler exists and takes exactly these arguments: otherwise KeyError or TypeError
Callable(call) ==
    /\ call.op \in Tools
    /\ Given(call.args) \subseteq Supports[call.op]
    /\ Requires[call.op] \subseteq Given(call.args)
    /\ call.listed # {} <=> call.op \in Lists

\* fault: the arguments are kept as they were before the guard
StoredUnrepaired(q, call) == IF meta THEN Intent(q, call) ELSE call

\* stored_args.  Without meta tools this is the dict the guard repairs in place;
\* with them it is the meta call, which the repairs do not reach.
Stored(q, call) == IF meta THEN Intent(q, call) ELSE Repaired(q, call)

Dispatched(q, call) == Repaired(q, Internal(q, call))

Turn(q, c, end, mode, call) ==
    [q |-> q, c |-> c, end |-> end, mode |-> mode, call |-> call]

Declined(q, c, end) ==
    /\ out' = Turn(q, c, end, Resolved(q, c).mode, Resolved(q, c).call)
    /\ UNCHANGED <<meta, prior, shown>>

Clarify(q, c) ==
    /\ Resolved(q, c).mode = "clarify" \/ Ambiguous(q, Resolved(q, c).call)
    /\ Declined(q, c, "clarify")

Understood(q, c) ==
    Resolved(q, c).mode # "clarify" /\ ~Ambiguous(q, Resolved(q, c).call)

NoRoute(q, c) ==
    /\ Understood(q, c) /\ ~Routes(q, Resolved(q, c).call)
    /\ Declined(q, c, "no route")

Refuse(q, c) ==
    /\ Understood(q, c) /\ Routes(q, Resolved(q, c).call)
    /\ Unresolved(q, Internal(q, Resolved(q, c).call))
    /\ Declined(q, c, "refused")

Passes(q, c) ==
    /\ Understood(q, c) /\ Routes(q, Resolved(q, c).call)
    /\ ~Unresolved(q, Internal(q, Resolved(q, c).call))

\* dispatch_function: the handler cannot be called so
Reject(q, c) ==
    /\ Passes(q, c) /\ ~Callable(Dispatched(q, Resolved(q, c).call))
    /\ Declined(q, c, "rejected")

\* dispatch_function: the query fails or a value is not valid
Fail(q, c) ==
    /\ Passes(q, c) /\ Callable(Dispatched(q, Resolved(q, c).call))
    /\ Declined(q, c, "failed")

Answer(q, c) ==
    LET r == Resolved(q, c)
    IN  /\ Passes(q, c) /\ Callable(Dispatched(q, r.call))
        /\ prior' = Stored(q, r.call)
        /\ shown' = Dispatched(q, r.call)
        /\ out' = Turn(q, c, "answered", r.mode, Dispatched(q, r.call))
        /\ UNCHANGED meta

\* process_question returns
Deliver ==
    /\ out # None
    /\ out' = None
    /\ UNCHANGED <<meta, prior, shown>>

\* The stored state expires, or is lost with an ephemeral session.
Forget ==
    /\ out = None /\ prior # None
    /\ prior' = None /\ shown' = None
    /\ UNCHANGED <<meta, out>>

\* The service restarts with the other setting; a durable session lives on.
Reconfigure ==
    /\ out = None
    /\ meta' = ~meta
    /\ UNCHANGED <<prior, shown, out>>

Init ==
    /\ meta \in BOOLEAN
    /\ prior = None /\ shown = None /\ out = None

\* process_question, once the model has answered
Ask(q, c) ==
    \/ Clarify(q, c) \/ NoRoute(q, c) \/ Refuse(q, c)
    \/ Reject(q, c) \/ Fail(q, c) \/ Answer(q, c)

Next ==
    \/ out = None /\ \E q \in Questions, c \in Candidates : Ask(q, c)
    \/ Deliver
    \/ Forget
    \/ Reconfigure

Spec == Init /\ [][Next]_vars

-----------------------------------------------------------------------------
(* Properties *)

Ends == {"clarify", "no route", "refused", "rejected", "failed", "answered"}
Modes == {"fresh", "inherited", "carried", "clarify"}

\* Types: the state kept between turns (resolver.store_state,
\* messages.resolved_call) is a call that can be dispatched or routed again.
TypeOK ==
    /\ meta \in BOOLEAN
    /\ prior \in Calls \cup {None}
    /\ shown \in Calls \cup {None}
    /\ out \in [q : Questions, c : Candidates, end : Ends, mode : Modes, call : Calls] \cup {None}

Exempt(q, call) ==
    {d \in Dims : \/ d = "status" /\ call.op \in SkipStatus
                  \/ d = "state" /\ q.named[d] \in call.listed}

\* However a turn was resolved, an answer applies every filter its question
\* names, with the value named - unless the model's own call has another, or,
\* when filters are carried to another shape, the previous turn (Conversation's
\* finding NamedBeatsPrior) - and never ignores a word that looks like a status
\* (faithfulness.py: no proxy answer).
AnswerHonoursQuestion ==
    [][out = None /\ out' # None /\ out'.end = "answered" =>
         LET q == out'.q
             applied == out'.call.args
         IN  /\ \A d \in Given(q.named) \ Exempt(q, out'.call) :
                   /\ applied[d] # None
                   /\ \/ applied[d] = q.named[d]
                      \/ out'.mode \in {"fresh", "carried"} /\ applied[d] = out'.c.args[d]
                      \/ out'.mode = "carried" /\ applied[d] = prior.args[d]
             /\ q.bad /\ "status" \in Supports[out'.call.op] => applied["status"] # None]_vars

\* A call built from the prior turn can be made: a follow-up that inherits never
\* has an argument its tool does not take, nor misses one it needs, unless the
\* user reset it; a routed meta call always can (test_context_resolution.py:
\* re-dispatching a carried follow-up never raises TypeError).
InheritedIsCallable ==
    out # None /\ out.end = "rejected" =>
        \/ out.mode = "fresh"
        \/ out.mode = "inherited" /\ out.q.reset

\* A filter of the last answer that a call of another shape takes, and that
\* neither the question nor the model replaces
InScope(d) ==
    /\ d \in CarryKeys \cap Supports[out'.call.op] /\ shown.args[d] # None
    /\ out'.c.args[d] = None /\ out'.q.named[d] = None

\* An inherited answer is the last answer shown with the named filters replaced,
\* and after a reset word with only these: nothing the user saw applied, a
\* repair by the guard included, is dropped.  An answer of another shape keeps
\* every filter in scope that the stored call has.
FollowUpKeepsScope ==
    [][out = None /\ out' # None /\ out'.end = "answered" =>
         /\ out'.mode = "inherited" =>
               /\ out'.call.op = shown.op
               /\ \A d \in Dims \ Exempt(out'.q, out'.call) :
                     out'.call.args[d] = IF out'.q.named[d] # None \/ out'.q.reset
                                           THEN out'.q.named[d] ELSE shown.args[d]
         /\ out'.mode = "carried" =>
               \A d \in Dims : InScope(d) /\ prior.args[d] # None => out'.call.args[d] = shown.args[d]]_vars

\* A follow-up of another shape keeps every filter in scope, those the guard
\* repaired too (orchestrator.py:487-491: what is stored lets a follow-up
\* re-dispatch, and the date is not silently dropped).
FollowUpKeepsRepairs ==
    [][out = None /\ out' # None /\ out'.end = "answered" /\ out'.mode = "carried" =>
         \A d \in Dims : InScope(d) => out'.call.args[d] = shown.args[d]]_vars

\* A filter value that contradicts the one the question names comes from the
\* model's own call, never from the previous turn (faithfulness.py:14-17: what
\* the model dropped is repaired from the question).
NamedBeatsPrior ==
    out # None /\ out.end = "answered" =>
        \A d \in Given(out.q.named) :
            out.call.args[d] \in {None, out.q.named[d], out.c.args[d]}

\* A question about "those" after an answer about reviews is not answered with
\* products or orders (meta_router.py:20-22).
NoSilentPivot ==
    [][out = None /\ out' # None /\ out'.end = "answered" /\ out'.mode = "carried" /\ out'.q.deixis
         /\ shown # None /\ Entity(shown.op) = "reviews" =>
             Entity(out'.call.op) \notin {"products", "orders"}]_vars
=============================================================================
