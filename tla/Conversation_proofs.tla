------------------------- MODULE Conversation_proofs -------------------------
(***************************************************************************)
(* Theorems about Conversation, for every registry of tools, every set of  *)
(* questions and every behaviour of the model.                             *)
(*                                                                         *)
(* The typing of a resolved call comes first, then TypeOK.  The follow-up  *)
(* theorems rest on PriorShown: while the stored call is an internal one,  *)
(* it is exactly the call that produced the last answer and its handler    *)
(* takes its arguments; a stored meta call agrees with that answer where   *)
(* both have a filter.                                                     *)
(***************************************************************************)
EXTENDS Conversation, TLAPS

\* Filters are closed under the two operations on them.
LEMMA FilterOps ==
    ASSUME NEW a \in Filters, NEW b \in Filters, NEW D
    PROVE  /\ Overlay(a, b) \in Filters
           /\ Restricted(a, D) \in Filters
           /\ NoFilters \in Filters
  BY DEF Filters, Overlay, Restricted, NoFilters

\* Replacing fields of a call by values of their type leaves a call.
LEMMA CallUpdates ==
    ASSUME NEW call \in Calls, NEW a \in Filters, NEW t \in Tools \cup MetaTools,
           NEW e \in Topics
    PROVE  /\ [call EXCEPT !.args = a] \in Calls
           /\ [call EXCEPT !.about = e] \in Calls
           /\ [call EXCEPT !.args = a, !.listed = {}] \in Calls
           /\ [call EXCEPT !.args = a, !.about = e] \in Calls
           /\ [call EXCEPT !.op = t, !.about = None, !.by = None, !.args = a] \in Calls
  BY DEF Calls, Topics

\* What the resolver carries on is a call.
LEMMA InheritedType ==
    ASSUME prior \in Calls, NEW q \in QuestionRecords
    PROVE  Inherited(q) \in Calls
  <1>1. prior.args \in Filters /\ q.named \in Filters
    BY DEF Calls, QuestionRecords
  <1>2. NoFilters \in Filters /\ Restricted(Overlay(prior.args, q.named), Supports[prior.op]) \in Filters
    BY <1>1, FilterOps
  <1>3. "orders" \in Topics /\ "count" \in Tools \cup MetaTools
    BY DEF Topics, MetaTools
  <1>. QED  BY <1>2, <1>3, CallUpdates DEF Inherited

Resolutions == [mode : Modes, call : Calls]

LEMMA ResolveType ==
    ASSUME prior \in Calls \cup {None}, NEW q \in QuestionRecords, NEW c \in Calls
    PROVE  Resolve(q, c) \in Resolutions
  <1>1. prior # None => prior \in Calls /\ Inherited(q) \in Calls
    BY InheritedType
  <1>2. Resolve(q, c) \in {Resolution("fresh", c), Resolution("clarify", prior),
                           Resolution("inherited", Inherited(q))}
    BY DEF Resolve
  <1>3. CASE prior = None
    BY <1>3, <1>1 DEF Resolve, Resolution, Resolutions, Modes
  <1>4. CASE prior # None
    BY <1>1, <1>2, <1>4 DEF Resolution, Resolutions, Modes
  <1>. QED  BY <1>3, <1>4

LEMMA RouteType ==
    ASSUME NEW q \in QuestionRecords, NEW c \in Calls
    PROVE  /\ Route(q, c) \in Routed \cup {None}
           /\ Route(q, c) # None => c.op \in MetaTools
  <1>1. CountTool(CountAbout(q, c), c.args) \in Routed \cup {None}
    BY DEF CountTool, Routed
  <1>2. RankTool(RankAbout(q, c), c.by) \in Routed \cup {None}
    BY DEF RankTool, Routed
  <1>3. c.op = "sum" => Route(q, c) \in Routed
    BY DEF Route, Sums, Routed
  <1>4. ListTool(c.about, c.by) \in Routed \cup {None}
    BY DEF ListTool, Routed
  <1>. QED  BY <1>1, <1>2, <1>3, <1>4 DEF Route, MetaTools

LEMMA CarriedType ==
    ASSUME prior \in Calls, NEW c \in Calls
    PROVE  Carried(c) \in Calls /\ ThoseReviews \in Calls
  <1>1. prior.args \in Filters /\ c.args \in Filters /\ prior.about \in Topics /\ c.about \in Topics
    BY DEF Calls
  <1>2. Restricted(prior.args, CarryKeys) \in Filters
    BY <1>1, FilterOps
  <1>3. Overlay(Restricted(prior.args, CarryKeys), c.args) \in Filters
    BY <1>1, <1>2, FilterOps
  <1>4. (IF c.about = None THEN prior.about ELSE c.about) \in Topics
    BY <1>1
  <1>5. "count" \in Tools \cup MetaTools
    BY DEF MetaTools
  <1>6. Carried(c) \in Calls
    BY <1>3, <1>4, <1>5, CallUpdates DEF Carried
  <1>7. Restricted(prior.args, {"city", "state", "date_token"}) \in Filters
    BY <1>1, FilterOps
  <1>8. ThoseReviews \in Calls
    BY <1>7 DEF ThoseReviews, Calls, Topics, MetaTools
  <1>. QED  BY <1>6, <1>8

\* However a turn is resolved, the result is a call.
LEMMA ResolvedType ==
    ASSUME TypeOK, NEW q \in Questions, NEW c \in Candidates
    PROVE  /\ q \in QuestionRecords /\ c \in Calls
           /\ Resolved(q, c) \in Resolutions
  <1>1. q \in QuestionRecords /\ c \in Calls /\ prior \in Calls \cup {None}
    BY ConversationConstants DEF TypeOK
  <1>2. Resolve(q, c) \in Resolutions
    BY <1>1, ResolveType
  <1>3. prior # None => prior \in Calls /\ Carried(c) \in Calls /\ ThoseReviews \in Calls
    BY <1>1, CarriedType
  <1>4. prior # None => \A m \in Modes : /\ Resolution(m, Carried(c)) \in Resolutions
                                         /\ Resolution(m, ThoseReviews) \in Resolutions
                                         /\ Resolution(m, prior) \in Resolutions
    BY <1>3 DEF Resolution, Resolutions
  <1>5. MetaResolve(q, c) \in Resolutions
    <2>1. CASE prior = None
      BY <1>2, <2>1 DEF MetaResolve
    <2>2. CASE prior # None /\ c.op = prior.op
      BY <1>2, <2>2 DEF MetaResolve
    <2>3. CASE prior # None /\ c.op # prior.op /\ Pivots(q, c)
      BY <1>4, <2>3 DEF MetaResolve, Modes
    <2>4. CASE prior # None /\ c.op # prior.op /\ ~Pivots(q, c)
      BY <1>4, <2>4 DEF MetaResolve, Modes
    <2>. QED  BY <2>1, <2>2, <2>3, <2>4
  <1>. QED  BY <1>1, <1>2, <1>5 DEF Resolved

\* The dispatched call and the stored call are calls.
LEMMA DispatchedType ==
    ASSUME NEW q \in QuestionRecords, NEW call \in Calls, Routes(q, call)
    PROVE  /\ Internal(q, call) \in Calls
           /\ Dispatched(q, call) \in Calls
           /\ Stored(q, call) \in Calls
  <1>1. meta => Route(q, call) \in Tools \cup MetaTools
    BY RouteType, ConversationConstants DEF Routes
  <1>2. call.args \in Filters /\ q.named \in Filters /\ None \in Topics /\ call.about \in Topics
    BY DEF Calls, QuestionRecords, Topics
  <1>3. Restricted(call.args, Supports[Route(q, call)]) \in Filters
    BY <1>2, FilterOps
  <1>4. Internal(q, call) \in Calls
    BY <1>1, <1>2, <1>3, CallUpdates DEF Internal
  <1>5. ASSUME NEW d \in Calls PROVE Repaired(q, d) \in Calls
    <2>1. d.args \in Filters /\ Looked(q, d) \in Filters
      BY <1>2 DEF Calls, Looked, Filters
    <2>2. Overlay(Looked(q, d), d.args) \in Filters
      BY <2>1, FilterOps
    <2>3. None \in Topics /\ "count" \in Tools \cup MetaTools
      BY DEF Topics, MetaTools
    <2>. QED  BY <2>2, <2>3, CallUpdates DEF Repaired
  <1>6. Intent(q, call) \in Calls
    <2>1. CountAbout(q, call) \in Topics
      BY <1>2 DEF CountAbout, Topics
    <2>2. [call EXCEPT !.about = CountAbout(q, call)] \in Calls
      BY <2>1, <1>2, CallUpdates DEF Calls
    <2>. QED  BY <2>2 DEF Intent
  <1>. QED  BY <1>4, <1>5, <1>6 DEF Dispatched, Stored

\* Types are preserved by every step.
LEMMA TypeStep ==
    ASSUME TypeOK, [Next]_vars
    PROVE  TypeOK'
  <1>1. CASE UNCHANGED vars
    BY <1>1 DEF TypeOK, vars
  <1>2. ASSUME NEW q \in Questions, NEW c \in Candidates, Ask(q, c)
        PROVE  TypeOK'
    <2>1. /\ q \in QuestionRecords /\ Resolved(q, c) \in Resolutions
          /\ Resolved(q, c).mode \in Modes /\ Resolved(q, c).call \in Calls
      BY ResolvedType DEF Resolutions
    <2>2. ASSUME NEW end \in Ends, Declined(q, c, end) PROVE TypeOK'
      BY <2>1, <2>2 DEF Declined, Turn, TypeOK
    <2>3. CASE Clarify(q, c)
      BY <2>2, <2>3 DEF Clarify, Ends
    <2>4. CASE NoRoute(q, c)
      BY <2>2, <2>4 DEF NoRoute, Ends
    <2>5. CASE Refuse(q, c)
      BY <2>2, <2>5 DEF Refuse, Ends
    <2>6. CASE Reject(q, c)
      BY <2>2, <2>6 DEF Reject, Ends
    <2>7. CASE Fail(q, c)
      BY <2>2, <2>7 DEF Fail, Ends
    <2>8. CASE Answer(q, c)
      <3>1. /\ Stored(q, Resolved(q, c).call) \in Calls
            /\ Dispatched(q, Resolved(q, c).call) \in Calls
        BY <2>1, <2>8, DispatchedType DEF Answer, Passes
      <3>. QED  BY <2>1, <2>8, <3>1 DEF Answer, Turn, TypeOK, Ends
    <2>. QED  BY <1>2, <2>3, <2>4, <2>5, <2>6, <2>7, <2>8 DEF Ask
  <1>3. CASE Deliver
    BY <1>3 DEF Deliver, TypeOK
  <1>4. CASE Forget
    BY <1>4 DEF Forget, TypeOK
  <1>5. CASE Reconfigure
    BY <1>5 DEF Reconfigure, TypeOK
  <1>. QED  BY <1>1, <1>2, <1>3, <1>4, <1>5 DEF Next

\* The call kept between turns can always be read back as a call.
THEOREM TypeCorrect == Spec => []TypeOK
  <1>1. Init => TypeOK
    BY DEF Init, TypeOK
  <1>. QED  BY <1>1, TypeStep, PTL DEF Spec

-----------------------------------------------------------------------------
(* What the guard lets through *)

\* A guarded call keeps the tool and the compared values, applies every named
\* filter it is not exempt from, and nothing its tool does not take.
LEMMA GuardedCall ==
    ASSUME NEW q \in QuestionRecords, NEW call \in Calls, call.op \in Tools,
           ~Unresolved(q, call)
    PROVE  /\ Repaired(q, call).op = call.op
           /\ Repaired(q, call).listed = call.listed
           /\ Given(Repaired(q, call).args) = Given(Looked(q, call)) \cup Given(call.args)
           /\ Given(Looked(q, call)) = Given(q.named) \ Exempt(q, call)
           /\ Given(Looked(q, call)) \subseteq Supports[call.op]
           /\ \A d \in Dims : Repaired(q, call).args[d] =
                  IF call.args[d] # None THEN call.args[d] ELSE Looked(q, call)[d]
           /\ q.bad /\ "status" \in Supports[call.op] => Repaired(q, call).args["status"] # None
  <1>1. Repaired(q, call) = [call EXCEPT !.args = Overlay(Looked(q, call), call.args)]
    BY DEF Repaired
  <1>2. /\ Repaired(q, call).op = call.op /\ Repaired(q, call).listed = call.listed
        /\ Repaired(q, call).args = Overlay(Looked(q, call), call.args)
    BY <1>1 DEF Calls
  <1>3. /\ Given(Looked(q, call)) \subseteq Supports[call.op]
        /\ ~ (q.bad /\ "status" \in Supports[call.op] /\ call.args["status"] = None)
    BY DEF Unresolved
  <1>4. \A d \in Dims : Repaired(q, call).args[d] =
            IF call.args[d] # None THEN call.args[d] ELSE Looked(q, call)[d]
    BY <1>2 DEF Overlay
  <1>5. Given(Looked(q, call)) = Given(q.named) \ Exempt(q, call)
    BY DEF Given, Looked, Exempt
  <1>6. Given(Repaired(q, call).args) = Given(Looked(q, call)) \cup Given(call.args)
    BY <1>4 DEF Given
  <1>7. "status" \in Dims
    BY DEF Dims
  <1>. QED  BY <1>2, <1>3, <1>4, <1>5, <1>6, <1>7

\* What an answer applies: the filters of the resolved call that its tool
\* takes, and where it has none, those the question names.
LEMMA AppliedValues ==
    ASSUME TypeOK, NEW q \in Questions, NEW c \in Candidates, Passes(q, c),
           Callable(Dispatched(q, Resolved(q, c).call))
    PROVE  LET call == Resolved(q, c).call
               sent == Dispatched(q, call)
           IN
           /\ sent.op \in Tools
           /\ meta => sent.op = Route(q, call) /\ sent.op \in Routed
           /\ \A d \in Dims :
                 sent.args[d] = IF call.args[d] # None /\ (meta => d \in Supports[sent.op])
                                  THEN call.args[d]
                                ELSE IF d \in Exempt(q, sent) THEN None ELSE q.named[d]
           /\ \A d \in Dims \ Exempt(q, sent) : q.named[d] # None => d \in Supports[sent.op]
           /\ q.bad /\ "status" \in Supports[sent.op] => sent.args["status"] # None
  <1>. DEFINE call == Resolved(q, c).call
              inner == Internal(q, call)
  <1>1. q \in QuestionRecords /\ call \in Calls /\ Routes(q, call)
    BY ResolvedType DEF Resolutions, Passes
  <1>2. inner \in Calls /\ ~Unresolved(q, inner)
    BY <1>1, DispatchedType DEF Passes
  <1>3. Dispatched(q, call) = Repaired(q, inner)
    BY DEF Dispatched
  <1>4. inner.op \in Tools
    BY <1>3 DEF Callable, Repaired
  <1>5. meta => /\ inner.op = Route(q, call) /\ inner.op \in Routed
                /\ inner.args = Restricted(call.args, Supports[inner.op])
    BY <1>1, RouteType DEF Internal, Routes, Calls
  <1>6. ~meta => inner = call
    BY DEF Internal
  <1>. HIDE DEF call, inner
  <1>7. /\ Repaired(q, inner).op = inner.op
        /\ Exempt(q, Repaired(q, inner)) = Exempt(q, inner)
    BY <1>1, <1>2, <1>4, GuardedCall DEF Exempt
  <1>8. \A d \in Dims : Looked(q, inner)[d] = IF d \in Exempt(q, inner) THEN None ELSE q.named[d]
    BY DEF Looked, Exempt
  <1>9. \A d \in Dims : inner.args[d] = IF call.args[d] # None /\ (meta => d \in Supports[inner.op])
                                          THEN call.args[d] ELSE None
    <2>1. CASE meta
      BY <1>5, <2>1 DEF Restricted
    <2>2. CASE ~meta
      BY <1>6, <2>2
    <2>. QED  BY <2>1, <2>2
  <1>10. \A d \in Dims : Repaired(q, inner).args[d] =
             IF inner.args[d] # None THEN inner.args[d] ELSE Looked(q, inner)[d]
    BY <1>1, <1>2, <1>4, GuardedCall
  <1>11. \A d \in Dims \ Exempt(q, inner) : q.named[d] # None => d \in Supports[inner.op]
    BY <1>1, <1>2, <1>4, GuardedCall DEF Given
  <1>12. \A d \in Dims : Repaired(q, inner).args[d] =
             IF call.args[d] # None /\ (meta => d \in Supports[inner.op]) THEN call.args[d]
             ELSE IF d \in Exempt(q, inner) THEN None ELSE q.named[d]
    BY <1>8, <1>9, <1>10
  <1>13. q.bad /\ "status" \in Supports[inner.op] => Repaired(q, inner).args["status"] # None
    BY <1>1, <1>2, <1>4, GuardedCall
  <1>14. meta => inner.op = Route(q, call) /\ inner.op \in Routed
    BY <1>5
  <1>. QED  BY <1>3, <1>4, <1>7, <1>11, <1>12, <1>13, <1>14 DEF call

\* A turn that does not answer leaves the stored call alone and says so.
LEMMA DeclinedTurn ==
    ASSUME NEW q, NEW c, Ask(q, c), ~Answer(q, c)
    PROVE  /\ out'.end \in Ends \ {"answered"}
           /\ out'.q = q /\ out'.mode = Resolved(q, c).mode
           /\ out'.end = "rejected" => Reject(q, c)
           /\ UNCHANGED <<meta, prior, shown>>
  <1>1. ASSUME NEW end \in Ends \ {"answered"}, Declined(q, c, end), end = "rejected" => Reject(q, c)
        PROVE  /\ out'.end \in Ends \ {"answered"}
               /\ out'.q = q /\ out'.mode = Resolved(q, c).mode
               /\ out'.end = "rejected" => Reject(q, c)
               /\ UNCHANGED <<meta, prior, shown>>
    <2>1. out' = Turn(q, c, end, Resolved(q, c).mode, Resolved(q, c).call)
      BY <1>1 DEF Declined
    <2>2. out'.end = end /\ out'.q = q /\ out'.mode = Resolved(q, c).mode
      BY <2>1 DEF Turn
    <2>3. UNCHANGED <<meta, prior, shown>>
      BY <1>1 DEF Declined
    <2>. QED  BY <1>1, <2>2, <2>3
  <1>2. CASE Clarify(q, c)
    <2>1. Declined(q, c, "clarify") /\ "clarify" \in Ends \ {"answered"}
      BY <1>2 DEF Clarify, Ends
    <2>. QED  BY <1>1, <1>2, <2>1
  <1>3. CASE NoRoute(q, c)
    <2>1. Declined(q, c, "no route") /\ "no route" \in Ends \ {"answered"}
      BY <1>3 DEF NoRoute, Ends
    <2>. QED  BY <1>1, <1>3, <2>1
  <1>4. CASE Refuse(q, c)
    <2>1. Declined(q, c, "refused") /\ "refused" \in Ends \ {"answered"}
      BY <1>4 DEF Refuse, Ends
    <2>. QED  BY <1>1, <1>4, <2>1
  <1>5. CASE Reject(q, c)
    <2>1. Declined(q, c, "rejected") /\ "rejected" \in Ends \ {"answered"}
      BY <1>5 DEF Reject, Ends
    <2>. QED  BY <1>1, <1>5, <2>1
  <1>6. CASE Fail(q, c)
    <2>1. Declined(q, c, "failed") /\ "failed" \in Ends \ {"answered"}
      BY <1>6 DEF Fail, Ends
    <2>. QED  BY <1>1, <1>6, <2>1
  <1>. QED  BY <1>2, <1>3, <1>4, <1>5, <1>6 DEF Ask

-----------------------------------------------------------------------------
(* Follow-ups *)

\* While the stored call is an internal one it is the last answer's, and its
\* handler takes its arguments; a meta call agrees with it where both have a filter.
PriorShown ==
    /\ prior # None => shown # None
    /\ prior # None /\ prior.op \in Tools => prior = shown /\ Callable(prior)
    /\ prior # None => \A d \in Dims : prior.args[d] # None /\ shown.args[d] # None =>
                                          shown.args[d] = prior.args[d]

\* A turn that inherits and gets past routing runs without meta tools, on a
\* stored internal call, and takes over its tool and its compared values.
LEMMA InheritedTurn ==
    ASSUME TypeOK, NEW q \in Questions, NEW c \in Candidates, Passes(q, c),
           Resolved(q, c).mode = "inherited"
    PROVE  /\ ~meta
           /\ prior \in Calls /\ prior.op \in Tools /\ ~Unfilterable(q)
           /\ Resolved(q, c).call = Inherited(q)
  <1>1. q \in QuestionRecords /\ c \in Calls
    BY ResolvedType
  <1>2. Resolved(q, c) = Resolve(q, c)
    <2>1. CASE ~meta
      BY <2>1 DEF Resolved
    <2>2. CASE meta /\ (prior = None \/ c.op = prior.op)
      BY <2>2 DEF Resolved, MetaResolve
    <2>3. CASE meta /\ prior # None /\ c.op # prior.op
      BY <2>3 DEF Resolved, MetaResolve, Resolution
    <2>. QED  BY <2>1, <2>2, <2>3
  <1>3. FollowUp(q) /\ prior # None
    BY <1>2 DEF Resolve, Resolution
  <1>4. HasParams(prior.op)
    BY <1>2, <1>3 DEF Resolve, Resolution
  <1>5. ~Unfilterable(q)
    BY <1>2, <1>3, <1>4 DEF Resolve, Resolution
  <1>6. Resolved(q, c).call = Inherited(q)
    BY <1>2, <1>3, <1>4, <1>5 DEF Resolve, Resolution
  <1>7. prior \in Calls /\ prior.op \in Tools
    BY <1>3, <1>4, ConversationConstants DEF TypeOK, HasParams
  <1>8. Inherited(q).op = prior.op /\ Inherited(q) \in Calls
    BY <1>1, <1>7, InheritedType DEF Inherited, Calls
  <1>9. ~meta
    BY <1>1, <1>6, <1>7, <1>8, RouteType, ConversationConstants DEF Passes, Routes
  <1>. QED  BY <1>5, <1>6, <1>7, <1>9

\* PriorShown survives every step.
LEMMA PriorShownStep ==
    ASSUME TypeOK, PriorShown, [Next]_vars
    PROVE  PriorShown'
  <1>1. CASE UNCHANGED vars
    BY <1>1 DEF PriorShown, vars, Callable, Given
  <1>2. ASSUME NEW q \in Questions, NEW c \in Candidates, Answer(q, c)
        PROVE  PriorShown'
    <2>. DEFINE call == Resolved(q, c).call
    <2>1. q \in QuestionRecords /\ call \in Calls
      BY ResolvedType DEF Resolutions
    <2>2. /\ prior' = Stored(q, call) /\ shown' = Dispatched(q, call)
          /\ Callable(Dispatched(q, call)) /\ Routes(q, call)
      BY <1>2 DEF Answer, Passes
    <2>. HIDE DEF call
    <2>3. CASE meta
      <3>1. call.op \in MetaTools
        BY <2>1, <2>2, <2>3, RouteType DEF Routes
      <3>2. Stored(q, call).op = call.op /\ Stored(q, call).args = call.args
        BY <2>1, <2>3 DEF Stored, Intent, Calls
      <3>3. \A d \in Dims : call.args[d] # None /\ Dispatched(q, call).args[d] # None =>
                             Dispatched(q, call).args[d] = call.args[d]
        BY <1>2, <2>2, AppliedValues DEF Answer, call
      <3>4. Stored(q, call) # None /\ Dispatched(q, call) # None
        BY <2>1, <2>2, DispatchedType, ConversationConstants
      <3>. QED  BY <2>2, <3>1, <3>2, <3>3, <3>4, ConversationConstants DEF PriorShown
    <2>4. CASE ~meta
      <3>1. Stored(q, call) = Dispatched(q, call)
        BY <2>4 DEF Stored, Dispatched, Internal
      <3>2. Dispatched(q, call) # None
        BY <2>1, <2>2, DispatchedType, ConversationConstants
      <3>. QED  BY <2>2, <3>1, <3>2 DEF PriorShown, Callable, Given
    <2>. QED  BY <2>3, <2>4
  <1>3. ASSUME NEW q \in Questions, NEW c \in Candidates, Ask(q, c), ~Answer(q, c)
        PROVE  PriorShown'
    BY <1>3, DeclinedTurn DEF PriorShown, Callable, Given
  <1>4. CASE Deliver
    BY <1>4 DEF Deliver, PriorShown, Callable, Given
  <1>5. CASE Forget
    BY <1>5 DEF Forget, PriorShown
  <1>6. CASE Reconfigure
    BY <1>6 DEF Reconfigure, PriorShown, Callable, Given
  <1>. QED  BY <1>1, <1>2, <1>3, <1>4, <1>5, <1>6 DEF Next

\* An inherited call that was not reset, or any routed meta call, can be made.
LEMMA InheritedCallable ==
    ASSUME TypeOK, PriorShown, NEW q \in Questions, NEW c \in Candidates, Passes(q, c),
           Resolved(q, c).mode = "inherited", ~q.reset
    PROVE  Callable(Dispatched(q, Resolved(q, c).call))
  <1>1. /\ q \in QuestionRecords
        /\ ~meta /\ prior \in Calls /\ prior.op \in Tools
        /\ Resolved(q, c).call = Inherited(q) /\ Inherited(q) \in Calls
    BY InheritedTurn, ResolvedType, InheritedType
  <1>2. Callable(prior)
    BY <1>1, ConversationConstants DEF PriorShown
  <1>3. Inherited(q) = [prior EXCEPT !.args = Restricted(Overlay(prior.args, q.named), Supports[prior.op])]
    BY DEF Inherited
  <1>4. /\ Inherited(q).op = prior.op /\ Inherited(q).listed = prior.listed
        /\ Inherited(q).args = Restricted(Overlay(prior.args, q.named), Supports[prior.op])
    BY <1>1, <1>3 DEF Calls
  <1>5. Requires[prior.op] \subseteq Dims
    BY <1>1, ConversationConstants
  <1>6. /\ Given(Inherited(q).args) \subseteq Supports[prior.op]
        /\ Requires[prior.op] \subseteq Given(Inherited(q).args)
    BY <1>2, <1>4, <1>5 DEF Given, Restricted, Overlay, Callable
  <1>7. Dispatched(q, Inherited(q)) = Repaired(q, Inherited(q)) /\ ~Unresolved(q, Inherited(q))
    BY <1>1 DEF Dispatched, Internal, Passes
  <1>8. /\ Repaired(q, Inherited(q)).op = prior.op
        /\ Repaired(q, Inherited(q)).listed = prior.listed
        /\ Given(Repaired(q, Inherited(q)).args) =
              Given(Looked(q, Inherited(q))) \cup Given(Inherited(q).args)
        /\ Given(Looked(q, Inherited(q))) \subseteq Supports[prior.op]
    BY <1>1, <1>4, <1>7, GuardedCall
  <1>. QED  BY <1>1, <1>2, <1>6, <1>7, <1>8 DEF Callable

\* The tool a meta call is routed to has the filters it requires.
LEMMA RouteRequires ==
    ASSUME NEW q \in QuestionRecords, NEW call \in Calls, Route(q, call) # None
    PROVE  /\ Route(q, call) \in Routed
           /\ Requires[Route(q, call)] \subseteq Given(Restricted(call.args, Supports[Route(q, call)]))
  <1>. DEFINE t == Route(q, call)
  <1>1. t \in Routed
    BY RouteType
  <1>2. "category" \in Dims /\ "status" \in Dims
    BY DEF Dims
  <1>3. t = "count_by_category" => call.args["category"] # None
    BY DEF Route, CountTool, RankTool, ListTool, Sums
  <1>4. t = "count_by_status" => call.args["status"] # None
    BY <1>2 DEF Route, CountTool, RankTool, ListTool, Sums, Given
  <1>. HIDE DEF t
  <1>5. ASSUME NEW u \in Routed
        PROVE  \A d \in Requires[u] : \/ d = "category" /\ u = "count_by_category"
                                      \/ d = "status" /\ u = "count_by_status"
    <2>1. CASE u = "count_by_category"
      <3>1. Requires[u] = {"category"}
        BY <2>1, RoutedSchemas
      <3>. QED  BY <2>1, <3>1
    <2>2. CASE u = "count_by_status"
      <3>1. Requires[u] = {"status"}
        BY <2>2, RoutedSchemas
      <3>. QED  BY <2>2, <3>1
    <2>3. CASE u \notin {"count_by_category", "count_by_status"}
      <3>1. Requires[u] = {}
        BY <2>3, RoutedSchemas
      <3>. QED  BY <3>1
    <2>. QED  BY <2>1, <2>2, <2>3
  <1>6. Requires[t] \subseteq Supports[t]
    BY <1>1, ConversationConstants
  <1>7. \A d \in Requires[t] : d \in Dims /\ call.args[d] # None /\ d \in Supports[t]
    BY <1>1, <1>2, <1>3, <1>4, <1>5, <1>6
  <1>8. t \in Routed /\ Requires[t] \subseteq Given(Restricted(call.args, Supports[t]))
    BY <1>1, <1>7 DEF Given, Restricted
  <1>. QED  BY <1>8 DEF t

\* A turn that carries filters to another shape runs with meta tools.
LEMMA CarriedTurn ==
    ASSUME TypeOK, NEW q \in Questions, NEW c \in Candidates, Resolved(q, c).mode = "carried"
    PROVE  /\ meta /\ prior \in Calls
           /\ Resolved(q, c).call \in {Carried(c), ThoseReviews}
  <1>1. Resolve(q, c).mode # "carried"
    BY DEF Resolve, Resolution
  <1>2. meta
    BY <1>1 DEF Resolved
  <1>3. prior # None /\ c.op # prior.op
    BY <1>2, <1>1 DEF Resolved, MetaResolve
  <1>4. prior \in Calls
    BY <1>3 DEF TypeOK
  <1>. QED  BY <1>2, <1>3, <1>4 DEF Resolved, MetaResolve, Resolution

\* A call carried over to another shape, once routed, can be made.
LEMMA CarriedCallable ==
    ASSUME TypeOK, NEW q \in Questions, NEW c \in Candidates, Passes(q, c),
           Resolved(q, c).mode = "carried"
    PROVE  Callable(Dispatched(q, Resolved(q, c).call))
  <1>. DEFINE call == Resolved(q, c).call
              inner == Internal(q, call)
  <1>1. q \in QuestionRecords /\ c \in Calls /\ call \in Calls
    BY ResolvedType DEF Resolutions
  <1>3. meta /\ call \in {Carried(c), ThoseReviews}
    BY CarriedTurn
  <1>4. Route(q, call) # None /\ call.op \in MetaTools
    BY <1>1, <1>3, RouteType DEF Passes, Routes
  <1>5. call.listed = {}
    <2>1. CASE call = ThoseReviews
      BY <2>1 DEF ThoseReviews
    <2>2. CASE call = Carried(c)
      <3>1. Carried(c).op = c.op /\ Carried(c).listed = c.listed
        BY <1>1 DEF Carried, Calls
      <3>. QED  BY <1>4, <2>2, <3>1, RoutedSchemas
    <2>. QED  BY <1>3, <2>1, <2>2
  <1>. HIDE DEF call
  <1>6. /\ inner.op = Route(q, call) /\ inner.listed = {}
        /\ inner.args = Restricted(call.args, Supports[Route(q, call)])
    BY <1>1, <1>3, <1>5 DEF Internal, Calls
  <1>7. /\ inner.op \in Routed /\ inner.op \in Tools /\ inner.op \notin Lists
        /\ Requires[inner.op] \subseteq Given(inner.args)
    BY <1>1, <1>4, <1>6, RouteRequires, RoutedSchemas, ConversationConstants
  <1>8. Given(inner.args) \subseteq Supports[inner.op]
    BY <1>6 DEF Given, Restricted
  <1>9. inner \in Calls /\ ~Unresolved(q, inner)
    BY <1>1, <1>3, <1>4, DispatchedType DEF Passes, Routes, call
  <1>10. Dispatched(q, call) = Repaired(q, inner)
    BY DEF Dispatched
  <1>. HIDE DEF inner
  <1>11. /\ Repaired(q, inner).op = inner.op /\ Repaired(q, inner).listed = {}
         /\ Given(Repaired(q, inner).args) = Given(Looked(q, inner)) \cup Given(inner.args)
         /\ Given(Looked(q, inner)) \subseteq Supports[inner.op]
    BY <1>1, <1>6, <1>7, <1>9, GuardedCall DEF inner
  <1>12. Callable(Repaired(q, inner))
    BY <1>7, <1>8, <1>11 DEF Callable
  <1>. QED  BY <1>10, <1>12 DEF call

\* A call built from the prior turn is rejected only after a reset: no follow-up
\* has an argument its tool does not take or misses one it needs.
THEOREM FollowUpDispatchable == Spec => []InheritedIsCallable
  <1>. DEFINE Inv == TypeOK /\ PriorShown /\ InheritedIsCallable
  <1>1. Init => Inv
    BY DEF Init, TypeOK, PriorShown, InheritedIsCallable
  <1>2. Inv /\ [Next]_vars => Inv'
    <2>. SUFFICES ASSUME Inv, [Next]_vars PROVE InheritedIsCallable'
      BY TypeStep, PriorShownStep
    <2>1. CASE UNCHANGED vars
      BY <2>1 DEF InheritedIsCallable, vars
    <2>2. ASSUME NEW q \in Questions, NEW c \in Candidates, Ask(q, c)
          PROVE  InheritedIsCallable'
      <3>1. CASE Answer(q, c)
        <4>1. out' = Turn(q, c, "answered", Resolved(q, c).mode, Dispatched(q, Resolved(q, c).call))
          BY <3>1 DEF Answer
        <4>2. out'.end = "answered"
          BY <4>1 DEF Turn
        <4>. QED  BY <4>2 DEF InheritedIsCallable
      <3>2. CASE ~Answer(q, c) /\ out'.end # "rejected"
        BY <3>2 DEF InheritedIsCallable
      <3>3. CASE ~Answer(q, c) /\ out'.end = "rejected"
        <4>1. Reject(q, c) /\ out'.q = q /\ out'.mode = Resolved(q, c).mode
          BY <2>2, <3>3, DeclinedTurn
        <4>2. /\ Resolved(q, c).mode \in Modes /\ Resolved(q, c).mode # "clarify"
              /\ Resolved(q, c).mode # "carried"
              /\ Resolved(q, c).mode = "inherited" => q.reset
          BY <4>1, ResolvedType, CarriedCallable, InheritedCallable
             DEF Reject, Passes, Understood, Resolutions
        <4>. QED  BY <4>1, <4>2 DEF InheritedIsCallable, Modes
      <3>. QED  BY <3>1, <3>2, <3>3
    <2>3. CASE Deliver
      BY <2>3 DEF Deliver, InheritedIsCallable
    <2>4. CASE Forget
      BY <2>4 DEF Forget, InheritedIsCallable
    <2>5. CASE Reconfigure
      BY <2>5 DEF Reconfigure, InheritedIsCallable
    <2>. QED  BY <2>1, <2>2, <2>3, <2>4, <2>5 DEF Next
  <1>. QED  BY <1>1, <1>2, PTL DEF Spec

\* What an inherited answer applies: the last answer's filters under the named ones.
LEMMA InheritedScope ==
    ASSUME TypeOK, PriorShown, NEW q \in Questions, NEW c \in Candidates, Answer(q, c),
           Resolved(q, c).mode = "inherited"
    PROVE  LET call == Dispatched(q, Resolved(q, c).call) IN
           /\ call.op = shown.op
           /\ \A d \in Dims \ Exempt(q, call) :
                 call.args[d] = IF q.named[d] # None \/ q.reset THEN q.named[d] ELSE shown.args[d]
  <1>. DEFINE inner == Inherited(q)
  <1>1. /\ q \in QuestionRecords /\ Passes(q, c)
        /\ ~meta /\ prior \in Calls /\ prior.op \in Tools /\ ~Unfilterable(q)
        /\ Resolved(q, c).call = inner /\ inner \in Calls
    BY InheritedTurn, ResolvedType, InheritedType DEF Answer
  <1>2. prior = shown /\ Callable(prior)
    BY <1>1, ConversationConstants DEF PriorShown
  <1>3. Dispatched(q, inner) = Repaired(q, inner) /\ ~Unresolved(q, inner)
    BY <1>1 DEF Dispatched, Internal, Passes
  <1>4. inner.op = prior.op
    BY <1>1 DEF Inherited, Calls
  <1>5. inner.args = IF q.reset THEN NoFilters
                     ELSE Restricted(Overlay(prior.args, q.named), Supports[prior.op])
    BY <1>1 DEF Inherited, Calls
  <1>. HIDE DEF inner
  <1>6. /\ Repaired(q, inner).op = prior.op
        /\ Repaired(q, inner).listed = inner.listed
        /\ \A d \in Dims : Repaired(q, inner).args[d] =
               IF inner.args[d] # None THEN inner.args[d] ELSE Looked(q, inner)[d]
    BY <1>1, <1>3, <1>4, GuardedCall
  <1>7. \A d \in Dims \ Exempt(q, Repaired(q, inner)) : Looked(q, inner)[d] = q.named[d]
    BY <1>4, <1>6 DEF Looked, Exempt
  <1>8. ASSUME NEW d \in Dims \ Exempt(q, Repaired(q, inner))
        PROVE  Repaired(q, inner).args[d] =
                 IF q.named[d] # None \/ q.reset THEN q.named[d] ELSE shown.args[d]
    <2>1. CASE q.reset
      BY <1>5, <1>6, <1>7, <2>1 DEF NoFilters
    <2>2. CASE ~q.reset /\ q.named[d] # None
      <3>1. d \in Supports[prior.op]
        BY <1>1, <2>2 DEF Unfilterable, Given
      <3>2. inner.args[d] = q.named[d]
        BY <1>5, <2>2, <3>1 DEF Restricted, Overlay
      <3>. QED  BY <1>6, <2>2, <3>2
    <2>3. CASE ~q.reset /\ q.named[d] = None
      <3>1. inner.args[d] = IF d \in Supports[prior.op] THEN prior.args[d] ELSE None
        BY <1>5, <2>3 DEF Restricted, Overlay
      <3>2. d \notin Supports[prior.op] => prior.args[d] = None
        BY <1>2 DEF Callable, Given
      <3>3. inner.args[d] = prior.args[d]
        BY <3>1, <3>2
      <3>. QED  BY <1>2, <1>6, <1>7, <2>3, <3>3
    <2>. QED  BY <2>1, <2>2, <2>3
  <1>. QED  BY <1>1, <1>2, <1>3, <1>6, <1>8

\* The call an answer of another shape carries takes each filter from the
\* model's call or from the prior one; what neither names is kept.
LEMMA CarriedFilters ==
    ASSUME TypeOK, NEW q \in Questions, NEW c \in Candidates, Passes(q, c),
           Resolved(q, c).mode = "carried"
    PROVE  LET call == Resolved(q, c).call IN
           /\ meta
           /\ \A d \in Dims : call.args[d] \in {None, c.args[d], prior.args[d]}
           /\ \A d \in CarryKeys \cap Supports[Route(q, call)] :
                 c.args[d] = None => call.args[d] = prior.args[d]
  <1>1. c \in Calls
    BY ResolvedType
  <1>2. meta /\ Resolved(q, c).call \in {Carried(c), ThoseReviews}
    BY CarriedTurn
  <1>3. CASE Resolved(q, c).call = Carried(c)
    <2>1. Carried(c).args = Overlay(Restricted(prior.args, CarryKeys), c.args)
      BY <1>1 DEF Carried, Calls
    <2>2. CarryKeys \subseteq Dims
      BY DEF CarryKeys, Dims
    <2>. QED  BY <1>2, <1>3, <2>1, <2>2 DEF Overlay, Restricted
  <1>4. CASE Resolved(q, c).call = ThoseReviews
    <2>1. ThoseReviews.args = Restricted(prior.args, {"city", "state", "date_token"})
      BY DEF ThoseReviews
    <2>2. Route(q, ThoseReviews) = "list_low_reviews"
      BY DEF Route, ThoseReviews, ListTool
    <2>3. "category" \notin Supports[Route(q, ThoseReviews)]
      BY <2>2, RoutedSchemas
    <2>4. \A d \in CarryKeys \cap Supports[Route(q, ThoseReviews)] :
             d \in Dims /\ d \in {"city", "state", "date_token"}
      BY <2>3 DEF CarryKeys, Dims
    <2>. QED  BY <1>2, <1>4, <2>1, <2>4 DEF Restricted
  <1>. QED  BY <1>2, <1>3, <1>4

\* A step that ends in an answer is an Answer.
LEMMA AnsweredStep ==
    ASSUME TypeOK, Next, out = None, out' # None, out'.end = "answered"
    PROVE  \E q \in Questions, c \in Candidates :
              /\ Answer(q, c) /\ Passes(q, c) /\ Callable(Dispatched(q, Resolved(q, c).call))
              /\ out'.q = q /\ out'.c = c /\ out'.mode = Resolved(q, c).mode
              /\ out'.call = Dispatched(q, Resolved(q, c).call)
              /\ out'.mode \in {"fresh", "inherited", "carried"}
  <1>1. PICK q \in Questions, c \in Candidates : Ask(q, c)
    BY DEF Next, Deliver, Forget, Reconfigure
  <1>2. Answer(q, c)
    BY <1>1, DeclinedTurn
  <1>3. /\ out' = Turn(q, c, "answered", Resolved(q, c).mode, Dispatched(q, Resolved(q, c).call))
        /\ Passes(q, c) /\ Callable(Dispatched(q, Resolved(q, c).call))
    BY <1>2 DEF Answer
  <1>4. /\ out'.q = q /\ out'.c = c /\ out'.mode = Resolved(q, c).mode
        /\ out'.call = Dispatched(q, Resolved(q, c).call)
    BY <1>3 DEF Turn
  <1>5. Resolved(q, c).mode \in {"fresh", "inherited", "carried"}
    BY <1>3, ResolvedType DEF Passes, Understood, Resolutions, Modes
  <1>. QED  BY <1>2, <1>3, <1>4, <1>5

\* A fresh turn dispatches the model's call.
LEMMA FreshTurn ==
    ASSUME NEW q \in Questions, NEW c \in Candidates, Resolved(q, c).mode = "fresh"
    PROVE  Resolved(q, c).call = c
  BY DEF Resolved, MetaResolve, Resolve, Resolution

\* Every answer applies what its question names, with the value named unless
\* the model's own call, or on a change of shape the previous turn, has another.
THEOREM NoProxyAnswer == Spec => AnswerHonoursQuestion
  <1>. DEFINE Inv == TypeOK /\ PriorShown
  <1>1. Init => Inv
    BY DEF Init, TypeOK, PriorShown
  <1>2. Inv /\ [Next]_vars => Inv'
    BY TypeStep, PriorShownStep
  <1>3. ASSUME Inv, Next, out = None, out' # None, out'.end = "answered"
        PROVE  LET q == out'.q
                   applied == out'.call.args
               IN  /\ \A d \in Given(q.named) \ Exempt(q, out'.call) :
                         /\ applied[d] # None
                         /\ \/ applied[d] = q.named[d]
                            \/ out'.mode \in {"fresh", "carried"} /\ applied[d] = out'.c.args[d]
                            \/ out'.mode = "carried" /\ applied[d] = prior.args[d]
                   /\ q.bad /\ "status" \in Supports[out'.call.op] => applied["status"] # None
    <2>1. PICK q \in Questions, c \in Candidates :
              /\ Answer(q, c) /\ Passes(q, c) /\ Callable(Dispatched(q, Resolved(q, c).call))
              /\ out'.q = q /\ out'.c = c /\ out'.mode = Resolved(q, c).mode
              /\ out'.call = Dispatched(q, Resolved(q, c).call)
              /\ out'.mode \in {"fresh", "inherited", "carried"}
      BY <1>3, AnsweredStep
    <2>. DEFINE call == Resolved(q, c).call
                sent == Dispatched(q, call)
    <2>2. /\ \A d \in Dims :
                sent.args[d] = IF call.args[d] # None /\ (meta => d \in Supports[sent.op])
                                 THEN call.args[d]
                               ELSE IF d \in Exempt(q, sent) THEN None ELSE q.named[d]
          /\ q.bad /\ "status" \in Supports[sent.op] => sent.args["status"] # None
      BY <1>3, <2>1, AppliedValues
    <2>3. out'.mode = "fresh" => call = c
      BY <2>1, FreshTurn
    <2>4. out'.mode = "carried" => \A d \in Dims : call.args[d] \in {None, c.args[d], prior.args[d]}
      <3>1. SUFFICES ASSUME Resolved(q, c).mode = "carried"
                     PROVE  \A d \in Dims : call.args[d] \in {None, c.args[d], prior.args[d]}
        BY <2>1
      <3>2. TypeOK
        BY <1>3
      <3>. QED  BY <2>1, <3>1, <3>2, CarriedFilters
    <2>5. out'.mode = "inherited" =>
              \A d \in Dims \ Exempt(q, sent) : q.named[d] # None => sent.args[d] = q.named[d]
      <3>1. SUFFICES ASSUME Resolved(q, c).mode = "inherited"
                     PROVE  \A d \in Dims \ Exempt(q, sent) : q.named[d] # None => sent.args[d] = q.named[d]
        BY <2>1
      <3>2. TypeOK /\ PriorShown
        BY <1>3
      <3>. QED  BY <2>1, <3>1, <3>2, InheritedScope
    <2>. HIDE DEF call, sent
    <2>6. ASSUME NEW d \in Given(q.named) \ Exempt(q, sent)
          PROVE  /\ sent.args[d] # None
                 /\ \/ sent.args[d] = q.named[d]
                    \/ out'.mode \in {"fresh", "carried"} /\ sent.args[d] = c.args[d]
                    \/ out'.mode = "carried" /\ sent.args[d] = prior.args[d]
      <3>1. d \in Dims /\ q.named[d] # None
        BY DEF Given
      <3>2. /\ sent.args[d] # None
            /\ sent.args[d] \in {q.named[d], call.args[d]}
        BY <2>2, <3>1
      <3>. QED  BY <2>1, <2>3, <2>4, <2>5, <3>1, <3>2
    <2>. QED  BY <2>1, <2>2, <2>6 DEF call, sent
  <1>4. Inv /\ [Next]_vars =>
          [out = None /\ out' # None /\ out'.end = "answered" =>
             LET q == out'.q
                 applied == out'.call.args
             IN  /\ \A d \in Given(q.named) \ Exempt(q, out'.call) :
                       /\ applied[d] # None
                       /\ \/ applied[d] = q.named[d]
                          \/ out'.mode \in {"fresh", "carried"} /\ applied[d] = out'.c.args[d]
                          \/ out'.mode = "carried" /\ applied[d] = prior.args[d]
                 /\ q.bad /\ "status" \in Supports[out'.call.op] => applied["status"] # None]_vars
    BY <1>3
  <1>. QED  BY <1>1, <1>2, <1>4, PTL DEF Spec, AnswerHonoursQuestion

\* An inherited answer keeps the scope the user last saw, and an answer of
\* another shape what of it the stored call has.
THEOREM ScopeKept == Spec => FollowUpKeepsScope
  <1>. DEFINE Inv == TypeOK /\ PriorShown
  <1>1. Init => Inv
    BY DEF Init, TypeOK, PriorShown
  <1>2. Inv /\ [Next]_vars => Inv'
    BY TypeStep, PriorShownStep
  <1>3. ASSUME Inv, Next, out = None, out' # None, out'.end = "answered"
        PROVE  /\ out'.mode = "inherited" =>
                     /\ out'.call.op = shown.op
                     /\ \A d \in Dims \ Exempt(out'.q, out'.call) :
                           out'.call.args[d] = IF out'.q.named[d] # None \/ out'.q.reset
                                                 THEN out'.q.named[d] ELSE shown.args[d]
               /\ out'.mode = "carried" =>
                     \A d \in Dims : InScope(d) /\ prior.args[d] # None =>
                                        out'.call.args[d] = shown.args[d]
    <2>1. PICK q \in Questions, c \in Candidates :
              /\ Answer(q, c) /\ Passes(q, c) /\ Callable(Dispatched(q, Resolved(q, c).call))
              /\ out'.q = q /\ out'.c = c /\ out'.mode = Resolved(q, c).mode
              /\ out'.call = Dispatched(q, Resolved(q, c).call)
              /\ out'.mode \in {"fresh", "inherited", "carried"}
      BY <1>3, AnsweredStep
    <2>2. CASE out'.mode = "inherited"
      <3>1. TypeOK /\ PriorShown /\ Resolved(q, c).mode = "inherited"
        BY <1>3, <2>1, <2>2
      <3>2. /\ out'.call.op = shown.op
            /\ \A d \in Dims \ Exempt(q, out'.call) :
                  out'.call.args[d] = IF q.named[d] # None \/ q.reset THEN q.named[d] ELSE shown.args[d]
        BY <2>1, <3>1, InheritedScope
      <3>. QED  BY <2>1, <2>2, <3>2
    <2>3. CASE out'.mode = "carried"
      <3>. DEFINE call == Resolved(q, c).call
                  sent == Dispatched(q, call)
      <3>1. /\ meta => sent.op = Route(q, call)
            /\ \A d \in Dims :
                  sent.args[d] = IF call.args[d] # None /\ (meta => d \in Supports[sent.op])
                                   THEN call.args[d]
                                 ELSE IF d \in Exempt(q, sent) THEN None ELSE q.named[d]
        BY <1>3, <2>1, AppliedValues
      <3>2. /\ meta
            /\ \A d \in CarryKeys \cap Supports[Route(q, call)] :
                  c.args[d] = None => call.args[d] = prior.args[d]
        BY <1>3, <2>1, <2>3, CarriedFilters
      <3>3. prior # None => \A d \in Dims : prior.args[d] # None /\ shown.args[d] # None =>
                                               shown.args[d] = prior.args[d]
        BY <1>3 DEF PriorShown
      <3>4. prior # None
        BY <1>3, <2>1, <2>3, CarriedTurn, ConversationConstants
      <3>. HIDE DEF call, sent
      <3>5. ASSUME NEW d \in Dims, d \in CarryKeys \cap Supports[sent.op], shown.args[d] # None,
                   c.args[d] = None, prior.args[d] # None
            PROVE  sent.args[d] = shown.args[d]
        BY <3>1, <3>2, <3>3, <3>4, <3>5
      <3>. QED  BY <2>1, <2>3, <3>5 DEF InScope, call, sent
    <2>. QED  BY <2>1, <2>2, <2>3
  <1>4. Inv /\ [Next]_vars =>
          [out = None /\ out' # None /\ out'.end = "answered" =>
             /\ out'.mode = "inherited" =>
                   /\ out'.call.op = shown.op
                   /\ \A d \in Dims \ Exempt(out'.q, out'.call) :
                         out'.call.args[d] = IF out'.q.named[d] # None \/ out'.q.reset
                                               THEN out'.q.named[d] ELSE shown.args[d]
             /\ out'.mode = "carried" =>
                   \A d \in Dims : InScope(d) /\ prior.args[d] # None =>
                                      out'.call.args[d] = shown.args[d]]_vars
    BY <1>3
  <1>. QED  BY <1>1, <1>2, <1>4, PTL DEF Spec, FollowUpKeepsScope
=============================================================================
