---------------------------- MODULE MCAnalytics ----------------------------
(* Three orders out of six kinds, seen from three reference dates. *)
EXTENDS Analytics, TLC

\* Day 0 is Monday, 2018-01-01
MCMonthStarts == {-396, -365, -334, -306, -275, -245, -214, -184, -153, -122, -92, -61, -31,
                  0, 31, 59, 90, 120, 151, 181, 212, 243}
MCYearStarts == {-365, 0}
MCToday == {231, 0, 90}     \* 2018-08-20, the default, and the first of a year and of a month

MCCustomers ==
    "c1" :> [city |-> "sao paulo", state |-> "SP", person |-> "u1"] @@
    "c2" :> [city |-> "niteroi", state |-> "RJ", person |-> "u2"]
MCSellers == "s1" :> [city |-> "campinas", state |-> "SP"] @@ "s2" :> [city |-> "niteroi", state |-> "RJ"]
MCProducts == "p1" :> "beleza_saude" @@ "p2" :> "pcs" @@ "p3" :> None
MCEnglish == "beleza_saude" :> "health_beauty"
MCSpaces ==
    "health_beauty" :> "health beauty" @@ "health beauty" :> "health beauty" @@
    "beleza_saude" :> "beleza saude" @@ "beleza saude" :> "beleza saude" @@ "pcs" :> "pcs"
MCClosest == "Nitero" :> "niteroi" @@ "Atlantis" :> None
MCStatuses == {"delivered", "canceled"}
MCPaymentTypes == {"voucher", "boleto"}

Item(n, product, seller, value) == [item |-> n, product |-> product, seller |-> seller, value |-> value]
Payment(n, type, value) == [seq |-> n, type |-> type, value |-> value]
Review(id, score, day) == [id |-> id, score |-> score, created |-> Midnight(day)]
Order(c, status, purchase, delivered, estimated) ==
    [customer |-> c, status |-> status, purchase |-> purchase,
     delivered |-> delivered, estimated |-> estimated]

MCShapes == {
    \* the last second of July 31, paid in two parts, late, reviewed twice
    [order |-> Order("c1", "delivered", LastSecond(211), Midnight(225), Midnight(222)),
     items |-> {Item(1, "p1", "s1", 3), Item(2, "p1", "s1", 3)},
     payments |-> {Payment(1, "voucher", 2), Payment(2, "boleto", 4)},
     reviews |-> {Review(1, 2, 226), Review(2, 5, 227)}],
    \* the first instant of a week, month and year; on time; one review for two sellers
    [order |-> Order("c2", "delivered", Midnight(0), Midnight(9), Midnight(9)),
     items |-> {Item(1, "p2", "s1", 1), Item(2, "p3", "s2", 2)},
     payments |-> {Payment(1, "boleto", 3)},
     reviews |-> {Review(3, 1, 10)}],
    \* the last second of a Sunday, month and year; delivered without an estimate
    [order |-> Order("c1", "delivered", LastSecond(-1), Midnight(9), None),
     items |-> {Item(1, "p3", "s2", 5)},
     payments |-> {}, reviews |-> {Review(1, 4, 226)}],
    \* canceled yesterday, after it had been delivered late; neither paid nor reviewed
    [order |-> Order("c2", "canceled", Midnight(230), Midnight(231), Midnight(229)),
     items |-> {Item(1, "p2", "s2", 4)}, payments |-> {}, reviews |-> {}],
    \* today, without items
    [order |-> Order("c1", "canceled", Midnight(231), None, Midnight(240)),
     items |-> {}, payments |-> {Payment(1, "voucher", 1)}, reviews |-> {Review(4, 1, 231)}],
    \* in March; a day late
    [order |-> Order("c2", "delivered", LastSecond(89), Midnight(98), LastSecond(96)),
     items |-> {Item(1, "p1", "s2", 2)}, payments |-> {Payment(1, "voucher", 2)},
     reviews |-> {Review(5, 2, 226)}]}

MCDatesAsked == {None, [token |-> "this_week"], [token |-> "last_month"], [token |-> "last_year"],
                 [token |-> "someday"], [from |-> 0, to |-> 211]}
MCCitiesAsked == {None, "sao paulo", "Nitero", "Atlantis"}
=============================================================================
