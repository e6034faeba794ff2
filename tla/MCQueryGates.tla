------------------------------ MODULE MCQueryGates ------------------------------
(***************************************************************************)
(* A small shop: customers place orders, orders have items and payments    *)
(* (which name an order twice), items are of products. The queries are     *)
(* every combination of the choices below; the two databases hold orders   *)
(* with several items, with one and with none, and two orders alike.       *)
(***************************************************************************)
EXTENDS QueryGatesProperties

MCTables == {"customers", "orders", "items", "payments", "products", "ledger"}

MCCatalog ==
  LET Table(columns, numeric, hidden, queryable) ==
        [columns |-> columns, key |-> {"id"}, numeric |-> numeric, hidden |-> hidden, queryable |-> queryable]
  IN  [t \in MCTables |->
         CASE t = "customers" -> Table({"id", "region"}, {"id"}, {}, TRUE)
           [] t = "orders"    -> Table({"id", "customer_id", "status", "total", "note"},
                                       {"id", "customer_id", "total"}, {"note"}, TRUE)
           [] t = "items"     -> Table({"id", "order_id", "product", "qty"}, {"id", "order_id", "qty"}, {}, TRUE)
           [] t = "payments"  -> Table({"id", "order_id", "refund_of", "amount"},
                                       {"id", "order_id", "refund_of", "amount"}, {}, TRUE)
           [] t = "products"  -> Table({"id", "category"}, {"id"}, {}, TRUE)
           [] t = "ledger"    -> Table({"id", "total"}, {"id", "total"}, {}, FALSE)]

MCReferences ==
  LET Key(from, column, to) == [from |-> from, column |-> column, to |-> to, referenced |-> "id"]
  IN  <<Key("orders", "customer_id", "customers"), Key("items", "order_id", "orders"),
        Key("payments", "order_id", "orders"), Key("payments", "refund_of", "orders"),
        Key("items", "product", "products")>>

MCDatabases ==
  LET Order(id, status, total) == [id |-> id, customer_id |-> 1, status |-> status, total |-> total, note |-> 9]
      Item(id, order, product, qty) == [id |-> id, order_id |-> order, product |-> product, qty |-> qty]
      Payment(id, order, refund, amount) == [id |-> id, order_id |-> order, refund_of |-> refund, amount |-> amount]
      Shop(orders, items, payments) ==
        [customers |-> <<[id |-> 1, region |-> 1], [id |-> 2, region |-> 1]>>,
         orders |-> orders, items |-> items, payments |-> payments,
         products |-> <<[id |-> 1, category |-> 1], [id |-> 2, category |-> 1]>>,
         ledger |-> <<>>]
  IN  {Shop(<<Order(1, 1, 5), Order(2, 1, 5), Order(3, 2, 7)>>,
            <<Item(1, 1, 1, 2), Item(2, 1, 2, 1), Item(3, 2, 1, 3), Item(4, 1, 1, 2)>>,
            <<Payment(1, 1, 2, 4), Payment(2, 2, 1, 4), Payment(3, 1, Null, 6)>>),
       Shop(<<Order(2, 1, 3)>>, <<Item(2, 2, 1, 1), Item(3, 2, 2, 4)>>, <<>>)}

-----------------------------------------------------------------------------
O(c) == Column("o", c)
I(c) == Column("i", c)
P(c) == Column("p", c)
D(c) == Column("d", c)
X(c) == Column("x", c)
U(c) == Column("", c)

Out(agg, of, as) == [as |-> as, agg |-> agg, dist |-> FALSE, of |-> of]
Plain(ref)       == Out("none", ref, ref.c)
Sum(ref)         == Out("sum", ref, ref.q \o "sum_" \o ref.c)
Avg(ref)         == Out("avg", ref, ref.q \o "avg_" \o ref.c)
SumDistinct(ref) == [Sum(ref) EXCEPT !.dist = TRUE]
Star(q)          == Out("star", Column(q, "*"), "*")

From(t, a)           == [alias |-> a, table |-> t, inner |-> 0, cte |-> FALSE, side |-> "FROM", on |-> <<>>]
Join(t, a, side, on) == [From(t, a) EXCEPT !.side = side, !.on = on]
Derived(k, cte)      == [From(IF cte THEN "x" ELSE "", "x") EXCEPT !.inner = k, !.cte = cte]
JoinDerived(k, cte, side, on) == [Derived(k, cte) EXCEPT !.side = side, !.on = on]

Select(items, from, group) ==
  [items |-> items, distinct |-> FALSE, from |-> from, where |-> <<>>, filter |-> {}, group |-> group]

Both(a, b)   == <<<<<<a, b>>>>>>
Either(e, f) == <<<<e, f>>>>

\* Output columns for the columns grouped by, then what is summed.
Grouped(from, columns, sums) == Select([n \in DOMAIN columns |-> Plain(columns[n])] \o sums, from, ToSet(columns))
Distinct(q) == [q EXCEPT !.distinct = TRUE]

-----------------------------------------------------------------------------
(***************************************************************************)
(* The choices a shape is made of, by name.                                *)
(***************************************************************************)
\* Queries of one table, to be joined to orders: x has order_id, or calls it oid.
OneTable ==
  LET items   == <<From("items", "i")>>
      order   == Plain(I("order_id"))
      product == Plain(I("product"))
  IN  [rows            |-> Select(<<order>>, items, {}),
       rowsProducts    |-> Select(<<order, product>>, items, {}),
       star            |-> Select(<<Star("")>>, items, {}),
       perOrder        |-> Grouped(items, <<I("order_id")>>, <<Sum(I("qty"))>>),
       renamed         |-> Select(<<Out("none", I("order_id"), "oid"), Sum(I("qty"))>>, items, {I("order_id")}),
       perProduct      |-> Grouped(items, <<I("order_id"), I("product")>>, <<Sum(I("qty"))>>),
       productUnnamed  |-> Select(<<order, Sum(I("qty"))>>, items, {I("order_id"), I("product")}),
       distinct        |-> Distinct(Select(<<order>>, items, {})),
       distinctProduct |-> Distinct(Select(<<order, product>>, items, {})),
       distinctRefund  |-> Distinct(Select(<<Plain(U("order_id")), Plain(U("refund_of"))>>,
                                          <<From("payments", "p")>>, {}))]

\* How such a query is passed through another: not, whole, or without its later columns.
Through(inner, how) ==
  LET y == <<[Derived(1, TRUE) EXCEPT !.alias = "y", !.table = "y"]>>
      first == IF HasStar(inner) THEN "order_id" ELSE inner.items[1].as
  IN  CASE how = "itself" -> <<inner>>
        [] how = "whole"  -> <<inner, Select(<<Star("")>>, y, {})>>
        [] how = "first"  -> <<inner, Select(<<Plain(Column("y", first))>>, y, {})>>

\* Orders, alone or with their items, to be aggregated outside.
Orders ==
  LET o == <<From("orders", "o")>>
      Joined(on) == <<From("orders", "o"), Join("items", "i", "INNER", on)>>
      key == Joined(Both(O("id"), I("order_id")))
      total == Plain(O("total"))
      Grouping(q) == [q EXCEPT !.group = {i.of : i \in ToSet(q.items)}]
      Rows(from) == Select(<<Plain(O("id")), total>>, from, {})
      WithProducts == Select(<<Plain(O("id")), total, Plain(I("product"))>>, key, {})
      ByItem == Select(<<Plain(I("order_id")), total>>, key, {})
  IN  [star             |-> Select(<<Star("")>>, o, {}),
       rows             |-> Rows(o),
       byStatus         |-> Select(<<Plain(O("status")), total>>, o, {}),
       notes            |-> Select(<<Plain(O("id")), Plain(O("note"))>>, o, {}),
       row              |-> Select(<<Plain(U("o"))>>, o, {}),
       rowBeside        |-> Select(<<Plain(O("id")), Plain(U("i"))>>, key, {}),
       rowsDistinct     |-> Distinct(Select(<<Plain(U("i")), Plain(O("status"))>>, key, {})),
       calledNote       |-> Select(<<Plain(U("note"))>>, <<From("orders", "o"),
                              Join("items", "note", "INNER", Both(Column("note", "order_id"), O("id")))>>, {}),
       calledTotal      |-> Select(<<Plain(O("id")), Plain(U("total"))>>, <<From("orders", "o"),
                              Join("items", "total", "INNER", Both(Column("total", "order_id"), O("id")))>>, {}),
       perOrder         |-> Select(<<Plain(O("id")), Out("sum", O("total"), "total")>>, o, {O("id")}),
       joinedPerOrder   |-> Select(<<Plain(O("id")), Out("sum", O("total"), "total")>>, key, {O("id")}),
       joined           |-> Rows(key),
       joinedDistinct   |-> Distinct(Rows(key)),
       joinedGrouped    |-> Grouping(Rows(key)),
       products         |-> WithProducts,
       productsDistinct |-> Distinct(WithProducts),
       productsGrouped  |-> Grouping(WithProducts),
       productsUnnamed  |-> [Rows(key) EXCEPT !.group = {O("id"), O("total"), I("product")}],
       byItem           |-> ByItem,
       byItemDistinct   |-> Distinct(ByItem),
       byItemGrouped    |-> Grouping(ByItem),
       crossed          |-> Rows(Joined(<<>>)),
       mismatched       |-> Rows(Joined(Both(O("id"), I("id")))),
       either           |-> Rows(Joined(Either(<<O("id"), I("order_id")>>, <<O("id"), I("id")>>)))]

Sums ==
  LET o == O("total")
      x == X("total")
      qty == Sum(I("qty"))
  IN  [total        |-> <<Sum(o)>>, unqualified |-> <<Sum(U("total"))>>, average |-> <<Avg(o)>>,
       distinct     |-> <<SumDistinct(o)>>,
       derived      |-> <<Sum(x)>>, derivedAverage |-> <<Avg(x)>>, derivedDistinct |-> <<SumDistinct(x)>>,
       both         |-> <<Sum(o), qty>>, childFirst |-> <<qty, Sum(o)>>, averageBoth |-> <<Avg(o), qty>>,
       distinctBoth |-> <<SumDistinct(o), qty>>, childUnqualified |-> <<Sum(o), Sum(U("qty"))>>,
       childAverage |-> <<Sum(o), Avg(I("qty"))>>, child |-> <<qty>>,
      row          |-> <<Plain(U("x"))>>, every |-> <<Star("")>>]

Groups ==
  [all |-> <<>>, status |-> <<O("status")>>, order |-> <<O("id")>>, product |-> <<I("product")>>,
   unqualified |-> <<U("product")>>, derivedOrder |-> <<X("id")>>, derivedProduct |-> <<X("product")>>,
   derivedStatus |-> <<U("status")>>, customerRow |-> <<U("c")>>]

Conditions ==
  LET key == <<I("order_id"), O("id")>>
      wrong == <<O("id"), I("id")>>
  IN  [key |-> <<<<key>>>>, reversed |-> Both(O("id"), I("order_id")), none |-> <<>>,
       both |-> <<<<key>>, <<<<I("product"), D("id")>>>>>>,
       narrowed |-> <<<<key>>, <<<<O("total"), I("qty")>>>>>>, wrong |-> <<<<wrong>>>>,
       orWrong |-> <<<<key, wrong>>>>, orSame |-> <<<<key, key>>>>,
       derived |-> Both(X("order_id"), O("id")), derivedRenamed |-> Both(X("oid"), O("id")),
       derivedWrong |-> Both(X("order_id"), O("total")),
       derivedEither |-> Either(<<X("order_id"), O("id")>>, <<X("refund_of"), O("id")>>)]

\* A third source beside orders and items.
Totals == Select(<<Plain(P("order_id")), Sum(P("amount"))>>, <<From("payments", "p")>>, {P("order_id")})

Thirds ==
  [none       |-> <<>>,
       customers  |-> <<Join("customers", "c", "INNER", Both(Column("c", "id"), O("customer_id")))>>,
       payments   |-> <<Join("payments", "p", "LEFT", Both(P("order_id"), O("id")))>>,
       viaItems   |-> <<Join("payments", "p", "INNER", Both(P("order_id"), I("order_id")))>>,
       products   |-> <<Join("products", "d", "INNER", Both(D("id"), I("product")))>>,
       viaDerived |-> <<Join("products", "d", "INNER", Both(D("id"), X("product")))>>,
       paid       |-> <<JoinDerived(1, TRUE, "LEFT", Both(X("order_id"), O("id")))>>]

Filters == [none |-> {}, parent |-> {O("total")}, child |-> {I("qty")}]

-----------------------------------------------------------------------------
Shape(family, inner, how, cte, side, on, group, sum, third, filter) ==
  [family : {family}, inner : inner, how : how, cte : cte, side : side, on : on,
   group : group, sum : sum, third : third, filter : filter]

Shapes ==
  \* one derived table, aggregated or listed, column by column or row by row
  Shape("outside", DOMAIN Orders, {"itself", "whole"}, BOOLEAN, {"INNER"}, {"none"},
        {"all", "derivedOrder", "derivedProduct", "derivedStatus"},
        {"derived", "unqualified", "derivedAverage", "derivedDistinct"}, {"none"}, {"none"})
  \cup Shape("listed", DOMAIN Orders, {"itself", "whole"}, BOOLEAN, {"INNER"}, {"none"}, {"all"},
             {"every", "row"}, {"none"}, {"none"})
  \* orders and a derived table beside them
  \cup UNION {Shape("beside", DOMAIN OneTable, {how}, IF how = "itself" THEN BOOLEAN ELSE {TRUE},
                    {"INNER", "LEFT"},
                    {"derived", "derivedRenamed", "derivedWrong", "derivedEither", "none"},
                    {"status", "order", "derivedProduct"},
                    {"total", "unqualified", "average", "distinct"}, {"none", "viaDerived"}, {"none"}) :
                how \in {"itself", "whole", "first"}}
  \* orders in a derived table, their items beside it
  \cup Shape("parent", DOMAIN Orders, {"itself"}, BOOLEAN, {"INNER"}, {"none"}, {"product", "derivedOrder"},
             {"derived", "derivedAverage"}, {"none"}, {"none"})
  \* the tables themselves
  \cup UNION {Shape("direct", {"rows"}, {"itself"}, {FALSE}, {"INNER", "LEFT"},
                    {"key", "reversed", "narrowed", "wrong", "orWrong", "orSame", "none"},
                    {"status", "order", "product", "unqualified"},
                    {"both", "childFirst", "total", "averageBoth", "distinctBoth", "childUnqualified",
                     "childAverage", "child"},
                    {third}, IF third = "none" THEN DOMAIN Filters ELSE {"none"}) :
                third \in DOMAIN Thirds \ {"viaDerived"}}
  \cup Shape("direct", {"rows"}, {"itself"}, {FALSE}, {"INNER", "LEFT"}, {"key"}, {"customerRow"},
             {"both", "total", "child"}, {"customers"}, {"none"})
  \* orders and products, and the items between them
  \cup Shape("between", {"rows"}, {"itself"}, {FALSE}, {"INNER", "LEFT"}, {"both", "key", "none"},
             {"status", "order", "product"}, {"child", "total", "childAverage"}, {"none"}, {"none"})
  \cup Shape("ledger", {"rows"}, {"itself"}, {FALSE}, {"INNER"}, {"none"}, {"all"}, {"total"}, {"none"}, {"none"})

Written(s) ==
  LET inside ==
        CASE s.family = "beside"                         -> Through(OneTable[s.inner], s.how)
          [] s.family \in {"outside", "listed", "parent"} -> Through(Orders[s.inner], s.how)
          [] s.third = "paid"                            -> <<Totals>>
          [] OTHER                                       -> <<>>
      x == Derived(Len(inside), s.cte)
      on == Conditions[s.on]
      sources ==
        CASE s.family \in {"outside", "listed"} -> <<x>>
          [] s.family = "beside" -> <<From("orders", "o"), [x EXCEPT !.side = s.side, !.on = on]>>
          [] s.family = "parent" -> <<x, Join("items", "i", "INNER", Both(X("id"), I("order_id")))>>
          [] s.family = "direct" -> <<From("orders", "o"), Join("items", "i", s.side, on)>>
          [] s.family = "between" -> <<From("orders", "o"), Join("products", "d", "INNER", <<>>),
                                      Join("items", "i", s.side, on)>>
          [] s.family = "ledger" -> <<From("ledger", "o")>>
      outermost ==
        IF s.family = "listed" THEN Select(Sums[s.sum], sources, {})
        ELSE [Grouped(sources \o Thirds[s.third], Groups[s.group], Sums[s.sum])
                EXCEPT !.filter = Filters[s.filter]]
  IN  Append(inside, outermost)

MCQueries == {Written(s) : s \in Shapes}
=============================================================================
