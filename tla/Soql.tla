-------------------------------- MODULE Soql --------------------------------
(***************************************************************************)
(* What the fake Salesforce answers to a query (fake_salesforce/store.py): *)
(* conditions joined by AND, stable sorting passes, a limit and a          *)
(* projection, over Opportunities in their order of insertion.  A query is *)
(*   [fields, where, order_by, limit], limit = Null when there is none.    *)
(***************************************************************************)
EXTENDS Integers, Sequences, FiniteSets

CONSTANT Null   \* Python's None, JSON's null

\* What the parser of fake_salesforce/soql.py lets through.  A field's values are
\* integers in the order that Python gives them.
Operators == {"=", "!=", "<", "<=", ">", ">=", "IN"}

IsQuery(query) == /\ \A cond \in query.where : cond.op \in Operators
                  /\ query.order_by \in Seq([field : STRING, descending : BOOLEAN])
                  /\ query.limit \in Nat \cup {Null}

WonStage == "Closed Won"
ClosedStages == {"Closed Won", "Closed Lost"}

\* accounts: the names of the accounts there are.
FieldValue(accounts, opp, field) ==
    CASE field = "IsWon" -> opp.StageName = WonStage
      [] field = "IsClosed" -> opp.StageName \in ClosedStages
      [] field = "Account.Name" -> IF opp.AccountId \in DOMAIN accounts
                                     THEN accounts[opp.AccountId] ELSE Null
      [] OTHER -> opp[field]

\* Mutant: null counts as the least value.
Matches_NullIsLeast(value, cond) ==
    \/ cond.op = "IN" /\ value \in cond.value
    \/ cond.op = "=" /\ value = cond.value
    \/ cond.op = "!=" /\ value # cond.value
    \/ cond.op = "<" /\ (value = Null \/ value < cond.value)
    \/ cond.op = "<=" /\ (value = Null \/ value <= cond.value)
    \/ cond.op = ">" /\ value # Null /\ value > cond.value
    \/ cond.op = ">=" /\ value # Null /\ value >= cond.value

Matches(value, cond) ==
    \/ cond.op = "IN" /\ value \in cond.value
    \/ cond.op = "=" /\ value = cond.value
    \/ cond.op = "!=" /\ value # cond.value
    \/ /\ value # Null
       /\ cond.value # Null
       /\ \/ cond.op = ">=" /\ value >= cond.value
          \/ cond.op = ">" /\ value > cond.value
          \/ cond.op = "<=" /\ value <= cond.value
          \/ cond.op = "<" /\ value < cond.value

\* The order of the sort keys (value is not None, value): null comes first.
Below(v, w) == w # Null /\ (v = Null \/ v < w)

\* The key puts opportunity i before j.
Before(accounts, opps, key, i, j) ==
    LET v == FieldValue(accounts, opps[i], key.field)
        w == FieldValue(accounts, opps[j], key.field)
    IN  IF key.descending THEN Below(w, v) ELSE Below(v, w)

\* A list of rows is the function that gives each its place, from 1: here a list
\* in order of insertion, and after one pass, a sort that is stable, also when
\* it is reversed.
Listed(rows) == [i \in rows |-> Cardinality({j \in rows : j <= i})]

SortedBy(accounts, opps, place, key) ==
    [i \in DOMAIN place |-> Cardinality({j \in DOMAIN place :
        \/ Before(accounts, opps, key, j, i)
        \/ ~Before(accounts, opps, key, i, j) /\ place[j] <= place[i]})]

\* The list after each pass; the keys are applied from the last to the first.
Passes(accounts, opps, rows, order_by) ==
    LET passed[n \in 0..Len(order_by)] ==
            IF n = 0 THEN Listed(rows)
            ELSE SortedBy(accounts, opps, passed[n - 1], order_by[Len(order_by) + 1 - n])
    IN  passed

Sorted(accounts, opps, rows, order_by) ==
    Passes(accounts, opps, rows, order_by)[Len(order_by)]

Project(accounts, opp, fields) == [f \in fields |-> FieldValue(accounts, opp, f)]

RunQuery(accounts, opps, query) ==
    LET rows == {i \in DOMAIN opps : \A cond \in query.where :
                    Matches(FieldValue(accounts, opps[i], cond.field), cond)}
        place == Sorted(accounts, opps, rows, query.order_by)
        found == Cardinality(rows)
        kept == IF query.limit = Null \/ query.limit > found THEN found ELSE query.limit
    IN  [n \in 1..kept |->
            Project(accounts, opps[CHOOSE i \in rows : place[i] = n], query.fields)]
-----------------------------------------------------------------------------
(***************************************************************************)
(* The reference: SOQL as the poller and the reconciler rely on it.  A row *)
(* is selected when every condition holds of it, null compared with < or > *)
(* never does, and the rows are in lexicographic order of the keys, nulls  *)
(* first in ascending order and last in descending order, ties as they     *)
(* were inserted.                                                          *)
(***************************************************************************)
Selected(accounts, opps, query) ==
    {i \in DOMAIN opps : \A cond \in query.where :
        LET v == FieldValue(accounts, opps[i], cond.field) IN
        CASE cond.op = "IN" -> v \in cond.value
          [] cond.op = "=" -> v = cond.value
          [] cond.op = "!=" -> v # cond.value
          [] cond.op = "<" -> Null \notin {v, cond.value} /\ v < cond.value
          [] cond.op = ">" -> Null \notin {v, cond.value} /\ v > cond.value
          [] cond.op = "<=" -> Null \notin {v, cond.value} /\ v <= cond.value
          [] cond.op = ">=" -> Null \notin {v, cond.value} /\ v >= cond.value}

\* Opportunity i comes before j in the answer.
Precedes(accounts, opps, order_by, i, j) ==
    LET value(n, k) == FieldValue(accounts, opps[n], order_by[k].field)
        tie(k) == value(i, k) = value(j, k)
        first(k) == CASE value(i, k) = Null -> ~order_by[k].descending
                      [] value(j, k) = Null -> order_by[k].descending
                      [] OTHER -> IF order_by[k].descending
                                    THEN value(i, k) > value(j, k)
                                    ELSE value(i, k) < value(j, k)
    IN  \/ \E k \in DOMAIN order_by : /\ \A h \in 1..(k - 1) : tie(h)
                                      /\ ~tie(k)
                                      /\ first(k)
        \/ i < j /\ \A k \in DOMAIN order_by : tie(k)

IsAnswer(accounts, opps, query, answer) ==
    LET S == Selected(accounts, opps, query)
        rank(i) == Cardinality({j \in S : Precedes(accounts, opps, query.order_by, j, i)})
        kept == {i \in S : query.limit # Null => rank(i) < query.limit}
    IN  /\ Len(answer) = Cardinality(kept)
        /\ \A i \in kept : answer[rank(i) + 1] = Project(accounts, opps[i], query.fields)
=============================================================================
