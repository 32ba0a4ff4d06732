---------------------------- MODULE MCSalesforce ----------------------------
(***************************************************************************)
(* Small instances of Salesforce for TLC.                                  *)
(***************************************************************************)
EXTENDS Salesforce, TLC

Opp(id, account, amount, stage, stamp) ==
    [Id |-> id, AccountId |-> account, Amount |-> amount, StageName |-> stage,
     SystemModstamp |-> stamp]

Accts == 1 :> 7

\* Won deals: two stamped in the same second, one without an amount, one whose
\* account is not there and two without an account.
Deals == <<Opp(3, 1, 5, "Closed Won", 2), Opp(1, Null, 4, "Closed Won", 2),
           Opp(2, 2, Null, "Closed Won", 1), Opp(4, Null, 5, "Closed Won", 1)>>

\* A deal that is lost after all, and a new one.
Written == {Opp(3, 1, 5, "Closed Lost", 3), Opp(5, 1, 4, "Closed Won", 1)}

\* A refused session and an outage; a client takes all token errors alike.
Faults == [token |-> {503}, query |-> {401, 503}]

Cond(field, op, value) == [field |-> field, op |-> op, value |-> value]
Key(field, descending) == [field |-> field, descending |-> descending]

\* Nulls in a condition and among the values of a key, ties in both keys.
ByStampAndAccount ==
    [fields |-> {"Id", "Amount", "Account.Name"},
     where |-> {Cond("IsWon", "=", TRUE), Cond("Amount", "<", 6),
                Cond("Id", "IN", {1, 2, 3, 4, 5})},
     order_by |-> <<Key("SystemModstamp", TRUE), Key("Account.Name", FALSE)>>,
     limit |-> 2]
OneQuery == {ByStampAndAccount}
=============================================================================
