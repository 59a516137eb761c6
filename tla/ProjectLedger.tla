---------------------------- MODULE ProjectLedger ----------------------------
(***************************************************************************)
(* The money of one client project in the ledger (ledger.py): receipts and *)
(* payment nodes, change orders, settlement issues with their write-offs,  *)
(* and the quick accounting of the browser, which replaces the snapshot.   *)
(*                                                                         *)
(* Amounts are whole: the code rounds to cents and compares within half a  *)
(* cent.  A refused request changes nothing and is left out.  Instead of   *)
(* revision numbers the model keeps who has the latest: every save makes   *)
(* all other copies stale (save_in_session).                               *)
(***************************************************************************)
EXTENDS Integers, FiniteSets, FiniteSetsExt, SequencesExt

CONSTANTS
    Browsers,      \* tabs that hold a copy of the snapshot and its revision
    Dues,          \* due dates of payment nodes
    Setups         \* what may happen in a run of the model: see MCDelivery

\* A payment node, and those of a contract: no request of the model booked them.
MoneyRow ==
    [amount : Nat \ {0}, status : {"pending", "confirmed", "refunded", "written_off"},
     due : Dues, req : Nat, late : BOOLEAN]

ContractRow ==
    {r \in MoneyRow : r.status # "written_off" /\ r.req = 0 /\ ~r.late}

\* What is planned and received at the start is part of the contract.
ASSUME LedgerAssumption ==
    /\ Dues \subseteq Nat
    /\ \A s \in Setups :
          /\ s.requests \in Nat /\ s.bookings \in Nat /\ s.rows \in Nat /\ s.quick \in Nat
          /\ \A c \in s.contracts :
                /\ c.total \in Nat
                /\ c.rows \in Seq(ContractRow)
                /\ MapThenSumSet(LAMBDA i : c.rows[i].amount, DOMAIN c.rows) <= c.total

VARIABLES
    setup,
    total,         \* totalAmount of the project
    rows,          \* its payment nodes, in the order of the snapshot
    orders,        \* the request ids of its change orders, oldest first
    issues,        \* its settlement issues
    current        \* who has seen the latest revision of the ledger

ledgerVars == <<total, rows, orders, issues>>

-----------------------------------------------------------------------------
(* What the rows add up to.                                                *)

Amount(is) == MapThenSumSet(LAMBDA i : rows[i].amount, is)

With(status) == {i \in DOMAIN rows : rows[i].status = status}

Receipts == Amount(With("confirmed")) + Amount(With("refunded"))

Pending == Amount(With("pending"))

Uncollectible == MapThenSumSet(LAMBDA i : i.impact, issues)

Refunded == Amount(With("refunded")) + MapThenSumSet(LAMBDA i : i.refund, issues)

Outstanding == Max({0, total - Receipts - Uncollectible})

Terminated == \E i \in issues : i.terminal

\* The request ids that payments, orders and issues of the snapshot carry.
Paid == {rows[i].req : i \in DOMAIN rows} \ {0}
Ordered == ToSet(orders)
Settled == {i.req : i \in issues}

\* An operation looks for its request id among its own kind of rows: a request that
\* repeats one of them is answered with what it did, or refused.
Fresh(q, ids) == q \in 1..setup.requests \ ids

-----------------------------------------------------------------------------
Row(amount, status, due, req) ==
    [amount |-> amount, status |-> status, due |-> due, req |-> req, late |-> FALSE]

\* Every save advances the revision: only who made it has seen the latest.
Saved(who) == current' = who

\* Mutant: a remainder of nothing becomes a node.
SomeAlways(row) == <<row>>

Some(row) == IF row.amount > 0 THEN <<row>> ELSE <<>>

\* A browser that was refused, or that is told of a change, reads the snapshot.
Reload(b) ==
    /\ b \notin current
    /\ current' = current \cup {b}
    /\ UNCHANGED <<setup, ledgerVars>>

\* Confirming a receipt of a payment node; what is left of it stays pending.
ConfirmNode(b, q, i, amount) ==
    /\ b \in current
    /\ Fresh(q, Paid)
    /\ i \in With("pending")
    /\ amount \in 1..Min({Outstanding, rows[i].amount})
    /\ LET left == Min({rows[i].amount, Outstanding}) - amount IN
       rows' = [rows EXCEPT ![i].amount = amount, ![i].status = "confirmed", ![i].req = q]
                  \o Some(Row(left, "pending", rows[i].due, 0))
    /\ Saved({b})
    /\ UNCHANGED <<setup, total, orders, issues>>

\* Confirming a receipt when no node is planned: the rest becomes a node.
ConfirmUnplanned(b, q, amount, due) ==
    /\ b \in current
    /\ Fresh(q, Paid)
    /\ With("pending") = {}
    /\ amount \in 1..Outstanding
    /\ rows' = rows \o <<Row(amount, "confirmed", due, q)>>
                    \o Some(Row(Outstanding - amount, "pending", due, 0))
    /\ Saved({b})
    /\ UNCHANGED <<setup, total, orders, issues>>

\* Paid scope is added to the project with a plan of its receipts.
CreateChangeOrder(b, q, paid, planned, due) ==
    /\ b \in current
    /\ Fresh(q, Ordered)
    /\ paid + planned > 0
    /\ ~Terminated
    /\ total' = total + paid + planned
    /\ rows' = rows \o Some(Row(paid, "confirmed", due, 0))
                    \o Some(Row(planned, "pending", due, 0))
    /\ orders' = Append(orders, q)
    /\ Saved({b})
    /\ UNCHANGED <<setup, issues>>

\* The nodes that are written off before node i: those due later, and of those
\* due the same day the ones that come first.
Before(i) ==
    {j \in With("pending") :
        rows[j].due > rows[i].due \/ (rows[j].due = rows[i].due /\ j < i)}

\* Mutant: a node that is not covered in full stays as it is.
AppliedWhole(i, amount) ==
    IF i \in With("pending") /\ amount - Amount(Before(i)) >= rows[i].amount
    THEN rows[i].amount ELSE 0

\* What an amount takes from node i.
Applied(i, amount) ==
    IF i \notin With("pending") THEN 0
    ELSE Min({rows[i].amount, Max({0, amount - Amount(Before(i))})})

\* The node an amount covers in part is split: the covered part becomes a row.
WrittenOff(amount) ==
    LET whole == {i \in With("pending") : Applied(i, amount) = rows[i].amount}
        part == {i \in With("pending") : Applied(i, amount) \in 1..(rows[i].amount - 1)}
    IN
    [i \in DOMAIN rows |->
        IF i \in whole THEN [rows[i] EXCEPT !.status = "written_off"]
        ELSE [rows[i] EXCEPT !.amount = @ - Applied(i, amount)]]
    \o IF part = {} THEN <<>>
       ELSE LET i == CHOOSE i \in part : TRUE IN
            <<Row(Applied(i, amount), "written_off", rows[i].due, 0)>>

\* A settlement issue: what cannot be collected, what was paid back, and whether
\* it ends the cooperation.
RecordIssue(b, q, terminal, impact, refund) ==
    /\ b \in current
    /\ Fresh(q, Settled)
    /\ impact \in 0..Outstanding
    /\ terminal => impact = Outstanding
    /\ refund \in 0..Max({0, Receipts - Refunded})
    /\ rows' = WrittenOff(impact)
    /\ issues' = issues \cup
          {[req |-> q, terminal |-> terminal, impact |-> impact, refund |-> refund]}
    /\ Saved({b})
    /\ UNCHANGED <<setup, total, orders>>

\* The quick accounting of the browser puts a row in front and raises the total to
\* what the rows add up to, then replaces the snapshot.  The total it computes does
\* not know of settlement issues: rows booked after one are marked.
QuickAccount(b, status, amount, due) ==
    /\ b \in current
    /\ Len(rows) < setup.rows
    /\ total' = Max({total, Amount(DOMAIN rows \ With("written_off")) + amount})
    /\ rows' = <<[Row(amount, status, due, 0) EXCEPT !.late = issues # {}]>> \o rows
    /\ Saved({b})
    /\ UNCHANGED <<setup, orders, issues>>

-----------------------------------------------------------------------------
\* A project starts with a contract and the payments that were planned for it.
LedgerInit ==
    /\ setup \in Setups
    /\ \E c \in setup.contracts : total = c.total /\ rows = c.rows
    /\ orders = <<>>
    /\ issues = {}
    /\ current = {}

\* The requests that were carried out; bounded in a run of the model.
Bookings ==
    Cardinality({i \in DOMAIN rows : rows[i].req # 0}) + Len(orders) + Cardinality(issues)

\* New ids are taken in order; one that another kind of row carries may come again.
Money(b) ==
    /\ setup.requests > 0
    /\ \/ \E q \in 1..setup.requests :
             /\ \A p \in 1..(q - 1) : p \in Paid \cup Ordered \cup Settled
             /\ Bookings < setup.bookings
             /\ \/ \E i \in DOMAIN rows, amount \in 1..setup.rows :
                      ConfirmNode(b, q, i, amount)
                \/ \E amount \in 1..setup.rows, due \in Dues :
                      ConfirmUnplanned(b, q, amount, due)
                \/ \E paid, planned \in 0..1, due \in Dues :
                      CreateChangeOrder(b, q, paid, planned, due)
                \/ \E terminal \in BOOLEAN, impact \in 0..setup.rows, refund \in 0..1 :
                      RecordIssue(b, q, terminal, impact, refund)
       \/ \E status \in {"confirmed", "pending"}, amount \in 1..setup.quick, due \in Dues :
             QuickAccount(b, status, amount, due)

LedgerTypeOK ==
    /\ setup \in Setups
    /\ total \in Nat
    /\ \A i \in DOMAIN rows :
          /\ rows[i].amount \in Nat \ {0}
          /\ rows[i].status \in {"pending", "confirmed", "refunded", "written_off"}
          /\ rows[i].due \in Dues
          /\ rows[i].req \in 0..setup.requests
    /\ ToSet(orders) \subseteq 1..setup.requests
    /\ \A i \in issues : i.req \in 1..setup.requests /\ i.impact \in Nat /\ i.refund \in Nat
=============================================================================
