---------------------------- MODULE EvidenceCache ----------------------------
(***************************************************************************)
(* getEvidencesAndPayments: the evidences and payments of a delivered      *)
(* order are asked of Aliclik once and then answered from two tables.      *)
(*                                                                         *)
(* A call reads the order, reads the two tables with two queries that no   *)
(* transaction holds together, asks Aliclik when both came back empty,     *)
(* stores the answer in one transaction and returns it.  Other calls, and  *)
(* the deletion of the order, may come between any two of these steps.     *)
(* Orders share nothing here, so the module is about one order; a row is   *)
(* its date of creation at Aliclik and a version of everything else.       *)
(***************************************************************************)
CONSTANTS
    Readers,            \* calls of the owner's route and of the admin's
    Evidences,          \* ids that Aliclik gives to evidences of the order
    Payments,           \* and to payments
    Versions,           \* what a row may contain
    Dates,              \* when Aliclik may say that it was created
    NoRow,              \* there is no such row
    Answers,            \* what Aliclik may answer
    MayFail             \* the calls that may be cut short

Rows == Evidences \cup Payments

Tables == {Evidences, Payments}

RowContents == [version : Versions, created : Dates]

Found == [Rows -> RowContents \cup {NoRow}]

Nothing == [r \in Rows |-> NoRow]

ASSUME EvidenceAssumption ==
    /\ Evidences # {} /\ Payments # {}
    /\ Evidences \cap Payments = {}
    /\ NoRow \notin RowContents
    /\ Answers \subseteq Found

VARIABLES
    order,              \* the order's row: is it there, delivered and linked
    cache,              \* aliclik_order_evidences and aliclik_order_payments
    pc,                 \* where each call is
    due,                \* the queries each call has not got the rows of
    mayAsk,             \* was the order it read delivered and linked
    found,              \* what each call has read, and returns
    stored,             \* history: calls whose answer is in the tables
    before              \* history: rows in the tables when each call began

vars == <<order, cache, pc, due, mayAsk, found, stored, before>>

callVars == <<due, mayAsk, found, before>>

TypeOK ==
    /\ order \in [present : BOOLEAN, delivered : BOOLEAN, linked : BOOLEAN]
    /\ cache \in Found
    /\ pc \in [Readers -> {"idle", "query", "ask", "store", "reply",
                           "cached", "fetched", "failed"}]
    /\ due \in [Readers -> SUBSET Tables]
    /\ mayAsk \in [Readers -> BOOLEAN]
    /\ found \in [Readers -> Found]
    /\ stored \subseteq Readers
    /\ before \in [Readers -> SUBSET Rows]

Init ==
    /\ order = [present |-> TRUE, delivered |-> FALSE, linked |-> FALSE]
    /\ cache = Nothing
    /\ pc = [c \in Readers |-> "idle"]
    /\ due = [c \in Readers |-> {}]
    /\ mayAsk = [c \in Readers |-> FALSE]
    /\ found = [c \in Readers |-> Nothing]
    /\ stored = {}
    /\ before = [c \in Readers |-> {}]

-----------------------------------------------------------------------------
RowsIn(table) == {r \in Rows : table[r] # NoRow}

Goto(c, point) == pc' = [pc EXCEPT ![c] = point]

Ended(c) == pc[c] \in {"cached", "fetched", "failed"}

(* findOrderByIdAndUserIdOrThrow, findOrderByIdOrThrowAdmin: status and    *)
(* number are read here and not again.                                     *)
ReadOrder(c) ==
    /\ pc[c] = "idle"
    /\ before' = [before EXCEPT ![c] = RowsIn(cache)]
    /\ mayAsk' = [mayAsk EXCEPT ![c] = order.delivered /\ order.linked]
    /\ due' = [due EXCEPT ![c] = Tables]
    /\ Goto(c, IF order.present THEN "query" ELSE "failed")
    /\ UNCHANGED <<order, cache, found, stored>>

(* Promise.all of the two findMany: they reach the database in any order.  *)
(* When both have answered, any row at all is the answer of the call;      *)
(* without one, an order that is not delivered, or not linked, is an error.*)
AfterQueriesStrict(c, rows) ==      \* variant: both tables must have rows
    IF \A table \in Tables : RowsIn(rows) \cap table # {} THEN "cached"
    ELSE IF mayAsk[c] THEN "ask" ELSE "failed"

AfterQueries(c, rows) ==
    IF RowsIn(rows) # {} THEN "cached"
    ELSE IF mayAsk[c] THEN "ask" ELSE "failed"

Query(c, table) ==
    LET rows == [r \in Rows |-> IF r \in table THEN cache[r] ELSE found[c][r]] IN
    /\ pc[c] = "query"
    /\ table \in due[c]
    /\ found' = [found EXCEPT ![c] = rows]
    /\ due' = [due EXCEPT ![c] = @ \ {table}]
    /\ Goto(c, IF due[c] = {table} THEN AfterQueries(c, rows) ELSE "query")
    /\ UNCHANGED <<order, cache, mayAsk, stored, before>>

(* GET .../evidences-payments: an answer, or an error that ends the call.  *)
AskUnchecked(c) ==                  \* variant: the error is taken for an answer
    /\ pc[c] = "ask"
    /\ \E answer \in Answers \cup {NoRow} : found' = [found EXCEPT ![c] = answer]
    /\ Goto(c, "store")
    /\ UNCHANGED <<order, cache, due, mayAsk, stored, before>>

Ask(c) ==
    /\ pc[c] = "ask"
    /\ \/ /\ \E answer \in Answers : found' = [found EXCEPT ![c] = answer]
          /\ Goto(c, "store")
       \/ Goto(c, "failed") /\ UNCHANGED found
    /\ UNCHANGED <<order, cache, due, mayAsk, stored, before>>

(* The rows after an upsert of each row of the answer: a row that is there *)
(* already keeps its date of creation, which the update leaves out.        *)
Replaced(answer) == answer          \* variant: delete, then insert

UpsertedRow(old, new) ==
    CASE new = NoRow -> old
      [] new # NoRow /\ old = NoRow -> new
      [] OTHER -> [version |-> new.version, created |-> old.created]

Upserted(answer) == [r \in Rows |-> UpsertedRow(cache[r], answer[r])]

(* persistEvidencesAndPayments: one transaction of all the upserts.  For   *)
(* an order that is gone it breaks the foreign key; an empty answer is no  *)
(* statement at all, and leaves nothing that a later call could find.      *)
StoreByTable(c) ==                  \* variant: a transaction per table
    /\ pc[c] = "store"
    /\ order.present
    /\ cache' = [r \in Rows |-> IF r \in Evidences THEN Upserted(found[c])[r] ELSE cache[r]]
    /\ stored' = stored \cup {c}
    /\ Goto(c, "reply")
    /\ UNCHANGED <<order, callVars>>

Store(c) ==
    /\ pc[c] = "store"
    /\ IF order.present \/ found[c] = Nothing
       THEN /\ cache' = Upserted(found[c])
            /\ stored' = stored \cup {c}
            /\ Goto(c, "reply")
       ELSE /\ Goto(c, "failed")
            /\ UNCHANGED <<cache, stored>>
    /\ UNCHANGED <<order, callVars>>

(* The response is sent once the transaction has committed. *)
Reply(c) ==
    /\ pc[c] = "reply"
    /\ Goto(c, "fetched")
    /\ UNCHANGED <<order, cache, stored, callVars>>

(* A lost connection, the victim of a deadlock of upserts, or the end of   *)
(* the process.                                                            *)
Fail(c) ==
    /\ c \in MayFail
    /\ pc[c] # "idle" /\ ~Ended(c)
    /\ Goto(c, "failed")
    /\ UNCHANGED <<order, cache, stored, callVars>>

Step(c) ==
    \/ \E table \in Tables : Query(c, table)
    \/ Ask(c) \/ Store(c) \/ Reply(c)

-----------------------------------------------------------------------------
(* What the modules Orders and AliclikSync model in detail.                *)

(* updateOrderStatus: the order becomes delivered, or stops being so.      *)
ChangeStatus ==
    /\ order.present
    /\ order' = [order EXCEPT !.delivered = ~@]
    /\ UNCHANGED <<cache, pc, stored, callVars>>

(* persistSyncSuccess: the order is linked to an order at Aliclik.         *)
LinkOrder ==
    /\ order.present
    /\ order' = [order EXCEPT !.linked = TRUE]
    /\ UNCHANGED <<cache, pc, stored, callVars>>

(* deleteOrder: the deletion cascades to both tables.                      *)
DeleteOrder ==
    /\ order.present
    /\ order' = [order EXCEPT !.present = FALSE]
    /\ cache' = Nothing
    /\ stored' = {}
    /\ UNCHANGED <<pc, callVars>>

Next ==
    \/ \E c \in Readers : ReadOrder(c) \/ Step(c) \/ Fail(c)
    \/ ChangeStatus
    \/ LinkOrder
    \/ DeleteOrder

Spec == Init /\ [][Next]_vars

-----------------------------------------------------------------------------
(* Properties *)

(* The tables are made of whole answers, whatever was stored before or     *)
(* over them and whichever call was cut short: every row has the contents  *)
(* that an answer gave it all of whose rows are there, and the date of     *)
(* creation that some answer gave it, which need not be the same answer.   *)
CacheIsWhole ==
    \A r \in RowsIn(cache) :
        /\ \E c \in stored :
              /\ found[c][r] # NoRow
              /\ found[c][r].version = cache[r].version
              /\ RowsIn(found[c]) \subseteq RowsIn(cache)
        /\ \E c \in stored :
              /\ found[c][r] # NoRow
              /\ found[c][r].created = cache[r].created

(* What a client was given of Aliclik's answer is in the tables as long as *)
(* the order is: everybody who asks later finds those rows.                *)
FetchedStays ==
    \A c \in Readers :
        pc[c] = "fetched" /\ order.present => RowsIn(found[c]) \subseteq RowsIn(cache)

(* Nobody is shown less than what was known when the call began, although  *)
(* its two queries may see the tables at different moments and others      *)
(* store other answers meanwhile.                                          *)
NobodySeesLess ==
    \A c \in Readers :
        pc[c] \in {"cached", "fetched"} /\ order.present =>
            before[c] \subseteq RowsIn(found[c])

(* Aliclik is asked only by calls that began when nothing was stored: once *)
(* there is a row, what Aliclik knows later is never asked for.            *)
AskedOnlyWhenEmpty ==
    \A c \in Readers :
        pc[c] \in {"ask", "store", "reply", "fetched"} /\ order.present => before[c] = {}
=============================================================================
