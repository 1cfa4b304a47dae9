----------------------------- MODULE BulkImport -----------------------------
(***************************************************************************)
(* bulkCreateOrders: one request loads the rows of a spreadsheet and makes *)
(* a createOrder call for each, in order, one after the other.  A row that *)
(* does not validate, or whose createOrder throws, is reported as an error *)
(* and the import goes on; nothing is undone.                              *)
(*                                                                         *)
(* The module composes that loop with Orders: the calls of an import are   *)
(* createOrder calls of Orders among all the others.  A sheet is the       *)
(* sequence of the calls its valid rows stand for, BadRow for the others.  *)
(***************************************************************************)
EXTENDS OrdersRefinement

CONSTANTS
    Imports,            \* POST orders/bulk requests
    Sheets,             \* sheets that users load
    BadRow,             \* a row that does not validate
    UnreadOrders        \* imports that may fail to read back a new order

VARIABLES
    importPc,           \* where each import is
    sheet,              \* the rows it loads
    report,             \* "results": the outcome of each row so far
    unread              \* history: new orders whose read-back failed

importVars == <<importPc, sheet, report, unread>>

ASSUME ImportAssumption ==
    /\ BadRow \notin Orders
    /\ Sheets \subseteq Seq(Orders \cup {BadRow})
    /\ \A rows \in Sheets : \A j, k \in DOMAIN rows :
          rows[j] = rows[k] => j = k \/ rows[j] = BadRow

(* What "results" says of a row.  An error does not say how far the row's  *)
(* createOrder had come.                                                   *)
RowResult == {"success", "error"}

ImportTypeOK ==
    /\ importPc \in [Imports -> {"idle", "next", "create", "read", "done", "cut"}]
    /\ sheet \in [Imports -> Seq(Orders \cup {BadRow})]
    /\ report \in [Imports -> Seq(RowResult)]
    /\ unread \subseteq Orders

ImportInit ==
    /\ Init
    /\ importPc = [i \in Imports |-> "idle"]
    /\ sheet = [i \in Imports |-> <<>>]
    /\ report = [i \in Imports |-> <<>>]
    /\ unread = {}

-----------------------------------------------------------------------------
(* The row that import i is at: "i" of the loop, from 1.                   *)
At(i) == Len(report[i]) + 1

RowsOf(i) == {sheet[i][k] : k \in DOMAIN sheet[i]}

(* createOrder calls that are the business of an import.                   *)
Imported == UNION {RowsOf(i) : i \in Imports}

ImportGoto(i, point) == importPc' = [importPc EXCEPT ![i] = point]

Record(i, result) == report' = [report EXCEPT ![i] = Append(@, result)]

Created(o) == orders[o].status # "UNUSED"

(* The profile is read, an incomplete one is a 400 answer; then the sheet  *)
(* is parsed.  Its createOrder calls are new.                              *)
ImportBegin(i) ==
    /\ importPc[i] = "idle"
    /\ \E p \in Profiles :
          IF ProfileCompleteForOrders(p)
          THEN \E rows \in Sheets :
                  /\ \A k \in DOMAIN rows :
                        rows[k] # BadRow => pc[rows[k]] = "idle" /\ rows[k] \notin Imported
                  /\ sheet' = [sheet EXCEPT ![i] = rows]
                  /\ ImportGoto(i, "next")
          ELSE ImportGoto(i, "done") /\ UNCHANGED sheet
    /\ UNCHANGED <<vars, report, unread>>

(* The order that the row import i is at stands for.                       *)
RowOrder(i) == sheet[i][At(i)]

(* validate(dto) finds errors: the row is reported, the loop continues.    *)
RowInvalid(i) ==
    /\ importPc[i] = "next"
    /\ At(i) \in DOMAIN sheet[i]
    /\ RowOrder(i) = BadRow
    /\ Record(i, "error")
    /\ UNCHANGED <<vars, importPc, sheet, unread>>

(* await this.createOrder(userId, dto): it begins like any other.          *)
RowCreateAhead(i) ==                \* variant: Promise.all over the rows
    /\ importPc[i] \in {"next", "create"}
    /\ \E k \in DOMAIN sheet[i] :
          /\ sheet[i][k] # BadRow
          /\ CreateBegin(sheet[i][k])
          /\ IF k = At(i) THEN ImportGoto(i, "create") ELSE UNCHANGED importPc
    /\ UNCHANGED <<sheet, report, unread>>

RowCreate(i) ==
    /\ importPc[i] = "next"
    /\ At(i) \in DOMAIN sheet[i]
    /\ RowOrder(i) # BadRow
    /\ CreateBegin(RowOrder(i))
    /\ ImportGoto(i, "create")
    /\ UNCHANGED <<sheet, report, unread>>

(* createOrder has thrown before its order was committed: an incomplete    *)
(* profile, no capacity, or a transaction that failed and rolled back.     *)
RowRefused(i) ==
    /\ importPc[i] = "create"
    /\ pc[RowOrder(i)] = "done"
    /\ Record(i, "error")
    /\ ImportGoto(i, "next")
    /\ UNCHANGED <<vars, sheet, unread>>

(* The order is committed and createOrder catches whatever the Aliclik     *)
(* synchronisation throws; it goes on to read the order back.              *)
RowSyncedThrows(i) ==               \* variant: the error is not caught
    /\ importPc[i] = "create"
    /\ CreateSync(RowOrder(i))
    /\ IF orders'[RowOrder(i)].linked
       THEN ImportGoto(i, "read") /\ UNCHANGED report
       ELSE ImportGoto(i, "next") /\ Record(i, "error")
    /\ UNCHANGED <<sheet, unread>>

RowSynced(i) ==
    /\ importPc[i] = "create"
    /\ CreateSync(RowOrder(i))
    /\ ImportGoto(i, "read")
    /\ UNCHANGED <<sheet, report, unread>>

(* return this.getMyOrder(userId, created.id) finds the order.             *)
RowSuccess(i) ==
    /\ importPc[i] = "read"
    /\ Present(RowOrder(i))
    /\ Record(i, "success")
    /\ ImportGoto(i, "next")
    /\ UNCHANGED <<vars, sheet, unread>>

(* It throws: the order has been deleted by now, or the query fails.       *)
RowUnread(i) ==
    /\ importPc[i] = "read"
    /\ \/ ~Present(RowOrder(i)) /\ UNCHANGED unread
       \/ i \in UnreadOrders /\ unread' = unread \cup {RowOrder(i)}
    /\ Record(i, "error")
    /\ ImportGoto(i, "next")
    /\ UNCHANGED <<vars, sheet>>

ImportEnd(i) ==
    /\ importPc[i] = "next"
    /\ At(i) \notin DOMAIN sheet[i]
    /\ ImportGoto(i, "done")
    /\ UNCHANGED <<vars, sheet, report, unread>>

(* The process stops: the import and the createOrder call it waits for.    *)
ImportCut(i) ==
    /\ importPc[i] \in {"next", "create", "read"}
    /\ IF importPc[i] = "create" /\ pc[RowOrder(i)] # "done"
       THEN Fail(RowOrder(i))
       ELSE UNCHANGED vars
    /\ ImportGoto(i, "cut")
    /\ UNCHANGED <<sheet, report, unread>>

-----------------------------------------------------------------------------
ImportAct(i) ==
    \/ ImportBegin(i) \/ RowInvalid(i) \/ RowCreate(i) \/ RowRefused(i)
    \/ RowSynced(i) \/ RowSuccess(i) \/ RowUnread(i)
    \/ ImportEnd(i) \/ ImportCut(i)

(* All the other calls, and those of imports up to their commit, which may *)
(* fail and throw.  What follows the commit is in the steps above.  A      *)
(* sheet has no column for recaudo, which is then false.                   *)
OrdersAct ==
    /\ \E c \in OrderCalls :
          IF c \in Imported
          THEN pc[c] # "create.sync" /\ (Step(c) \/ Fail(c))
          ELSE Arrive(c) \/ Step(c) \/ Fail(c)
    /\ \A o \in Orders \cap Imported : ~Created(o) => ~orders'[o].recaudo
    /\ UNCHANGED importVars

(* Every request has been answered; a row whose turn never came has none.  *)
ImportTerminating ==
    /\ \A i \in Imports : importPc[i] \in {"idle", "done", "cut"}
    /\ \A c \in OrderCalls : pc[c] = "done" \/ (c \in Imported /\ pc[c] = "idle")
    /\ UNCHANGED <<vars, importVars>>

ImportNext ==
    \/ \E i \in Imports : ImportAct(i)
    \/ OrdersAct
    \/ ImportTerminating

ImportSpec == ImportInit /\ [][ImportNext]_<<vars, importVars>>

-----------------------------------------------------------------------------
(* Properties *)

(* What the report says of a row stays true however the other requests go  *)
(* on: a success is an order that was committed, and an error leaves no    *)
(* order behind that somebody has not deleted -- a row that is loaded      *)
(* again is not doubled -- unless it was reading the new order back that   *)
(* failed.  Refused, timed out or rolled back, and whatever Aliclik does,  *)
(* createOrder must not throw between its commit and that read.            *)
ReportTruthful ==
    \A i \in Imports : \A k \in DOMAIN report[i] :
        LET row == sheet[i][k] IN
        /\ report[i][k] = "success" => row # BadRow /\ Created(row)
        /\ report[i][k] = "error" => row = BadRow \/ ~Present(row) \/ row \in unread

(* Rows become orders in the order of the sheet: when one has, every row   *)
(* before it has been reported.  An import that is cut short leaves the    *)
(* rows it has reached, and none after them.                               *)
RowsInOrder ==
    \A i \in Imports : \A k \in DOMAIN sheet[i] :
        sheet[i][k] # BadRow /\ Created(sheet[i][k]) => k <= At(i)
=============================================================================
