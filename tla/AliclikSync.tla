----------------------------- MODULE AliclikSync -----------------------------
(***************************************************************************)
(* AliclikService: how an order is mirrored at Aliclik.  Every call reads  *)
(* the order, talks to Aliclik with no transaction open, and then records  *)
(* the outcome, so calls for one order interleave freely.                  *)
(*                                                                         *)
(* createOrder draws a fresh number; the number that call c draws is named *)
(* c.  Aliclik may file the order under a number of its own: its answer    *)
(* then names it.  What an order contains is named after the edit that     *)
(* wrote it, or after the order while it is as it was created.  A request  *)
(* that is given up on may still be carried out by Aliclik, at any time.   *)
(*                                                                         *)
(* Left out: what confirm, prepare, reschedule and cancel do at Aliclik,   *)
(* and the order's status, which decides in Orders whether an edit or a    *)
(* deletion is let through.                                                *)
(***************************************************************************)
CONSTANTS
    Orders,
    Creates,            \* createOrder: after the insert, or POST me/:id/aliclik
    Retries,            \* admin POST :id/aliclik/retry
    Edits,              \* updateOrder of OrdersService
    Labels,             \* markLabelGenerated of OrdersService
    Changes,            \* update, confirm, prepare, reschedule, cancel routes
    Deletes,            \* deleteOrder of OrdersService
    Target,             \* the order a call is about
    OwnNumbers,         \* numbers that Aliclik gives
    Creator,            \* the creation that a number, drawn or given, is for
    NoOrder, NoNumber,
    MayCrash            \* calls whose process may die, or lose the database

Calls == Creates \cup Retries \cup Edits \cup Labels \cup Changes \cup Deletes

Drawn == Creates \cup Retries

Numbers == Drawn \cup OwnNumbers

Contents == Orders \cup Edits

ASSUME AliclikAssumption ==
    /\ Target \in [Calls -> Orders]
    /\ Creates \cap (Retries \cup Edits \cup Labels \cup Changes \cup Deletes) = {}
    /\ Retries \cap (Edits \cup Labels \cup Changes \cup Deletes) = {}
    /\ Edits \cap (Labels \cup Changes \cup Deletes) = {}
    /\ Labels \cap (Changes \cup Deletes) = {}
    /\ Changes \cap Deletes = {}
    /\ NoNumber \notin Numbers
    /\ OwnNumbers \cap Calls = {}
    /\ Creator \in [Numbers -> Drawn]
    /\ \A c \in Drawn : Creator[c] = c
    /\ NoOrder \notin Contents
    /\ Orders \cap Edits = {}

VARIABLES
    rows,               \* the Aliclik columns of each order
    contents,           \* what each order contains
    remote,             \* Aliclik: the order that each number was created for
    copy,               \* Aliclik: what it contains there
    unanswered,         \* requests given up on that Aliclik may still carry out
    pc,                 \* where each call is
    number,             \* the number each call works with
    payload,            \* what each call has read, and sends; NoOrder if nothing
    vouched,            \* history: contents that a call has recorded as sent
    crossed,            \* history: orders that two calls were about at once
    overtaken,          \* history: orders that a late request put back
    raced,              \* history: orders that two calls set out to create at once
    reported            \* history: creations whose failure the order was marked with

aliclik == <<remote, copy, unanswered>>

local == <<number, payload>>

history == <<vouched, crossed, overtaken, raced, reported>>

vars == <<rows, contents, aliclik, pc, local, history>>

Row ==
    [present : BOOLEAN, link : Numbers \cup {NoNumber},
     sync : {"NOT_SYNCED", "SYNCED", "ERROR"}]

NewRow(present) == [present |-> present, link |-> NoNumber, sync |-> "NOT_SYNCED"]

CallPoints ==
    {"idle", "done", "crashed", "edit.write", "create.read", "update.read",
     "create.send", "update.send", "save", "fail"}

TypeOK ==
    /\ rows \in [Orders -> Row]
    /\ contents \in [Orders -> Contents]
    /\ remote \in [Numbers -> Orders \cup {NoOrder}]
    /\ copy \in [Numbers -> Contents \cup {NoOrder}]
    /\ unanswered \subseteq Calls
    /\ pc \in [Calls -> CallPoints]
    /\ number \in [Calls -> Numbers \cup {NoNumber}]
    /\ payload \in [Calls -> Contents \cup {NoOrder}]
    /\ vouched \subseteq Contents
    /\ crossed \subseteq Orders /\ overtaken \subseteq Orders /\ raced \subseteq Orders
    /\ reported \subseteq Drawn

Init ==
    /\ rows = [o \in Orders |-> NewRow(TRUE)]
    /\ contents = [o \in Orders |-> o]
    /\ remote = [n \in Numbers |-> NoOrder]
    /\ copy = [n \in Numbers |-> NoOrder]
    /\ unanswered = {}
    /\ pc = [c \in Calls |-> "idle"]
    /\ number = [c \in Calls |-> NoNumber]
    /\ payload = [c \in Calls |-> NoOrder]
    /\ vouched = {}
    /\ crossed = {} /\ overtaken = {} /\ raced = {} /\ reported = {}

-----------------------------------------------------------------------------
Present(o) == rows[o].present

Linked(o) == Present(o) /\ rows[o].link # NoNumber

Goto(c, point) == pc' = [pc EXCEPT ![c] = point]

Ended(c) == pc[c] \in {"done", "crashed"}

UnderWay(c) == pc[c] # "idle" /\ ~Ended(c)

(* A call that begins while another about its order is under way.          *)
Begin(c) ==
    /\ pc[c] = "idle"
    /\ crossed' = IF \E d \in Calls : Target[d] = Target[c] /\ UnderWay(d)
                  THEN crossed \cup {Target[c]} ELSE crossed
    /\ UNCHANGED <<vouched, overtaken, raced, reported>>

-----------------------------------------------------------------------------
(* The entry points *)

CreateCall(c) ==
    /\ Begin(c)
    /\ Goto(c, "create.read")
    /\ UNCHANGED <<rows, contents, aliclik, local>>

(* retryOrderSync reads the link and then calls createOrder or updateOrder,*)
(* which read the order again.                                             *)
RetryRead(r) ==
    LET o == Target[r] IN
    /\ Begin(r)
    /\ Goto(r, IF ~Present(o) THEN "done"
               ELSE IF Linked(o) THEN "update.read" ELSE "create.read")
    /\ UNCHANGED <<rows, contents, aliclik, local>>

(* updateOrder: the order is read, its row is written by id, and Aliclik   *)
(* is told only of an order that was linked when it was read.              *)
EditRead(e) ==
    LET o == Target[e] IN
    /\ Begin(e)
    /\ IF Present(o)
       THEN /\ number' = [number EXCEPT ![e] = rows[o].link]
            /\ payload' = [payload EXCEPT ![e] = contents[o]]
            /\ Goto(e, "edit.write")
       ELSE Goto(e, "done") /\ UNCHANGED local
    /\ UNCHANGED <<rows, contents, aliclik>>

EditWrite(e) ==
    LET o == Target[e] IN
    /\ pc[e] = "edit.write"
    /\ contents' = IF Present(o) THEN [contents EXCEPT ![o] = e] ELSE contents
    /\ Goto(e, IF Present(o) /\ number[e] # NoNumber THEN "update.read" ELSE "done")
    /\ UNCHANGED <<rows, aliclik, local, history>>

(* markLabelGenerated: the same, and only when the label is being set,     *)
(* which is nothing that Aliclik is told.                                  *)
LabelRead(l) ==
    /\ Begin(l)
    /\ \E generated \in BOOLEAN :
          Goto(l, IF generated /\ Linked(Target[l]) THEN "update.read" ELSE "done")
    /\ UNCHANGED <<rows, contents, aliclik, local>>

ChangeCall(c) ==
    /\ Begin(c)
    /\ Goto(c, "update.read")
    /\ UNCHANGED <<rows, contents, aliclik, local>>

(* Nothing is cancelled at Aliclik. *)
DeleteOrder(d) ==
    /\ Begin(d)
    /\ rows' = [rows EXCEPT ![Target[d]] = NewRow(FALSE)]
    /\ Goto(d, "done")
    /\ UNCHANGED <<contents, aliclik, local>>

-----------------------------------------------------------------------------
(* What Aliclik does *)

(* The numbers a request may be about: a creation is filed under the       *)
(* number sent, or under one of Aliclik's own.                             *)
FiledAs(c) ==
    IF remote[number[c]] = NoOrder THEN {n \in Numbers : Creator[n] = number[c]}
    ELSE {number[c]}

(* A creation, or an update of what is there already; confirm, prepare,    *)
(* reschedule and cancel have no payload.                                  *)
CarryOut(c, n) ==
    /\ remote' = [remote EXCEPT ![n] = Target[c]]
    /\ copy' = IF payload[c] = NoOrder THEN copy ELSE [copy EXCEPT ![n] = payload[c]]

RequestUnnamed(c) ==                \* variant: the number in the answer is ignored
    \/ /\ \E n \in FiledAs(c) : CarryOut(c, n)
       /\ Goto(c, "save")
       /\ UNCHANGED <<unanswered, number>>
    \/ /\ unanswered' = unanswered \cup {c}
       /\ Goto(c, "fail")
       /\ UNCHANGED <<remote, copy, number>>

(* A request is carried out and answered, or ends with an error: it may    *)
(* have been refused or be carried out all the same, by now or later than  *)
(* the 30 s that the client waits.  The call goes on with                  *)
(* extractOrderNumber(answer) ?? orderNumber: an answer that names no      *)
(* number is about the one sent, and one that names a number tells the     *)
(* truth, which nothing checks.                                            *)
Request(c) ==
    \/ /\ \E n \in FiledAs(c) : CarryOut(c, n) /\ number' = [number EXCEPT ![c] = n]
       /\ Goto(c, "save")
       /\ UNCHANGED unanswered
    \/ /\ unanswered' = unanswered \cup {c}
       /\ Goto(c, "fail")
       /\ UNCHANGED <<remote, copy, number>>

(* An order is overtaken when a request given up on, carried out after a   *)
(* later one, puts older contents back.                                    *)
LateOutcome(c) ==
    LET o == Target[c] IN
    /\ c \in unanswered
    /\ unanswered' = unanswered \ {c}
    /\ \/ \E n \in FiledAs(c) :
             /\ CarryOut(c, n)
             /\ overtaken' = IF copy[n] = contents[o] /\ payload[c] \notin {NoOrder, contents[o]}
                             THEN overtaken \cup {o} ELSE overtaken
       \/ UNCHANGED <<remote, copy, overtaken>>
    /\ UNCHANGED <<rows, contents, pc, local, vouched, crossed, raced, reported>>

-----------------------------------------------------------------------------
(* createOrder *)

(* resolveOrderPayload: an order that is gone, linked already or without   *)
(* coordinates, and a failed quote, end the call with nothing recorded.    *)
(* Two calls race that have both found the order unlinked.                 *)
SetsOut(c) ==
    /\ number' = [number EXCEPT ![c] = c]
    /\ payload' = [payload EXCEPT ![c] = contents[Target[c]]]
    /\ Goto(c, "create.send")
    /\ raced' = IF \E d \in Drawn \ {c} :
                      Target[d] = Target[c] /\ pc[d] \in {"create.send", "save"}
                THEN raced \cup {Target[c]} ELSE raced

CreateReadUnchecked(c) ==           \* variant: isCreate is not checked
    /\ pc[c] = "create.read"
    /\ \/ Present(Target[c]) /\ SetsOut(c)
       \/ Goto(c, "done") /\ UNCHANGED <<local, raced>>
    /\ UNCHANGED <<rows, contents, aliclik, vouched, crossed, overtaken, reported>>

CreateRead(c) ==
    /\ pc[c] = "create.read"
    /\ \/ Present(Target[c]) /\ ~Linked(Target[c]) /\ SetsOut(c)
       \/ Goto(c, "done") /\ UNCHANGED <<local, raced>>
    /\ UNCHANGED <<rows, contents, aliclik, vouched, crossed, overtaken, reported>>

(* POST order *)
CreateSend(c) ==
    /\ pc[c] = "create.send"
    /\ Request(c)
    /\ UNCHANGED <<rows, contents, payload, history>>

-----------------------------------------------------------------------------
(* updateOrder, confirmOrder, prepareOrder, rescheduleOrder, cancelOrder:  *)
(* the link is required and the same number is stored again at the end.    *)

(* Only updateOrder sends what the order contains, read here once more.    *)
Sendable(c) ==
    LET read == contents[Target[c]] IN
    IF c \in Labels THEN {NoOrder}
    ELSE IF c \in Changes THEN {NoOrder, read} ELSE {read}

UpdateReadOnce(c) ==                \* variant: an edit sends what it read first
    /\ pc[c] = "update.read"
    /\ \/ /\ Linked(Target[c])
          /\ number' = [number EXCEPT ![c] = rows[Target[c]].link]
          /\ \E p \in IF c \in Edits THEN {payload[c]} ELSE Sendable(c) :
                payload' = [payload EXCEPT ![c] = p]
          /\ Goto(c, "update.send")
       \/ Goto(c, "done") /\ UNCHANGED local
    /\ UNCHANGED <<rows, contents, aliclik, history>>

UpdateRead(c) ==
    /\ pc[c] = "update.read"
    /\ \/ /\ Linked(Target[c])
          /\ number' = [number EXCEPT ![c] = rows[Target[c]].link]
          /\ \E p \in Sendable(c) : payload' = [payload EXCEPT ![c] = p]
          /\ Goto(c, "update.send")
       \/ Goto(c, "done") /\ UNCHANGED local
    /\ UNCHANGED <<rows, contents, aliclik, history>>

UpdateSend(c) ==
    /\ pc[c] = "update.send"
    /\ Request(c)
    /\ UNCHANGED <<rows, contents, payload, history>>

-----------------------------------------------------------------------------
(* persistSyncSuccess.  On a deleted order it throws, and so does the      *)
(* persistSyncFailure that the catch block then calls; any other error of  *)
(* the UPDATE is recorded by persistSyncFailure.                           *)
Save(c) ==
    LET o == Target[c] IN
    /\ pc[c] = "save"
    /\ \/ /\ Present(o)
          /\ rows' = [rows EXCEPT ![o] =
                         [@ EXCEPT !.link = number[c], !.sync = "SYNCED"]]
          /\ vouched' = IF payload[c] = NoOrder THEN vouched
                        ELSE vouched \cup {contents[o]}
          /\ Goto(c, "done")
       \/ /\ ~Present(o)
          /\ Goto(c, "done")
          /\ UNCHANGED <<rows, vouched>>
       \/ /\ Goto(c, "fail")
          /\ UNCHANGED <<rows, vouched>>
    /\ UNCHANGED <<contents, aliclik, local, crossed, overtaken, raced, reported>>

FailForgets(c) ==                   \* variant: "null" is stored as the sync status
    LET o == Target[c] IN
    /\ pc[c] = "fail"
    /\ rows' = IF Present(o)
               THEN [rows EXCEPT ![o] = [@ EXCEPT !.sync = NoNumber]]
               ELSE rows
    /\ Goto(c, "done")
    /\ UNCHANGED <<contents, aliclik, local, history>>

(* persistSyncFailure *)
Fail(c) ==
    LET o == Target[c] IN
    /\ pc[c] = "fail"
    /\ IF Present(o)
       THEN /\ rows' = [rows EXCEPT ![o] = [@ EXCEPT !.sync = "ERROR"]]
            /\ reported' = reported \cup ({c} \cap Drawn)
       ELSE UNCHANGED <<rows, reported>>
    /\ Goto(c, "done")
    /\ UNCHANGED <<contents, aliclik, local, vouched, crossed, overtaken, raced>>

Crash(c) ==
    /\ c \in MayCrash
    /\ pc[c] # "idle" /\ ~Ended(c)
    /\ Goto(c, "crashed")
    /\ UNCHANGED <<rows, contents, aliclik, local, history>>

-----------------------------------------------------------------------------
Arrive(c) ==
    \/ c \in Creates /\ CreateCall(c)
    \/ c \in Retries /\ RetryRead(c)
    \/ c \in Edits /\ EditRead(c)
    \/ c \in Labels /\ LabelRead(c)
    \/ c \in Changes /\ ChangeCall(c)
    \/ c \in Deletes /\ DeleteOrder(c)

Step(c) ==
    \/ c \in Creates \cup Retries /\ (CreateRead(c) \/ CreateSend(c))
    \/ c \in Edits /\ EditWrite(c)
    \/ c \in Retries \cup Edits \cup Labels \cup Changes /\ (UpdateRead(c) \/ UpdateSend(c))
    \/ Save(c) \/ Fail(c)

Terminating ==
    /\ \A c \in Calls : Ended(c)
    /\ UNCHANGED vars

Next ==
    \/ \E c \in Calls : Arrive(c) \/ Step(c) \/ LateOutcome(c) \/ Crash(c)
    \/ Terminating

Spec == Init /\ [][Next]_vars

-----------------------------------------------------------------------------
(* Properties *)

(* The number an order stores names an order that exists at Aliclik and    *)
(* mirrors it, and no order counts as SYNCED without one, whatever failed  *)
(* answers and overlapping calls there were (persistSyncSuccess).          *)
LinkedExists ==
    \A o \in Orders :
        /\ rows[o].link # NoNumber => remote[rows[o].link] = o
        /\ rows[o].sync = "SYNCED" => rows[o].link # NoNumber

(* A call that sent what an order contains and was recorded as SYNCED may  *)
(* be believed: Aliclik has those contents until they are edited again,    *)
(* whatever other requests failed or were lost, and also while requests    *)
(* that were given up on may still come through.  Two cases are excepted,  *)
(* in which the code does lose track: two calls about the order overlapped *)
(* (crossed), or a request given up on was carried out after a later one   *)
(* and did put older contents back (overtaken).                            *)
VouchedIsMirrored ==
    \A o \in Orders \ (crossed \cup overtaken) :
        Linked(o) /\ contents[o] \in vouched => copy[rows[o].link] = contents[o]

(* A mirror that its order does not know of has been reported: the order   *)
(* was marked ERROR by the call that asked for the mirror, or that call is *)
(* about to record it.  The mark may be gone by now, since a retry that    *)
(* succeeds clears it although the first request can still come through.   *)
(* Excepted are calls whose process died, and orders that two calls set    *)
(* out to create at once, where the second overwrites the first.           *)
OrphanReported ==
    \A n \in Numbers :
        LET o == remote[n]
            c == Creator[n]
        IN  o # NoOrder /\ Present(o) /\ rows[o].link # n =>
                \/ pc[c] \in {"save", "fail", "crashed"}
                \/ c \in reported
                \/ o \in raced

(* What the answer "Order is already linked to Aliclik" promises: an order *)
(* has at most one mirror.                                                 *)
OneMirror ==
    \A n, m \in Numbers : remote[n] = remote[m] /\ remote[n] # NoOrder => n = m
=============================================================================
