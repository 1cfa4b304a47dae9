------------------------- MODULE AliclikSyncProofs -------------------------
(***************************************************************************)
(* Theorems about AliclikSync for every set of orders and calls.           *)
(***************************************************************************)
EXTENDS AliclikSync, TLAPS

(* What a call is about to send or to store is known to be right: a        *)
(* creation works with its own number, every other call with a number that *)
(* mirrors its order, and a number is never created for another order.     *)
(* That is also true of a request that Aliclik may still carry out.        *)
NumbersInv ==
    /\ \A n \in Numbers : remote[n] \in {NoOrder, Target[Creator[n]]}
    /\ \A c \in Calls :
          /\ pc[c] = "create.send" => c \in Drawn /\ number[c] = c
          /\ pc[c] \in {"update.send", "save"} =>
                number[c] \in Numbers /\ remote[number[c]] = Target[c]
    /\ \A c \in unanswered :
          /\ pc[c] \in {"fail", "done", "crashed"}
          /\ number[c] \in Numbers
          /\ (c \in Drawn /\ number[c] = c) \/ remote[number[c]] = Target[c]

Inv == TypeOK /\ NumbersInv /\ LinkedExists

LEMMA ConstantFacts ==
    /\ Drawn \subseteq Calls
    /\ Drawn \subseteq Numbers
    /\ Creator \in [Numbers -> Drawn]
    /\ \A c \in Drawn : Creator[c] = c
    /\ Edits \subseteq Calls
    /\ Target \in [Calls -> Orders]
    /\ NoNumber \notin Numbers
    /\ NoOrder \notin Orders
    /\ Orders \subseteq Contents
    /\ Edits \subseteq Contents
  BY AliclikAssumption DEF Calls, Drawn, Numbers, Contents

LEMMA SavedRow ==
    ASSUME NEW row \in Row, NEW n \in Numbers
    PROVE  /\ [row EXCEPT !.link = n, !.sync = "SYNCED"] \in Row
           /\ [row EXCEPT !.link = n, !.sync = "SYNCED"].link = n
           /\ [row EXCEPT !.link = n, !.sync = "SYNCED"].sync = "SYNCED"
           /\ [row EXCEPT !.link = n, !.sync = "SYNCED"].present = row.present
  BY DEF Row

LEMMA RowFacts ==
    /\ \A b \in BOOLEAN : NewRow(b) \in Row
    /\ \A row \in Row :
          LET failed == [row EXCEPT !.sync = "ERROR"] IN
          /\ failed \in Row
          /\ failed.present = row.present /\ failed.link = row.link
          /\ failed.sync = "ERROR"
  BY DEF Row, NewRow

LEMMA Points ==
    CallPoints = {"idle", "done", "crashed", "edit.write", "create.read", "update.read",
                  "create.send", "update.send", "save", "fail"}
  BY DEF CallPoints

LEMMA InvInit == Init => Inv
  <1> SUFFICES ASSUME Init
               PROVE  Inv
    OBVIOUS
  <1> USE ConstantFacts DEF Init
  <1>1. TypeOK
    BY RowFacts, Points DEF TypeOK
  <1>2. NumbersInv
    BY DEF NumbersInv
  <1>3. LinkedExists
    BY DEF LinkedExists, NewRow
  <1>4. QED
    BY <1>1, <1>2, <1>3 DEF Inv

(* What a request works with when it is sent, or given up on.              *)
Sent(c) ==
    /\ number[c] \in Numbers
    /\ (c \in Drawn /\ number[c] = c) \/ remote[number[c]] = Target[c]

(* How an update or a creation is carried out, now or later.               *)
LEMMA CarriedOut ==
    ASSUME Inv, NEW c \in Calls, Sent(c), NEW n \in FiledAs(c), CarryOut(c, n)
    PROVE  /\ n \in Numbers
           /\ remote' \in [Numbers -> Orders \cup {NoOrder}]
           /\ copy' \in [Numbers -> Contents \cup {NoOrder}]
           /\ remote'[n] = Target[c]
           /\ copy'[n] = IF payload[c] = NoOrder THEN copy[n] ELSE payload[c]
           /\ \A m \in Numbers \ {n} : remote'[m] = remote[m] /\ copy'[m] = copy[m]
           /\ \/ n = number[c] /\ remote[n] = Target[c]
              \/ /\ c \in Drawn /\ number[c] = c
                 /\ remote[c] = NoOrder /\ Creator[n] = c
           /\ \A m \in Numbers : remote[m] # NoOrder => remote'[m] = remote[m]
           /\ \A m \in Numbers : remote'[m] \in {NoOrder, Target[Creator[m]]}
  <1>1. Target[c] \in Orders /\ Target[c] # NoOrder
    BY ConstantFacts
  <1>2. remote \in [Numbers -> Orders \cup {NoOrder}]
    BY DEF Inv, TypeOK
  <1>3. copy \in [Numbers -> Contents \cup {NoOrder}] /\ payload[c] \in Contents \cup {NoOrder}
    BY DEF Inv, TypeOK
  <1>4. \A m \in Numbers : remote[m] \in {NoOrder, Target[Creator[m]]}
    BY DEF Inv, NumbersInv
  <1>5. /\ n \in Numbers
        /\ \/ n = number[c] /\ remote[n] = Target[c]
           \/ c \in Drawn /\ number[c] = c /\ remote[c] = NoOrder /\ Creator[n] = c
    <2>1. CASE remote[number[c]] = NoOrder
      BY <1>1, <2>1, ConstantFacts DEF FiledAs, Sent
    <2>2. CASE remote[number[c]] # NoOrder
      <3>1. n = number[c] /\ n \in Numbers
        BY <2>2 DEF FiledAs, Sent
      <3>2. number[c] = c /\ c \in Drawn => remote[n] = Target[c]
        BY <1>4, <2>2, <3>1, ConstantFacts
      <3>3. QED
        BY <3>1, <3>2 DEF Sent
    <2>3. QED
      BY <2>1, <2>2
  <1>6. remote' = [remote EXCEPT ![n] = Target[c]]
    BY DEF CarryOut
  <1>7. copy' = copy \/ copy' = [copy EXCEPT ![n] = payload[c]]
    BY DEF CarryOut
  <1>8. copy' \in [Numbers -> Contents \cup {NoOrder}]
    BY <1>3, <1>5, <1>7
  <1>9. /\ copy'[n] = IF payload[c] = NoOrder THEN copy[n] ELSE payload[c]
        /\ \A m \in Numbers \ {n} : copy'[m] = copy[m]
    BY <1>3, <1>5 DEF CarryOut
  <1>10. /\ remote' \in [Numbers -> Orders \cup {NoOrder}]
         /\ remote'[n] = Target[c]
         /\ \A m \in Numbers \ {n} : remote'[m] = remote[m]
    BY <1>1, <1>2, <1>5, <1>6
  <1>11. remote[n] # NoOrder => remote[n] = Target[c]
    BY <1>4, <1>5
  <1>12. Target[Creator[n]] = Target[c]
    BY <1>1, <1>4, <1>5
  <1>13. QED
    BY <1>4, <1>5, <1>8, <1>9, <1>10, <1>11, <1>12

LEMMA Sending ==
    ASSUME Inv, NEW c \in Calls,
           pc[c] \in {"create.send", "update.send"} \/ c \in unanswered
    PROVE  Sent(c)
  BY ConstantFacts DEF Sent, Inv, NumbersInv

LEMMA BeginType ==
    ASSUME NEW c \in Calls, crossed \subseteq Orders, Begin(c)
    PROVE  crossed' \subseteq Orders /\ UNCHANGED <<vouched, overtaken, raced, reported>>
  BY ConstantFacts DEF Begin

LEMMA TypeStep == Inv /\ [Next]_vars => TypeOK'
  <1> SUFFICES ASSUME Inv, [Next]_vars
               PROVE  TypeOK'
    OBVIOUS
  <1> USE ConstantFacts DEF history
  <1>t. /\ rows \in [Orders -> Row]
        /\ contents \in [Orders -> Contents]
        /\ remote \in [Numbers -> Orders \cup {NoOrder}]
        /\ copy \in [Numbers -> Contents \cup {NoOrder}]
        /\ unanswered \subseteq Calls
        /\ pc \in [Calls -> CallPoints]
        /\ number \in [Calls -> Numbers \cup {NoNumber}]
        /\ payload \in [Calls -> Contents \cup {NoOrder}]
        /\ vouched \subseteq Contents
        /\ crossed \subseteq Orders /\ overtaken \subseteq Orders /\ raced \subseteq Orders
        /\ reported \subseteq Drawn
    BY DEF Inv, TypeOK
  <1>l. \A o \in Orders : rows[o].link \in Numbers \cup {NoNumber}
    BY <1>t DEF Row
  <1>1. ASSUME NEW c \in Creates, CreateCall(c)
        PROVE  TypeOK'
    BY <1>1, <1>t, Points, BeginType DEF CreateCall, Goto, TypeOK, Calls, aliclik, local
  <1>2. ASSUME NEW c \in Retries, RetryRead(c)
        PROVE  TypeOK'
    BY <1>2, <1>t, Points, BeginType DEF RetryRead, Goto, TypeOK, Calls, aliclik, local
  <1>3. ASSUME NEW c \in Edits, EditRead(c)
        PROVE  TypeOK'
    BY <1>3, <1>t, <1>l, Points, BeginType DEF EditRead, Goto, TypeOK, Calls, aliclik, local
  <1>4. ASSUME NEW c \in Edits, EditWrite(c)
        PROVE  TypeOK'
    BY <1>4, <1>t, Points DEF EditWrite, Goto, TypeOK, Calls, aliclik, local
  <1>5. ASSUME NEW c \in Labels, LabelRead(c)
        PROVE  TypeOK'
    BY <1>5, <1>t, Points, BeginType DEF LabelRead, Goto, TypeOK, Calls, aliclik, local
  <1>6. ASSUME NEW c \in Changes, ChangeCall(c)
        PROVE  TypeOK'
    BY <1>6, <1>t, Points, BeginType DEF ChangeCall, Goto, TypeOK, Calls, aliclik, local
  <1>7. ASSUME NEW c \in Deletes, DeleteOrder(c)
        PROVE  TypeOK'
    BY <1>7, <1>t, Points, BeginType, RowFacts
    DEF DeleteOrder, Goto, TypeOK, Calls, aliclik, local
  <1>8. ASSUME NEW c \in Creates \cup Retries, CreateRead(c)
        PROVE  TypeOK'
    BY <1>8, <1>t, Points DEF CreateRead, SetsOut, Goto, TypeOK, Drawn, aliclik, local
  <1>9. ASSUME NEW c \in Calls, pc[c] \in {"create.send", "update.send"}, Request(c),
               UNCHANGED <<rows, contents, payload, history>>
        PROVE  TypeOK'
    <2>1. Sent(c)
      BY <1>9, Sending
    <2>2. CASE \E n \in FiledAs(c) : CarryOut(c, n) /\ number' = [number EXCEPT ![c] = n]
      <3>1. PICK n \in FiledAs(c) : CarryOut(c, n) /\ number' = [number EXCEPT ![c] = n]
        BY <2>2
      <3>2. /\ n \in Numbers
            /\ remote' \in [Numbers -> Orders \cup {NoOrder}]
            /\ copy' \in [Numbers -> Contents \cup {NoOrder}]
        BY <2>1, <3>1, CarriedOut
      <3>3. number' \in [Calls -> Numbers \cup {NoNumber}]
        BY <3>1, <3>2, <1>t
      <3>4. pc' \in [Calls -> CallPoints] /\ unanswered' \subseteq Calls
        BY <1>9, <1>t, Points DEF Request, Goto
      <3>5. QED
        BY <1>9, <3>2, <3>3, <3>4, <1>t DEF TypeOK
    <2>3. CASE UNCHANGED <<remote, copy, number>>
      <3>1. pc' \in [Calls -> CallPoints] /\ unanswered' \subseteq Calls
        BY <1>9, <1>t, Points DEF Request, Goto
      <3>2. QED
        BY <1>9, <2>3, <3>1, <1>t DEF TypeOK
    <2>4. QED
      BY <1>9, <2>2, <2>3 DEF Request
  <1>10. ASSUME NEW c \in Calls, UpdateRead(c)
         PROVE  TypeOK'
    <2>1. Sendable(c) \subseteq Contents \cup {NoOrder}
      BY <1>t DEF Sendable
    <2>2. number' \in [Calls -> Numbers \cup {NoNumber}] /\ payload' \in [Calls -> Contents \cup {NoOrder}]
      BY <1>10, <2>1, <1>t, <1>l DEF UpdateRead, local
    <2>3. pc' \in [Calls -> CallPoints]
      BY <1>10, <1>t, Points DEF UpdateRead, Goto
    <2>4. QED
      BY <1>10, <2>2, <2>3, <1>t DEF UpdateRead, TypeOK, aliclik
  <1>11. ASSUME NEW c \in Calls, Save(c)
         PROVE  TypeOK'
    <2>1. number[c] \in Numbers /\ rows[Target[c]] \in Row
      BY <1>11, <1>t DEF Save, Inv, NumbersInv
    <2>2. [rows[Target[c]] EXCEPT !.link = number[c], !.sync = "SYNCED"] \in Row
      BY <2>1, SavedRow
    <2>3. rows' \in [Orders -> Row]
      BY <1>11, <2>2, <1>t DEF Save
    <2>4. vouched' \subseteq Contents /\ pc' \in [Calls -> CallPoints]
      BY <1>11, <1>t, Points DEF Save, Goto
    <2>5. QED
      BY <1>11, <2>3, <2>4, <1>t DEF Save, TypeOK, aliclik, local
  <1>12. ASSUME NEW c \in Calls, Fail(c)
         PROVE  TypeOK'
    BY <1>12, <1>t, Points, RowFacts DEF Fail, Goto, TypeOK, aliclik, local
  <1>13. ASSUME NEW c \in Calls, LateOutcome(c)
         PROVE  TypeOK'
    <2>1. Sent(c)
      BY <1>13, Sending DEF LateOutcome
    <2>2. /\ remote' \in [Numbers -> Orders \cup {NoOrder}]
          /\ copy' \in [Numbers -> Contents \cup {NoOrder}]
      BY <1>13, <2>1, <1>t, CarriedOut DEF LateOutcome
    <2>3. overtaken' \subseteq Orders
      BY <1>13, <1>t DEF LateOutcome
    <2>4. QED
      BY <1>13, <2>2, <2>3, <1>t DEF LateOutcome, TypeOK, local
  <1>14. ASSUME NEW c \in Calls, Crash(c)
         PROVE  TypeOK'
    BY <1>14, <1>t, Points DEF Crash, Goto, TypeOK, aliclik, local
  <1>15. CASE UNCHANGED vars
    BY <1>15, <1>t DEF vars, aliclik, local, TypeOK
  <1>16. QED
    BY <1>1, <1>2, <1>3, <1>4, <1>5, <1>6, <1>7, <1>8, <1>9, <1>10, <1>11, <1>12,
       <1>13, <1>14, <1>15
    DEF Next, Arrive, Step, Terminating, CreateSend, UpdateSend, Calls

(* A step that only moves call c, and perhaps gives it a number, keeps     *)
(* everything: nobody else's state is looked at.                           *)
LEMMA OnlyMoves ==
    ASSUME Inv, TypeOK', NEW c \in Calls, NEW p \in CallPoints,
           pc' = [pc EXCEPT ![c] = p],
           UNCHANGED <<rows, remote, unanswered>>,
           \A d \in Calls \ {c} : number'[d] = number[d],
           p = "create.send" => c \in Drawn /\ number'[c] = c,
           p \in {"update.send", "save"} =>
              number'[c] \in Numbers /\ remote[number'[c]] = Target[c],
           c \in unanswered =>
              p \in {"fail", "done", "crashed"} /\ number'[c] = number[c]
    PROVE  Inv'
  <1>t. /\ pc \in [Calls -> CallPoints]
        /\ unanswered \subseteq Calls
        /\ \A d \in Calls \ {c} : pc'[d] = pc[d] /\ number'[d] = number[d]
        /\ pc'[c] = p
    BY DEF Inv, TypeOK
  <1>1. NumbersInv'
    BY <1>t DEF Inv, NumbersInv
  <1>2. LinkedExists'
    BY DEF Inv, LinkedExists
  <1>3. QED
    BY <1>1, <1>2 DEF Inv

(* A step that carries out the request of c, now or late.                  *)
LEMMA Carries ==
    ASSUME Inv, TypeOK', NEW c \in Calls, Sent(c), NEW n \in FiledAs(c), CarryOut(c, n),
           \A d \in Calls \ {c} : pc'[d] = pc[d] /\ number'[d] = number[d],
           UNCHANGED rows,
           unanswered' \subseteq unanswered, c \notin unanswered',
           pc'[c] \in {"save", "fail", "done", "crashed"},
           pc'[c] = "save" => number'[c] = n
    PROVE  Inv'
  <1>c. /\ n \in Numbers /\ remote'[n] = Target[c]
        /\ \A m \in Numbers : remote[m] # NoOrder => remote'[m] = remote[m]
        /\ \A m \in Numbers : remote'[m] \in {NoOrder, Target[Creator[m]]}
    BY CarriedOut
  <1>t. unanswered \subseteq Calls /\ rows \in [Orders -> Row]
    BY DEF Inv, TypeOK
  <1>1. ASSUME NEW d \in Calls, NEW m \in Numbers, remote[m] = Target[d]
        PROVE  remote'[m] = Target[d]
    BY <1>1, <1>c, ConstantFacts
  <1>2. NumbersInv'
    <2>1. ASSUME NEW d \in Calls, pc'[d] \in {"update.send", "save"}
          PROVE  number'[d] \in Numbers /\ remote'[number'[d]] = Target[d]
      <3>1. CASE d = c
        BY <1>c, <2>1, <3>1
      <3>2. CASE d # c
        BY <1>1, <2>1, <3>2 DEF Inv, NumbersInv
      <3>3. QED
        BY <3>1, <3>2
    <2>2. ASSUME NEW d \in Calls, pc'[d] = "create.send"
          PROVE  d \in Drawn /\ number'[d] = d
      BY <2>2 DEF Inv, NumbersInv
    <2>3. ASSUME NEW d \in unanswered'
          PROVE  /\ pc'[d] \in {"fail", "done", "crashed"}
                 /\ number'[d] \in Numbers
                 /\ (d \in Drawn /\ number'[d] = d) \/ remote'[number'[d]] = Target[d]
      <3>1. d \in unanswered /\ d # c /\ d \in Calls
        BY <1>t, <2>3
      <3>2. QED
        BY <1>1, <3>1 DEF Inv, NumbersInv
    <2>4. QED
      BY <1>c, <2>1, <2>2, <2>3 DEF NumbersInv
  <1>3. LinkedExists'
    <2>1. ASSUME NEW o \in Orders, rows[o].link # NoNumber
          PROVE  rows[o].link \in Numbers /\ remote[rows[o].link] = o
      BY <2>1, <1>t DEF Inv, LinkedExists, Row
    <2>2. QED
      BY <1>c, <2>1, ConstantFacts DEF Inv, LinkedExists
  <1>4. QED
    BY <1>2, <1>3 DEF Inv

(* persistSyncSuccess of c has an order to write to.                       *)
Linking(c) ==
    LET o == Target[c] IN
    /\ Present(o)
    /\ rows' = [rows EXCEPT ![o] = [@ EXCEPT !.link = number[c], !.sync = "SYNCED"]]
    /\ vouched' = IF payload[c] = NoOrder THEN vouched ELSE vouched \cup {contents[o]}
    /\ Goto(c, "done")

LEMMA Links ==
    ASSUME Inv, NEW c \in Calls, pc[c] = "save", Linking(c)
    PROVE  /\ rows'[Target[c]].link = number[c] /\ rows'[Target[c]].sync = "SYNCED"
           /\ rows'[Target[c]].present = rows[Target[c]].present
           /\ \A q \in Orders \ {Target[c]} : rows'[q] = rows[q]
           /\ pc' = [pc EXCEPT ![c] = "done"]
  <1> DEFINE o == Target[c]
             old == rows[o]
             n == number[c]
             row == [old EXCEPT !.link = n, !.sync = "SYNCED"]
  <1>1. o \in Orders /\ rows \in [Orders -> Row] /\ old \in Row /\ n \in Numbers
    BY ConstantFacts DEF Inv, TypeOK, NumbersInv
  <1>2. rows' = [rows EXCEPT ![o] = row] /\ pc' = [pc EXCEPT ![c] = "done"]
    BY DEF Linking, Goto
  <1> HIDE DEF o, old, n
  <1>3. row.link = n /\ row.sync = "SYNCED" /\ row.present = old.present
    BY <1>1, SavedRow
  <1> HIDE DEF row
  <1>4. /\ rows'[o].link = n /\ rows'[o].sync = "SYNCED" /\ rows'[o].present = old.present
        /\ \A q \in Orders \ {o} : rows'[q] = rows[q]
    BY <1>1, <1>2, <1>3
  <1>5. QED
    BY <1>2, <1>4 DEF o, old, n

LEMMA Fails ==
    ASSUME Inv, NEW c \in Calls, Fail(c)
    PROVE  /\ \A q \in Orders : /\ rows'[q].present = rows[q].present
                                /\ rows'[q].link = rows[q].link
                                /\ rows'[q].sync \in {rows[q].sync, "ERROR"}
           /\ \A q \in Orders \ {Target[c]} : rows'[q] = rows[q]
           /\ c \in Drawn => c \in reported' \/ ~Present(Target[c])
  <1> DEFINE o == Target[c]
             row == [rows[o] EXCEPT !.sync = "ERROR"]
  <1>1. /\ o \in Orders /\ rows \in [Orders -> Row]
        /\ row.present = rows[o].present /\ row.link = rows[o].link /\ row.sync = "ERROR"
    BY RowFacts, ConstantFacts DEF Inv, TypeOK
  <1>2. rows' = rows \/ rows' = [rows EXCEPT ![o] = row]
    BY DEF Fail
  <1> HIDE DEF row
  <1>3. c \in Drawn => c \in reported' \/ ~Present(Target[c])
    BY DEF Fail
  <1>4. /\ \A q \in Orders : /\ rows'[q].present = rows[q].present
                             /\ rows'[q].link = rows[q].link
                             /\ rows'[q].sync \in {rows[q].sync, "ERROR"}
        /\ \A q \in Orders \ {o} : rows'[q] = rows[q]
    <2> HIDE DEF o
    <2> QED
      BY <1>1, <1>2
  <1>5. QED
    BY <1>3, <1>4

LEMMA InvStep == Inv /\ [Next]_vars => Inv'
  <1> SUFFICES ASSUME Inv, [Next]_vars
               PROVE  Inv'
    OBVIOUS
  <1> USE ConstantFacts
  <1>0. TypeOK'
    BY TypeStep
  <1>t. /\ rows \in [Orders -> Row]
        /\ remote \in [Numbers -> Orders \cup {NoOrder}]
        /\ unanswered \subseteq Calls
        /\ pc \in [Calls -> CallPoints]
        /\ number \in [Calls -> Numbers \cup {NoNumber}]
    BY DEF Inv, TypeOK
  <1>u. \A c \in unanswered : pc[c] \in {"fail", "done", "crashed"}
    BY DEF Inv, NumbersInv
  <1>1. ASSUME NEW c \in Creates, CreateCall(c)
        PROVE  Inv'
    BY <1>0, <1>1, <1>t, <1>u, Points, OnlyMoves
    DEF CreateCall, Begin, Goto, Calls, aliclik, local
  <1>2. ASSUME NEW c \in Retries, RetryRead(c)
        PROVE  Inv'
    <2>1. PICK p \in {"done", "update.read", "create.read"} : Goto(c, p)
      BY <1>2 DEF RetryRead
    <2>2. QED
      BY <1>0, <1>2, <2>1, <1>t, <1>u, Points, OnlyMoves
      DEF RetryRead, Begin, Goto, Calls, aliclik, local
  <1>3. ASSUME NEW c \in Edits, EditRead(c)
        PROVE  Inv'
    <2>1. PICK p \in {"done", "edit.write"} : Goto(c, p)
      BY <1>3 DEF EditRead
    <2>2. pc[c] = "idle" /\ UNCHANGED <<rows, aliclik>>
      BY <1>3 DEF EditRead, Begin
    <2>3. \A d \in Calls \ {c} : number'[d] = number[d]
      BY <1>3, <1>t DEF EditRead, local
    <2>4. QED
      BY <1>0, <2>1, <2>2, <2>3, <1>t, <1>u, Points, OnlyMoves DEF Goto, aliclik
  <1>4. ASSUME NEW c \in Edits, EditWrite(c)
        PROVE  Inv'
    <2>1. PICK p \in {"done", "update.read"} : Goto(c, p)
      BY <1>4 DEF EditWrite
    <2>2. QED
      BY <1>0, <1>4, <2>1, <1>t, <1>u, Points, OnlyMoves
      DEF EditWrite, Goto, aliclik, local
  <1>5. ASSUME NEW c \in Labels, LabelRead(c)
        PROVE  Inv'
    <2>1. PICK p \in {"done", "update.read"} : Goto(c, p)
      BY <1>5 DEF LabelRead
    <2>2. QED
      BY <1>0, <1>5, <2>1, <1>t, <1>u, Points, OnlyMoves
      DEF LabelRead, Begin, Goto, Calls, aliclik, local
  <1>6. ASSUME NEW c \in Changes, ChangeCall(c)
        PROVE  Inv'
    BY <1>0, <1>6, <1>t, <1>u, Points, OnlyMoves
    DEF ChangeCall, Begin, Goto, Calls, aliclik, local
  <1>7. ASSUME NEW c \in Deletes, DeleteOrder(c)
        PROVE  Inv'
    <2> DEFINE o == Target[c]
    <2>1. /\ c \in Calls /\ o \in Orders
          /\ rows' = [rows EXCEPT ![o] = NewRow(FALSE)]
          /\ pc' = [pc EXCEPT ![c] = "done"]
          /\ pc[c] = "idle"
          /\ UNCHANGED <<remote, number, unanswered>>
      BY <1>7 DEF DeleteOrder, Begin, Goto, Calls, aliclik, local
    <2>2. c \notin unanswered
      BY <2>1, <1>u
    <2>3. NumbersInv'
      BY <2>1, <2>2, <1>t DEF Inv, NumbersInv
    <2>4. LinkedExists'
      BY <2>1, <1>t DEF Inv, LinkedExists, NewRow
    <2>5. QED
      BY <1>0, <2>3, <2>4 DEF Inv
  <1>8. ASSUME NEW c \in Creates \cup Retries, CreateRead(c)
        PROVE  Inv'
    <2>0. /\ c \in Calls /\ c \in Drawn
          /\ pc[c] = "create.read"
          /\ UNCHANGED <<rows, remote, unanswered>>
      BY <1>8 DEF Calls, Drawn, CreateRead, aliclik
    <2>1. CASE /\ number' = [number EXCEPT ![c] = c]
               /\ Goto(c, "create.send")
      <3>1. /\ number'[c] = c
            /\ \A d \in Calls \ {c} : number'[d] = number[d]
        BY <2>0, <2>1, <1>t
      <3>2. QED
        BY <1>0, <2>0, <2>1, <3>1, <1>u, Points, OnlyMoves DEF Goto
    <2>2. CASE Goto(c, "done") /\ UNCHANGED local
      BY <1>0, <2>0, <2>2, <1>u, Points, OnlyMoves DEF Goto, local
    <2>3. QED
      BY <1>8, <2>1, <2>2 DEF CreateRead, SetsOut
  <1>9. ASSUME NEW c \in Calls, pc[c] \in {"create.send", "update.send"}, Request(c),
               UNCHANGED <<rows, contents, payload, history>>
        PROVE  Inv'
    <2>1. Sent(c) /\ c \notin unanswered
      BY <1>9, <1>u, Sending
    <2>2. ASSUME NEW n \in FiledAs(c), CarryOut(c, n),
                 number' = [number EXCEPT ![c] = n], Goto(c, "save"), UNCHANGED unanswered
          PROVE  Inv'
      <3>1. /\ \A d \in Calls \ {c} : pc'[d] = pc[d] /\ number'[d] = number[d]
            /\ pc'[c] = "save" /\ number'[c] = n
        BY <2>2, <1>t DEF Goto
      <3>2. QED
        BY <1>0, <1>9, <2>1, <2>2, <3>1, Carries
    <2>3. CASE /\ unanswered' = unanswered \cup {c}
               /\ Goto(c, "fail")
               /\ UNCHANGED <<remote, copy, number>>
      <3>1. /\ \A d \in Calls \ {c} : pc'[d] = pc[d]
            /\ pc'[c] = "fail"
        BY <2>3, <1>t DEF Goto
      <3>2. NumbersInv'
        BY <1>9, <2>1, <2>3, <3>1, <1>t DEF Inv, NumbersInv, Sent
      <3>3. LinkedExists'
        BY <1>9, <2>3 DEF Inv, LinkedExists
      <3>4. QED
        BY <1>0, <3>2, <3>3 DEF Inv
    <2>4. QED
      BY <1>9, <2>2, <2>3 DEF Request
  <1>10. ASSUME NEW c \in Calls, UpdateRead(c)
         PROVE  Inv'
    <2>0. /\ Target[c] \in Orders
          /\ pc[c] = "update.read"
          /\ UNCHANGED <<rows, remote, unanswered>>
      BY <1>10 DEF UpdateRead, aliclik
    <2> DEFINE n == rows[Target[c]].link
    <2>1. CASE /\ Linked(Target[c])
               /\ number' = [number EXCEPT ![c] = rows[Target[c]].link]
               /\ Goto(c, "update.send")
      <3>1. n \in Numbers /\ remote[n] = Target[c]
        BY <2>0, <2>1, <1>t DEF Linked, Inv, LinkedExists, Row
      <3>2. number' = [number EXCEPT ![c] = n]
        BY <2>1
      <3> HIDE DEF n
      <3>3. /\ number'[c] = n
            /\ \A d \in Calls \ {c} : number'[d] = number[d]
        BY <3>1, <3>2, <1>t
      <3>4. QED
        BY <1>0, <2>0, <2>1, <3>1, <3>3, <1>u, Points, OnlyMoves DEF Goto
    <2>2. CASE Goto(c, "done") /\ UNCHANGED local
      BY <1>0, <2>0, <2>2, <1>u, Points, OnlyMoves DEF Goto, local
    <2>3. QED
      BY <1>10, <2>1, <2>2 DEF UpdateRead
  <1>11. ASSUME NEW c \in Calls, Save(c)
         PROVE  Inv'
    <2> DEFINE o == Target[c]
    <2>0. /\ pc[c] = "save" /\ o \in Orders
          /\ UNCHANGED <<remote, number, unanswered>>
          /\ number[c] \in Numbers /\ remote[number[c]] = o
          /\ c \notin unanswered
      BY <1>11, <1>u DEF Save, Inv, NumbersInv, aliclik, local
    <2>1. CASE Linking(c)
      <3>1. /\ rows'[o].link = number[c]
            /\ \A q \in Orders \ {o} : rows'[q] = rows[q]
            /\ pc' = [pc EXCEPT ![c] = "done"]
        BY <2>0, <2>1, Links
      <3> HIDE DEF o
      <3>2. NumbersInv'
        BY <2>0, <3>1, <1>t DEF Inv, NumbersInv
      <3>3. LinkedExists'
        BY <2>0, <3>1, <1>t DEF Inv, LinkedExists
      <3>4. QED
        BY <1>0, <3>2, <3>3 DEF Inv
    <2>2. CASE (Goto(c, "done") \/ Goto(c, "fail")) /\ UNCHANGED rows
      BY <1>0, <2>0, <2>2, Points, OnlyMoves DEF Goto
    <2>3. QED
      BY <1>11, <2>1, <2>2 DEF Save, Linking
  <1>12. ASSUME NEW c \in Calls, Fail(c)
         PROVE  Inv'
    <2>0. /\ pc' = [pc EXCEPT ![c] = "done"]
          /\ UNCHANGED <<remote, number, unanswered>>
      BY <1>12 DEF Fail, Goto, aliclik, local
    <2>1. \A q \in Orders : /\ rows'[q].link = rows[q].link
                            /\ rows'[q].sync \in {rows[q].sync, "ERROR"}
      BY <1>12, Fails
    <2>2. NumbersInv'
      BY <2>0, <1>t DEF Inv, NumbersInv
    <2>3. LinkedExists'
      BY <2>0, <2>1 DEF Inv, LinkedExists
    <2>4. QED
      BY <1>0, <2>2, <2>3 DEF Inv
  <1>13. ASSUME NEW c \in Calls, LateOutcome(c)
         PROVE  Inv'
    <2>1. /\ c \in unanswered /\ pc[c] \in {"fail", "done", "crashed"}
          /\ Sent(c)
          /\ unanswered' = unanswered \ {c}
          /\ UNCHANGED <<rows, pc, number>>
      BY <1>13, <1>u, Sending DEF LateOutcome, local
    <2>2. ASSUME NEW n \in FiledAs(c), CarryOut(c, n)
          PROVE  Inv'
      BY <1>0, <2>1, <2>2, Carries
    <2>3. CASE UNCHANGED <<remote, copy>>
      BY <1>0, <2>1, <2>3 DEF Inv, NumbersInv, LinkedExists
    <2>4. QED
      BY <1>13, <2>2, <2>3 DEF LateOutcome
  <1>14. ASSUME NEW c \in Calls, Crash(c)
         PROVE  Inv'
    BY <1>0, <1>14, <1>t, <1>u, Points, OnlyMoves DEF Crash, Ended, Goto, aliclik, local
  <1>15. CASE UNCHANGED vars
    BY <1>0, <1>15 DEF vars, aliclik, local, Inv, NumbersInv, LinkedExists
  <1>16. QED
    BY <1>1, <1>2, <1>3, <1>4, <1>5, <1>6, <1>7, <1>8, <1>9, <1>10, <1>11, <1>12,
       <1>13, <1>14, <1>15
    DEF Next, Arrive, Step, Terminating, CreateSend, UpdateSend, Calls

LEMMA Invariant == Spec => []Inv
  BY InvInit, InvStep, PTL DEF Spec

(* Every reachable state is well typed.                                    *)
THEOREM TypeCorrect == Spec => []TypeOK
  <1>1. Inv => TypeOK
    BY DEF Inv
  <1>2. QED
    BY Invariant, <1>1, PTL

(* A number that an order stores was created at Aliclik for that order     *)
(* (persistSyncSuccess after a creation, a retry or an update).            *)
THEOREM LinksAreReal == Spec => []LinkedExists
  <1>1. Inv => LinkedExists
    BY DEF Inv
  <1>2. QED
    BY Invariant, <1>1, PTL

-----------------------------------------------------------------------------
(* OrphanReported.  A creation is filed once, and then its call is         *)
(* recording it or has ended (FiledInv).  Unless two calls race, whoever   *)
(* creates finds the order unlinked until it links it, and whoever updates *)
(* stores the link that is there already (CreateInv), so nobody replaces a *)
(* link.  A creation given up on is reported before it comes late          *)
(* (LateInv).                                                              *)
Unfiled(c) == \A n \in Numbers : Creator[n] = c => remote[n] = NoOrder

Creating(c) == pc[c] = "create.send" \/ (pc[c] = "save" /\ Creator[number[c]] = c)

FiledInv ==
    \A c \in Drawn :
        /\ \/ Unfiled(c)
           \/ pc[c] \in {"fail", "done", "crashed"}
           \/ pc[c] = "save" /\ Creator[number[c]] = c
        /\ c \in unanswered /\ number[c] = c => Unfiled(c)
        /\ \A m, n \in Numbers :
              /\ Creator[m] = c /\ remote[m] # NoOrder
              /\ Creator[n] = c /\ remote[n] # NoOrder
              => m = n

CreateInv ==
    \A o \in Orders \ raced : Present(o) =>
        \A c \in Calls : Target[c] = o =>
            /\ Creating(c) => rows[o].link = NoNumber
            /\ \A d \in Calls : Target[d] = o /\ Creating(c) /\ Creating(d) => c = d
            /\ pc[c] \in {"update.send", "save"} /\ ~Creating(c) => number[c] = rows[o].link

LateInv ==
    \A c \in Drawn \cap unanswered :
        Present(Target[c]) => pc[c] \in {"fail", "crashed"} \/ c \in reported

OrphanInv == FiledInv /\ CreateInv /\ LateInv /\ OrphanReported

LEMMA OrphanInit == Init => OrphanInv
  BY ConstantFacts
  DEF Init, OrphanInv, FiledInv, CreateInv, LateInv, OrphanReported, Unfiled, Creating

LEMMA CreatingFacts ==
    ASSUME Inv, NEW c \in Calls, Creating(c)
    PROVE  c \in Drawn /\ pc[c] \in {"create.send", "save"}
  BY ConstantFacts DEF Creating, Inv, NumbersInv

(* A step that sends nothing, stores no link, and reports a creation that  *)
(* was not recorded when it ends its call.                                 *)
LEMMA OrphanQuiet ==
    ASSUME Inv, OrphanInv, NEW c \in Calls, pc[c] # "done",
           NEW p, p \notin {"create.send", "update.send", "save"},
           \A d \in Calls \ {c} : pc'[d] = pc[d] /\ number'[d] = number[d],
           pc'[c] = p,
           UNCHANGED <<remote, unanswered, raced>>,
           reported \subseteq reported',
           \A q \in Orders : Present(q)' => Present(q) /\ rows'[q].link = rows[q].link,
           pc[c] \in {"save", "fail", "crashed"} =>
              /\ p \in {"fail", "done", "crashed"}
              /\ \/ p \in {"fail", "crashed"}
                 \/ c \in Drawn => c \in reported'
                 \/ ~Present(Target[c])'
                 \/ pc[c] = "save" /\ c \notin Drawn,
           c \in unanswered => number'[c] = number[c]
    PROVE  OrphanInv'
  <1> USE ConstantFacts
  <1>u. \A d \in unanswered : d \in Calls /\ pc[d] \in {"fail", "done", "crashed"}
    BY DEF Inv, TypeOK, NumbersInv
  <1>1. FiledInv'
    BY <1>u DEF OrphanInv, FiledInv, Unfiled
  <1>2. \A d \in Calls : Creating(d)' => Creating(d) /\ d # c
    BY DEF Creating
  <1>3. CreateInv'
    <2> SUFFICES ASSUME NEW o \in Orders \ raced, Present(o)', NEW d \in Calls, Target[d] = o
                 PROVE  /\ Creating(d)' => rows'[o].link = NoNumber
                        /\ \A e \in Calls :
                              Target[e] = o /\ Creating(d)' /\ Creating(e)' => d = e
                        /\ pc'[d] \in {"update.send", "save"} /\ ~Creating(d)' =>
                              number'[d] = rows'[o].link
      BY DEF CreateInv
    <2>1. /\ Creating(d) => rows[o].link = NoNumber
          /\ \A e \in Calls : Target[e] = o /\ Creating(d) /\ Creating(e) => d = e
          /\ pc[d] \in {"update.send", "save"} /\ ~Creating(d) => number[d] = rows[o].link
      BY DEF OrphanInv, CreateInv
    <2>2. rows'[o].link = rows[o].link
      OBVIOUS
    <2>3. d # c => (Creating(d)' <=> Creating(d))
      BY DEF Creating
    <2>4. QED
      BY <1>2, <2>1, <2>2, <2>3
  <1>4. LateInv'
    BY <1>u DEF OrphanInv, LateInv
  <1>5. OrphanReported'
    <2> SUFFICES ASSUME NEW n \in Numbers, remote[n] # NoOrder,
                        Present(remote[n])', rows'[remote[n]].link # n
                 PROVE  \/ pc'[Creator[n]] \in {"save", "fail", "crashed"}
                        \/ Creator[n] \in reported'
                        \/ remote[n] \in raced
      BY DEF OrphanReported, Present
    <2>1. remote[n] \in Orders /\ remote[n] = Target[Creator[n]] /\ Creator[n] \in Drawn
      BY DEF Inv, TypeOK, NumbersInv
    <2>2. \/ pc[Creator[n]] \in {"save", "fail", "crashed"}
          \/ Creator[n] \in reported
          \/ remote[n] \in raced
      BY <2>1 DEF OrphanInv, OrphanReported
    <2>3. QED
      BY <2>1, <2>2
  <1>6. QED
    BY <1>1, <1>3, <1>4, <1>5 DEF OrphanInv

(* A call that begins has done nothing yet.                                *)
LEMMA OrphanBegins ==
    ASSUME Inv, OrphanInv, NEW c \in Calls, Begin(c), NEW p,
           pc' = [pc EXCEPT ![c] = p],
           p \in {"done", "create.read", "update.read", "edit.write"},
           UNCHANGED aliclik,
           \A d \in Calls \ {c} : number'[d] = number[d],
           \A q \in Orders : Present(q)' => Present(q) /\ rows'[q].link = rows[q].link
    PROVE  OrphanInv'
  <1>1. /\ pc[c] = "idle" /\ pc'[c] = p
        /\ \A d \in Calls \ {c} : pc'[d] = pc[d]
        /\ UNCHANGED <<remote, unanswered, raced, reported>>
        /\ c \notin unanswered
    BY DEF Begin, aliclik, Inv, TypeOK, NumbersInv
  <1>2. QED
    BY <1>1, OrphanQuiet

LEMMA OrphanStep == Inv /\ Inv' /\ OrphanInv /\ [Next]_vars => OrphanInv'
  <1> SUFFICES ASSUME Inv, Inv', OrphanInv, [Next]_vars
               PROVE  OrphanInv'
    OBVIOUS
  <1> USE ConstantFacts DEF history
  <1>t. /\ rows \in [Orders -> Row]
        /\ remote \in [Numbers -> Orders \cup {NoOrder}]
        /\ unanswered \subseteq Calls
        /\ pc \in [Calls -> CallPoints]
        /\ number \in [Calls -> Numbers \cup {NoNumber}]
    BY DEF Inv, TypeOK
  <1>u. \A c \in unanswered : pc[c] \in {"fail", "done", "crashed"}
    BY DEF Inv, NumbersInv
  <1>k. rows' = rows =>
           \A q \in Orders : Present(q)' => Present(q) /\ rows'[q].link = rows[q].link
    BY DEF Present
  <1>r. \A n \in Numbers : remote[n] # NoOrder =>
           remote[n] = Target[Creator[n]] /\ Creator[n] \in Drawn /\ Creator[n] \in Calls
    BY DEF Inv, NumbersInv
  <1>1. ASSUME NEW c \in Calls, CreateCall(c) \/ RetryRead(c) \/ EditRead(c)
                                \/ LabelRead(c) \/ ChangeCall(c)
        PROVE  OrphanInv'
    <2>1. PICK p \in {"done", "create.read", "update.read", "edit.write"} :
             pc' = [pc EXCEPT ![c] = p]
      BY <1>1 DEF CreateCall, RetryRead, EditRead, LabelRead, ChangeCall, Goto
    <2>2. Begin(c) /\ UNCHANGED <<rows, aliclik>>
      BY <1>1 DEF CreateCall, RetryRead, EditRead, LabelRead, ChangeCall
    <2>3. \A d \in Calls \ {c} : number'[d] = number[d]
      BY <1>1, <1>t DEF CreateCall, RetryRead, EditRead, LabelRead, ChangeCall, local
    <2>4. QED
      BY <1>k, <2>1, <2>2, <2>3, OrphanBegins
  <1>2. ASSUME NEW c \in Calls, DeleteOrder(c)
        PROVE  OrphanInv'
    <2>1. /\ Begin(c) /\ pc' = [pc EXCEPT ![c] = "done"] /\ UNCHANGED <<aliclik, number>>
          /\ rows' = [rows EXCEPT ![Target[c]] = NewRow(FALSE)]
      BY <1>2 DEF DeleteOrder, Goto, local
    <2>2. \A q \in Orders : Present(q)' => Present(q) /\ rows'[q].link = rows[q].link
      BY <2>1, <1>t DEF Present, NewRow
    <2>3. QED
      BY <2>1, <2>2, OrphanBegins
  <1>3. ASSUME NEW c \in Calls, NEW p \in {"done", "update.read", "fail", "crashed"},
               Goto(c, p), UnderWay(c), UNCHANGED <<rows, aliclik, number, raced, reported>>,
               pc[c] = "save" =>
                  p \in {"fail", "crashed"} \/ (p = "done" /\ ~Present(Target[c])),
               pc[c] = "fail" => p = "crashed"
        PROVE  OrphanInv'
    <2>1. /\ pc[c] \notin {"done", "crashed"} /\ pc'[c] = p
          /\ \A d \in Calls \ {c} : pc'[d] = pc[d]
          /\ UNCHANGED <<remote, unanswered>>
      BY <1>3, <1>t DEF Goto, UnderWay, Ended, aliclik
    <2>2. ~Present(Target[c]) => ~Present(Target[c])'
      BY <1>3 DEF Present
    <2>3. pc[c] \in {"save", "fail", "crashed"} =>
             /\ p \in {"fail", "done", "crashed"}
             /\ p \in {"fail", "crashed"} \/ ~Present(Target[c])'
      BY <1>3, <2>1, <2>2
    <2>4. \A q \in Orders : Present(q)' => Present(q) /\ rows'[q].link = rows[q].link
      BY <1>3, <1>k
    <2>5. QED
      BY <1>3, <2>1, <2>3, <2>4, OrphanQuiet
  <1>4. ASSUME NEW c \in Edits, EditWrite(c)
        PROVE  OrphanInv'
    <2>1. PICK p \in {"done", "update.read"} : Goto(c, p)
      BY <1>4 DEF EditWrite
    <2>2. QED
      BY <1>3, <1>4, <2>1 DEF EditWrite, UnderWay, Ended, local
  <1>5. ASSUME NEW c \in Drawn, CreateRead(c)
        PROVE  OrphanInv'
    <2>0. pc[c] = "create.read" /\ UNCHANGED <<rows, aliclik, reported>> /\ c \in Calls
      BY <1>5 DEF CreateRead
    <2>1. CASE Goto(c, "done") /\ UNCHANGED <<local, raced>>
      BY <1>3, <2>0, <2>1 DEF UnderWay, Ended, local
    <2>2. CASE Present(Target[c]) /\ ~Linked(Target[c]) /\ SetsOut(c)
      <3>1. /\ pc'[c] = "create.send" /\ number'[c] = c
            /\ \A d \in Calls \ {c} : pc'[d] = pc[d] /\ number'[d] = number[d]
            /\ UNCHANGED <<rows, remote, unanswered, reported>>
            /\ raced \subseteq raced'
        BY <2>0, <2>2, <1>t DEF SetsOut, Goto, aliclik
      <3>2. c \notin unanswered /\ Unfiled(c)
        BY <2>0, <1>u DEF OrphanInv, FiledInv
      <3>3. FiledInv'
        BY <3>1, <3>2 DEF OrphanInv, FiledInv, Unfiled
      <3>4. \A d \in Calls \ {c} : Creating(d)' <=> Creating(d)
        BY <3>1 DEF Creating
      <3>5. CreateInv'
        <4> SUFFICES ASSUME NEW o \in Orders \ raced', Present(o), NEW d \in Calls, Target[d] = o
                     PROVE  /\ Creating(d)' => rows[o].link = NoNumber
                            /\ \A e \in Calls :
                                  Target[e] = o /\ Creating(d)' /\ Creating(e)' => d = e
                            /\ pc'[d] \in {"update.send", "save"} /\ ~Creating(d)' =>
                                  number'[d] = rows[o].link
          BY <3>1 DEF CreateInv, Present
        <4>1. /\ Creating(d) => rows[o].link = NoNumber
              /\ \A e \in Calls : Target[e] = o /\ Creating(d) /\ Creating(e) => d = e
              /\ pc[d] \in {"update.send", "save"} /\ ~Creating(d) => number[d] = rows[o].link
          BY <3>1 DEF OrphanInv, CreateInv
        <4>2. ASSUME NEW e \in Calls \ {c}, Target[e] = Target[c], o = Target[c]
              PROVE  ~Creating(e)
          BY <2>2, <4>2, CreatingFacts DEF SetsOut
        <4>3. CASE d = c
          BY <2>2, <3>1, <3>4, <4>2, <4>3 DEF Linked
        <4>4. CASE d # c
          BY <3>1, <3>4, <4>1, <4>2, <4>4
        <4>5. QED
          BY <4>3, <4>4
      <3>6. LateInv'
        BY <3>1, <3>2, <1>t DEF OrphanInv, LateInv, Present
      <3>7. OrphanReported'
        BY <3>1, <3>2, <1>r DEF OrphanInv, OrphanReported, Present, Unfiled
      <3>8. QED
        BY <3>3, <3>5, <3>6, <3>7 DEF OrphanInv
    <2>3. QED
      BY <1>5, <2>1, <2>2 DEF CreateRead
  <1>6. ASSUME NEW c \in Calls, UpdateRead(c)
        PROVE  OrphanInv'
    <2>0. pc[c] = "update.read" /\ UNCHANGED <<rows, aliclik, raced, reported>>
      BY <1>6 DEF UpdateRead
    <2>1. CASE Goto(c, "done") /\ UNCHANGED local
      BY <1>3, <2>0, <2>1 DEF UnderWay, Ended, local
    <2>2. CASE Goto(c, "update.send") /\ number' = [number EXCEPT ![c] = rows[Target[c]].link]
      <3>1. /\ pc'[c] = "update.send" /\ number'[c] = rows[Target[c]].link
            /\ \A d \in Calls \ {c} : pc'[d] = pc[d] /\ number'[d] = number[d]
            /\ UNCHANGED <<rows, remote, unanswered, raced, reported>>
        BY <2>0, <2>2, <1>t DEF Goto, aliclik
      <3>2. c \notin unanswered /\ (c \in Drawn => Unfiled(c))
        BY <2>0, <1>u DEF OrphanInv, FiledInv
      <3>3. FiledInv'
        BY <3>1, <3>2 DEF OrphanInv, FiledInv, Unfiled
      <3>4. /\ \A d \in Calls \ {c} : Creating(d)' <=> Creating(d)
            /\ ~Creating(c)'
        BY <3>1 DEF Creating
      <3>5. CreateInv'
        <4> SUFFICES ASSUME NEW o \in Orders \ raced, Present(o), NEW d \in Calls, Target[d] = o
                     PROVE  /\ Creating(d)' => rows[o].link = NoNumber
                            /\ \A e \in Calls :
                                  Target[e] = o /\ Creating(d)' /\ Creating(e)' => d = e
                            /\ pc'[d] \in {"update.send", "save"} /\ ~Creating(d)' =>
                                  number'[d] = rows[o].link
          BY <3>1 DEF CreateInv, Present
        <4>1. /\ Creating(d) => rows[o].link = NoNumber
              /\ \A e \in Calls : Target[e] = o /\ Creating(d) /\ Creating(e) => d = e
              /\ pc[d] \in {"update.send", "save"} /\ ~Creating(d) => number[d] = rows[o].link
          BY DEF OrphanInv, CreateInv
        <4>2. QED
          BY <3>1, <3>4, <4>1
      <3>6. LateInv'
        BY <3>1, <3>2, <1>t DEF OrphanInv, LateInv, Present
      <3>7. OrphanReported'
        BY <3>1, <3>2, <1>r DEF OrphanInv, OrphanReported, Present, Unfiled
      <3>8. QED
        BY <3>3, <3>5, <3>6, <3>7 DEF OrphanInv
    <2>3. QED
      BY <1>6, <2>1, <2>2 DEF UpdateRead
  <1>7. ASSUME NEW c \in Calls, pc[c] \in {"create.send", "update.send"}, Request(c),
               UNCHANGED <<rows, contents, payload, history>>
        PROVE  OrphanInv'
    <2>0. /\ Sent(c) /\ c \notin unanswered
          /\ c \in Drawn => Unfiled(c)
      BY <1>7, <1>u, Sending DEF OrphanInv, FiledInv
    <2>1. ASSUME NEW n \in FiledAs(c), CarryOut(c, n),
                 number' = [number EXCEPT ![c] = n], Goto(c, "save"), UNCHANGED unanswered
          PROVE  OrphanInv'
      <3>c. /\ n \in Numbers /\ remote'[n] = Target[c]
            /\ \A m \in Numbers \ {n} : remote'[m] = remote[m]
            /\ \/ n = number[c] /\ remote[n] = Target[c]
               \/ c \in Drawn /\ Creator[n] = c
        BY <2>0, <2>1, CarriedOut
      <3>1. /\ pc'[c] = "save" /\ number'[c] = n
            /\ \A d \in Calls \ {c} : pc'[d] = pc[d] /\ number'[d] = number[d]
            /\ UNCHANGED <<rows, unanswered, raced, reported>>
        BY <1>7, <2>1, <3>c, <1>t DEF Goto
      <3>2. Creator[n] = c <=> pc[c] = "create.send"
        <4>1. CASE pc[c] = "create.send"
          <5>1. c \in Drawn /\ number[c] = c
            BY <4>1 DEF Inv, NumbersInv
          <5>2. QED
            BY <3>c, <4>1, <5>1
        <4>2. CASE pc[c] = "update.send"
          <5>1. remote[number[c]] = Target[c] /\ Target[c] # NoOrder
            BY <4>2 DEF Inv, NumbersInv
          <5>2. n = number[c]
            BY <2>1, <5>1 DEF FiledAs
          <5>3. QED
            BY <2>0, <3>c, <4>2, <5>1, <5>2 DEF Unfiled
        <4>3. QED
          BY <1>7, <4>1, <4>2
      <3>3. \A m \in Numbers : Creator[m] # c => remote'[m] = remote[m]
        <4>1. Creator[n] # c => remote'[n] = remote[n]
          BY <3>c
        <4>2. QED
          BY <3>c, <4>1
      <3>4. FiledInv'
        <4> SUFFICES ASSUME NEW d \in Drawn
                     PROVE  /\ \/ Unfiled(d)'
                               \/ pc'[d] \in {"fail", "done", "crashed"}
                               \/ pc'[d] = "save" /\ Creator[number'[d]] = d
                            /\ d \in unanswered' /\ number'[d] = d => Unfiled(d)'
                            /\ \A l, m \in Numbers :
                                  /\ Creator[l] = d /\ remote'[l] # NoOrder
                                  /\ Creator[m] = d /\ remote'[m] # NoOrder
                                  => l = m
          BY DEF FiledInv
        <4>1. CASE d # c
          BY <3>1, <3>3, <4>1 DEF OrphanInv, FiledInv, Unfiled
        <4>2. CASE d = c
          <5>1. \A m \in Numbers \ {n} : Creator[m] = c => remote'[m] = NoOrder
            BY <2>0, <3>c, <4>2 DEF Unfiled
          <5>2. CASE Creator[n] = c
            BY <2>0, <3>1, <4>2, <5>1, <5>2
          <5>3. CASE Creator[n] # c
            BY <2>0, <3>1, <4>2, <5>1, <5>3 DEF Unfiled
          <5>4. QED
            BY <5>2, <5>3
        <4>3. QED
          BY <4>1, <4>2
      <3>5. \A d \in Calls : Creating(d)' <=> Creating(d)
        BY <1>7, <3>1, <3>2 DEF Creating
      <3>6. pc[c] = "update.send" => number'[c] = number[c]
        BY <3>1, <3>2, <3>c
      <3>7. CreateInv'
        BY <1>7, <3>1, <3>5, <3>6 DEF OrphanInv, CreateInv, Present, Creating
      <3>8. LateInv'
        BY <2>0, <3>1, <1>t DEF OrphanInv, LateInv, Present
      <3>9. OrphanReported'
        <4> SUFFICES ASSUME NEW m \in Numbers, remote'[m] # NoOrder,
                            Present(remote'[m]), rows[remote'[m]].link # m
                     PROVE  \/ pc'[Creator[m]] \in {"save", "fail", "crashed"}
                            \/ Creator[m] \in reported
                            \/ remote'[m] \in raced
          BY <3>1 DEF OrphanReported, Present
        <4>1. CASE Creator[m] = c
          BY <3>1, <4>1
        <4>2. CASE Creator[m] # c
          BY <3>1, <3>3, <4>2, <1>r DEF OrphanInv, OrphanReported
        <4>3. QED
          BY <4>1, <4>2
      <3>10. QED
        BY <3>4, <3>7, <3>8, <3>9 DEF OrphanInv
    <2>2. CASE /\ unanswered' = unanswered \cup {c}
               /\ Goto(c, "fail")
               /\ UNCHANGED <<remote, copy, number>>
      <3>1. /\ pc'[c] = "fail"
            /\ \A d \in Calls \ {c} : pc'[d] = pc[d]
            /\ UNCHANGED <<rows, remote, number, raced, reported>>
        BY <1>7, <2>2, <1>t DEF Goto
      <3>2. FiledInv'
        BY <2>0, <2>2, <3>1 DEF OrphanInv, FiledInv, Unfiled
      <3>3. \A d \in Calls : Creating(d)' <=> Creating(d) /\ d # c
        BY <3>1 DEF Creating
      <3>4. CreateInv'
        BY <3>1, <3>3 DEF OrphanInv, CreateInv, Present
      <3>5. LateInv'
        BY <2>2, <3>1, <1>t DEF OrphanInv, LateInv, Present
      <3>6. OrphanReported'
        BY <3>1, <1>r DEF OrphanInv, OrphanReported, Present
      <3>7. QED
        BY <3>2, <3>4, <3>5, <3>6 DEF OrphanInv
    <2>3. QED
      BY <1>7, <2>1, <2>2 DEF Request
  <1>8. ASSUME NEW c \in Calls, Save(c)
        PROVE  OrphanInv'
    <2>0. /\ pc[c] = "save" /\ Target[c] \in Orders
          /\ UNCHANGED <<remote, number, unanswered, raced, reported>>
          /\ number[c] \in Numbers /\ remote[number[c]] = Target[c]
          /\ c \notin unanswered
      BY <1>8, <1>u DEF Save, Inv, NumbersInv, aliclik, local
    <2>1. CASE Linking(c)
      <3>1. /\ rows'[Target[c]].link = number[c]
            /\ \A q \in Orders : rows'[q].present = rows[q].present
            /\ \A q \in Orders \ {Target[c]} : rows'[q] = rows[q]
            /\ pc'[c] = "done"
            /\ \A d \in Calls \ {c} : pc'[d] = pc[d]
        BY <2>0, <2>1, <1>t, Links
      <3>p. Present(Target[c])
        BY <2>1 DEF Linking
      <3>2. FiledInv'
        BY <2>0, <3>1 DEF OrphanInv, FiledInv, Unfiled
      <3>3. \A d \in Calls : Creating(d)' <=> Creating(d) /\ d # c
        BY <2>0, <3>1 DEF Creating
      <3>4. Target[c] \notin raced =>
               /\ Creating(c) => rows[Target[c]].link = NoNumber
               /\ ~Creating(c) => rows[Target[c]].link = number[c]
               /\ \A d \in Calls \ {c} : Target[d] = Target[c] => ~(Creating(c) /\ Creating(d))
        BY <2>0, <3>p DEF OrphanInv, CreateInv
      <3>5. CreateInv'
        <4> SUFFICES ASSUME NEW o \in Orders \ raced, Present(o)', NEW d \in Calls, Target[d] = o
                     PROVE  /\ Creating(d)' => rows'[o].link = NoNumber
                            /\ \A e \in Calls :
                                  Target[e] = o /\ Creating(d)' /\ Creating(e)' => d = e
                            /\ pc'[d] \in {"update.send", "save"} /\ ~Creating(d)' =>
                                  number'[d] = rows'[o].link
          BY <2>0 DEF CreateInv
        <4>1. /\ Present(o)
              /\ Creating(d) => rows[o].link = NoNumber
              /\ \A e \in Calls : Target[e] = o /\ Creating(d) /\ Creating(e) => d = e
              /\ pc[d] \in {"update.send", "save"} /\ ~Creating(d) => number[d] = rows[o].link
          BY <3>1 DEF OrphanInv, CreateInv, Present
        <4>2. CASE o # Target[c]
          BY <2>0, <3>1, <3>3, <4>1, <4>2
        <4>3. CASE o = Target[c] /\ ~Creating(c)
          BY <2>0, <3>1, <3>3, <3>4, <4>1, <4>3
        <4>4. CASE o = Target[c] /\ Creating(c)
          <5>1. ~Creating(d)'
            BY <3>3, <3>4, <4>4
          <5>2. pc'[d] \notin {"update.send", "save"}
            <6>1. ASSUME d # c, pc[d] \in {"update.send", "save"}
                  PROVE  FALSE
              <7>1. number[d] \in Numbers
                BY <6>1 DEF Inv, NumbersInv
              <7>2. number[d] = NoNumber
                BY <3>4, <4>1, <4>4, <6>1
              <7>3. QED
                BY <7>1, <7>2
            <6>2. QED
              BY <3>1, <6>1
          <5>3. QED
            BY <5>1, <5>2
        <4>5. QED
          BY <4>2, <4>3, <4>4
      <3>6. LateInv'
        BY <2>0, <3>1, <1>t DEF OrphanInv, LateInv, Present
      <3>7. OrphanReported'
        <4> SUFFICES ASSUME NEW n \in Numbers, remote[n] # NoOrder,
                            Present(remote[n])', rows'[remote[n]].link # n,
                            remote[n] \notin raced, Creator[n] \notin reported
                     PROVE  pc'[Creator[n]] \in {"save", "fail", "crashed"}
          BY <2>0 DEF OrphanReported, Present
        <4>0. remote[n] = Target[Creator[n]] /\ Creator[n] \in Drawn /\ Creator[n] \in Calls
          BY <1>r
        <4>1. /\ remote[n] = Target[Creator[n]] /\ Creator[n] \in Drawn /\ Creator[n] \in Calls
              /\ Present(remote[n]) /\ remote[n] \in Orders
          BY <2>0, <3>1, <4>0 DEF Present
        <4>2. rows[remote[n]].link # n
          <5>1. CASE remote[n] = Target[c]
            <6>1. rows[Target[c]].link \in {NoNumber, number[c]}
              BY <3>4, <5>1
            <6>2. n # number[c] /\ n # NoNumber
              BY <3>1, <5>1
            <6>3. QED
              BY <5>1, <6>1, <6>2
          <5>2. CASE remote[n] # Target[c]
            BY <3>1, <4>1, <5>2
          <5>3. QED
            BY <5>1, <5>2
        <4>3. pc[Creator[n]] \in {"save", "fail", "crashed"}
          BY <4>1, <4>2 DEF OrphanInv, OrphanReported
        <4>4. Creator[n] # c
          <5>1. SUFFICES ASSUME Creator[n] = c
                         PROVE  FALSE
            OBVIOUS
          <5>2. c \in Drawn /\ ~Unfiled(c)
            BY <4>1, <5>1 DEF Unfiled
          <5>3. Creator[number[c]] = c
            BY <2>0, <5>2 DEF OrphanInv, FiledInv
          <5>4. n = number[c]
            BY <2>0, <4>1, <5>1, <5>2, <5>3 DEF OrphanInv, FiledInv
          <5>5. QED
            BY <3>1, <4>1, <5>1, <5>4
        <4>5. QED
          BY <3>1, <4>1, <4>3, <4>4
      <3>8. QED
        BY <3>2, <3>5, <3>6, <3>7 DEF OrphanInv
    <2>2. CASE ~Present(Target[c]) /\ Goto(c, "done") /\ UNCHANGED rows
      BY <1>3, <1>8, <2>0, <2>2 DEF Save, UnderWay, Ended
    <2>3. CASE Goto(c, "fail") /\ UNCHANGED rows
      BY <1>3, <1>8, <2>0, <2>3 DEF Save, UnderWay, Ended
    <2>4. QED
      BY <1>8, <2>1, <2>2, <2>3 DEF Save, Linking
  <1>9. ASSUME NEW c \in Calls, Fail(c)
        PROVE  OrphanInv'
    <2>1. /\ pc[c] = "fail" /\ pc'[c] = "done"
          /\ \A d \in Calls \ {c} : pc'[d] = pc[d]
          /\ UNCHANGED <<remote, number, unanswered, raced>>
          /\ reported \subseteq reported'
      BY <1>9, <1>t DEF Fail, Goto, aliclik, local
    <2>2. /\ \A q \in Orders : Present(q)' => Present(q) /\ rows'[q].link = rows[q].link
          /\ ~Present(Target[c]) => ~Present(Target[c])'
          /\ c \in Drawn => c \in reported' \/ ~Present(Target[c])
      BY <1>9, Fails DEF Present
    <2>3. QED
      BY <2>1, <2>2, OrphanQuiet
  <1>10. ASSUME NEW c \in Calls, LateOutcome(c)
         PROVE  OrphanInv'
    <2>0. /\ c \in unanswered /\ Sent(c)
          /\ unanswered' = unanswered \ {c}
          /\ UNCHANGED <<rows, pc, number, raced, reported>>
      BY <1>10, Sending DEF LateOutcome, local
    <2>1. ASSUME NEW n \in FiledAs(c), CarryOut(c, n)
          PROVE  OrphanInv'
      <3>c. /\ n \in Numbers /\ remote'[n] = Target[c]
            /\ \A m \in Numbers \ {n} : remote'[m] = remote[m]
            /\ \/ n = number[c] /\ remote[n] = Target[c]
               \/ c \in Drawn /\ number[c] = c /\ Creator[n] = c
        BY <2>0, <2>1, CarriedOut
      <3>1. CASE remote' = remote
        BY <2>0, <3>1
        DEF OrphanInv, FiledInv, CreateInv, LateInv, OrphanReported, Unfiled, Creating, Present
      <3>2. CASE c \in Drawn /\ number[c] = c /\ Creator[n] = c
        <4>1. Unfiled(c)
          BY <2>0, <3>2 DEF OrphanInv, FiledInv
        <4>2. pc[c] \in {"fail", "done", "crashed"}
          BY <2>0, <1>u
        <4>3. \A m \in Numbers : Creator[m] # c => remote'[m] = remote[m]
          BY <3>c, <3>2
        <4>4. \A m \in Numbers \ {n} : Creator[m] = c => remote'[m] = NoOrder
          BY <3>c, <4>1 DEF Unfiled
        <4>5. FiledInv'
          <5>1. ASSUME NEW d \in Drawn, d # c
                PROVE  /\ Unfiled(d)' <=> Unfiled(d)
                       /\ \A m \in Numbers : Creator[m] = d => remote'[m] = remote[m]
            BY <4>3, <5>1 DEF Unfiled
          <5>2. QED
            BY <2>0, <4>2, <4>4, <5>1 DEF OrphanInv, FiledInv
        <4>6. CreateInv'
          BY <2>0 DEF OrphanInv, CreateInv, Creating, Present
        <4>7. LateInv'
          BY <2>0 DEF OrphanInv, LateInv, Present
        <4>8. OrphanReported'
          <5> SUFFICES ASSUME NEW m \in Numbers, remote'[m] # NoOrder,
                              Present(remote'[m]), rows[remote'[m]].link # m
                       PROVE  \/ pc[Creator[m]] \in {"save", "fail", "crashed"}
                              \/ Creator[m] \in reported
                              \/ remote'[m] \in raced
            BY <2>0 DEF OrphanReported, Present
          <5>1. CASE m = n
            BY <2>0, <3>c, <3>2, <5>1 DEF OrphanInv, LateInv
          <5>2. CASE m # n
            BY <3>c, <5>2 DEF OrphanInv, OrphanReported
          <5>3. QED
            BY <5>1, <5>2
        <4>9. QED
          BY <4>5, <4>6, <4>7, <4>8 DEF OrphanInv
      <3>3. CASE n = number[c] /\ remote[n] = Target[c]
        <4>1. remote' = remote
          BY <2>1, <3>3, <1>t DEF CarryOut
        <4>2. QED
          BY <3>1, <4>1
      <3>4. QED
        BY <3>c, <3>2, <3>3
    <2>2. CASE UNCHANGED <<remote, copy>>
      BY <2>0, <2>2
      DEF OrphanInv, FiledInv, CreateInv, LateInv, OrphanReported, Unfiled, Creating, Present
    <2>3. QED
      BY <1>10, <2>1, <2>2 DEF LateOutcome
  <1>11. ASSUME NEW c \in Calls, Crash(c)
         PROVE  OrphanInv'
    BY <1>3, <1>11 DEF Crash, UnderWay, local
  <1>12. CASE UNCHANGED vars
    BY <1>12
    DEF vars, aliclik, local,
        OrphanInv, FiledInv, CreateInv, LateInv, OrphanReported, Unfiled, Creating, Present
  <1>13. QED
    BY <1>1, <1>2, <1>4, <1>5, <1>6, <1>7, <1>8, <1>9, <1>10, <1>11, <1>12
    DEF Next, Arrive, Step, Terminating, CreateSend, UpdateSend, Calls, Drawn

(* A mirror that its order does not know of was reported by the call that  *)
(* asked for it, also when Aliclik creates it long after the request was   *)
(* given up on, unless that call is not yet done or died, or two calls set *)
(* out to create the order at once (persistSyncFailure, and the checks of  *)
(* the link in resolveOrderPayload).                                       *)
THEOREM OrphansAreReported == Spec => []OrphanReported
  <1>1. Inv /\ OrphanInv => OrphanReported
    BY DEF OrphanInv
  <1>2. Inv /\ OrphanInv /\ [Next]_vars => (Inv /\ OrphanInv)'
    BY InvStep, OrphanStep
  <1>3. QED
    BY InvInit, OrphanInit, <1>1, <1>2, PTL DEF Spec

-----------------------------------------------------------------------------
(* VouchedIsMirrored.  It is about orders that no two calls were about at  *)
(* once, so whoever acts on such an order is alone with it (Alone) and     *)
(* sends what the order contains (Faithful); a request given up on that is *)
(* carried out meanwhile does no harm if the order is not overtaken.       *)
(* Contents name one edit of one order, and only one that has been written *)
(* (NamesInv).                                                             *)
NamesInv ==
    /\ \A o \in Orders :
          \/ contents[o] = o
          \/ /\ contents[o] \in Edits
             /\ Target[contents[o]] = o
             /\ pc[contents[o]] \notin {"idle", "edit.write"}
    /\ \A e \in Edits \cap vouched : pc[e] \notin {"idle", "edit.write"}

Alone ==
    \A c, d \in Calls :
        c # d /\ Target[c] = Target[d] /\ UnderWay(c) /\ UnderWay(d) =>
            Target[c] \in crossed

SendsContents(c) ==
    LET o == Target[c] IN
    /\ pc[c] = "create.send" => payload[c] # NoOrder
    /\ pc[c] \in {"create.send", "update.send"} => payload[c] \in {NoOrder, contents[o]}
    /\ pc[c] = "save" /\ payload[c] # NoOrder => copy[number[c]] = contents[o]
    /\ pc[c] \in {"update.send", "save"} /\ payload[c] = NoOrder =>
          rows[o].link = number[c]

IsMirrored(o) ==
    Linked(o) /\ contents[o] \in vouched => copy[rows[o].link] = contents[o]

Faithful(o) ==
    /\ IsMirrored(o)
    /\ \A c \in Calls : Target[c] = o => SendsContents(c)

MirrorInv ==
    /\ NamesInv
    /\ Alone
    /\ \A o \in Orders \ (crossed \cup overtaken) : Faithful(o)

LEMMA MirrorInit == Init => MirrorInv
  BY ConstantFacts
  DEF Init, MirrorInv, NamesInv, Alone, Faithful, IsMirrored, SendsContents, UnderWay, Ended, Linked, NewRow

LEMMA NamesKept ==
    ASSUME Inv, NamesInv, NEW c \in Calls, NEW p,
           pc' = [pc EXCEPT ![c] = p],
           p \in {"idle", "edit.write"} => pc[c] \in {"idle", "edit.write"},
           UNCHANGED contents,
           NEW o \in Orders, vouched' \subseteq vouched \cup {contents[o]}
    PROVE  NamesInv'
  <1>1. pc \in [Calls -> CallPoints]
    BY DEF Inv, TypeOK
  <1>2. ASSUME NEW e \in Edits, pc[e] \notin {"idle", "edit.write"}
        PROVE  pc'[e] \notin {"idle", "edit.write"}
    BY <1>1, <1>2, ConstantFacts
  <1>3. ASSUME NEW e \in Edits \cap vouched'
        PROVE  pc[e] \notin {"idle", "edit.write"}
    BY <1>3, AliclikAssumption DEF NamesInv
  <1>4. QED
    BY <1>2, <1>3 DEF NamesInv

(* Nobody starts to be under way. *)
LEMMA AloneKept ==
    ASSUME Alone, crossed \subseteq crossed',
           \A d \in Calls : UnderWay(d)' => UnderWay(d)
    PROVE  Alone'
  BY DEF Alone

(* What a step of c, about another order, leaves of order q.               *)
LEMMA Elsewhere ==
    ASSUME Inv, Inv', MirrorInv, NEW c \in Calls,
           NEW q \in Orders \ (crossed \cup overtaken), q # Target[c],
           rows'[q] = rows[q], contents'[q] = contents[q],
           \A d \in Calls \ {c} :
              pc'[d] = pc[d] /\ number'[d] = number[d] /\ payload'[d] = payload[d],
           \A n \in Numbers : remote[n] # NoOrder => remote'[n] = remote[n],
           \A n \in Numbers : copy'[n] = copy[n] \/ remote'[n] = Target[c],
           vouched' \subseteq vouched \cup {contents[Target[c]]}
    PROVE  Faithful(q)'
  <1> USE ConstantFacts
  <1>0. Faithful(q)
    BY DEF MirrorInv
  <1>1. ASSUME NEW n \in Numbers, remote[n] = q
        PROVE  copy'[n] = copy[n]
    BY <1>1
  <1>2. contents[q] # contents[Target[c]]
    BY AliclikAssumption DEF MirrorInv, NamesInv
  <1>3. contents'[q] \in vouched' => contents[q] \in vouched
    BY <1>2
  <1>4. ASSUME Linked(q)', contents'[q] \in vouched'
        PROVE  copy'[rows'[q].link] = contents'[q]
    <2>1. Linked(q) /\ rows'[q].link = rows[q].link
      BY <1>4 DEF Linked, Present
    <2>2. rows[q].link \in Numbers /\ remote[rows[q].link] = q
      BY <2>1 DEF Linked, Inv, TypeOK, LinkedExists, Row
    <2>3. QED
      BY <1>0, <1>1, <1>3, <1>4, <2>1, <2>2 DEF Faithful, IsMirrored
  <1>5. ASSUME NEW d \in Calls, Target[d] = q
        PROVE  SendsContents(d)'
    <2>1. d # c
      BY <1>5
    <2>2. pc'[d] = pc[d] /\ number'[d] = number[d] /\ payload'[d] = payload[d]
      BY <2>1
    <2>3. pc[d] = "save" => copy'[number[d]] = copy[number[d]]
      BY <1>1, <1>5 DEF Inv, NumbersInv
    <2>4. QED
      BY <1>0, <1>5, <2>2, <2>3 DEF Faithful, SendsContents
  <1>6. QED
    BY <1>4, <1>5 DEF Faithful, IsMirrored

(* A call that begins finds nobody under way, or crosses somebody.         *)
LEMMA Begins ==
    ASSUME Inv, Inv', MirrorInv, NEW c \in Calls, NEW p,
           Begin(c), pc' = [pc EXCEPT ![c] = p],
           p \in {"done", "create.read", "update.read", "edit.write"},
           \A q \in Orders \ {Target[c]} : rows'[q] = rows[q],
           rows'[Target[c]] = rows[Target[c]] \/ ~Linked(Target[c])',
           UNCHANGED <<contents, aliclik>>,
           \A d \in Calls \ {c} : number'[d] = number[d] /\ payload'[d] = payload[d]
    PROVE  MirrorInv'
  <1> USE ConstantFacts
  <1>0. /\ pc \in [Calls -> CallPoints]
        /\ pc[c] = "idle" /\ pc'[c] = p
        /\ crossed \subseteq crossed'
        /\ crossed' \subseteq crossed \cup {Target[c]}
        /\ UNCHANGED <<vouched, overtaken>>
        /\ \A d \in Calls \ {c} : pc'[d] = pc[d]
        /\ UNCHANGED <<remote, copy, unanswered>>
        /\ Target[c] \in Orders
    BY DEF Inv, TypeOK, Begin, aliclik
  <1>1. NamesInv'
    BY <1>0, NamesKept DEF MirrorInv
  <1>2. Target[c] \notin crossed' => \A d \in Calls : Target[d] = Target[c] => ~UnderWay(d)
    BY DEF Begin
  <1>3. \A d \in Calls \ {c} : UnderWay(d)' => UnderWay(d)
    BY <1>0 DEF UnderWay, Ended
  <1>4. Alone'
    BY <1>0, <1>2, <1>3 DEF MirrorInv, Alone
  <1>5. ASSUME Target[c] \notin crossed' \cup overtaken
        PROVE  Faithful(Target[c])'
    <2>0. Faithful(Target[c])
      BY <1>0, <1>5 DEF MirrorInv
    <2>1. \A d \in Calls : Target[d] = Target[c] =>
             pc'[d] \notin {"create.send", "update.send", "save"}
      BY <1>0, <1>2, <1>5 DEF UnderWay, Ended
    <2>2. IsMirrored(Target[c])'
      BY <1>0, <2>0 DEF Faithful, IsMirrored, Linked, Present
    <2>3. QED
      BY <2>1, <2>2 DEF Faithful, SendsContents
  <1>6. ASSUME NEW q \in Orders \ (crossed' \cup overtaken), q # Target[c]
        PROVE  Faithful(q)'
    BY <1>0, <1>6, Elsewhere
  <1>7. QED
    BY <1>0, <1>1, <1>4, <1>5, <1>6 DEF MirrorInv

(* A step of a call under way: unless the order was crossed nobody else is *)
(* about it, so only the order and the call itself have to be looked at.   *)
LEMMA Proceeds ==
    ASSUME Inv, Inv', MirrorInv, NEW c \in Calls, UnderWay(c),
           UNCHANGED <<crossed, overtaken>>, NamesInv',
           \A d \in Calls \ {c} :
              pc'[d] = pc[d] /\ number'[d] = number[d] /\ payload'[d] = payload[d],
           \A q \in Orders \ {Target[c]} : rows'[q] = rows[q] /\ contents'[q] = contents[q],
           \A n \in Numbers : remote[n] # NoOrder => remote'[n] = remote[n],
           \A n \in Numbers : copy'[n] = copy[n] \/ remote'[n] = Target[c],
           vouched' \subseteq vouched \cup {contents[Target[c]]},
           Target[c] \notin crossed \cup overtaken =>
              IsMirrored(Target[c])' /\ SendsContents(c)'
    PROVE  MirrorInv'
  <1> USE ConstantFacts
  <1>1. \A d \in Calls : UnderWay(d)' => UnderWay(d)
    BY DEF UnderWay, Ended
  <1>2. Alone'
    BY <1>1, AloneKept DEF MirrorInv
  <1>3. ASSUME Target[c] \notin crossed \cup overtaken
        PROVE  Faithful(Target[c])'
    <2>1. ASSUME NEW d \in Calls \ {c}, Target[d] = Target[c]
          PROVE  SendsContents(d)'
      <3>1. ~UnderWay(d)'
        BY <1>1, <1>3, <2>1 DEF MirrorInv, Alone
      <3>2. QED
        BY <3>1 DEF UnderWay, Ended, SendsContents
    <2>2. QED
      BY <1>3, <2>1 DEF Faithful
  <1>4. ASSUME NEW q \in Orders \ (crossed \cup overtaken), q # Target[c]
        PROVE  Faithful(q)'
    BY <1>4, Elsewhere
  <1>5. QED
    BY <1>2, <1>3, <1>4 DEF MirrorInv

(* A step that only moves c, not to where it sends or saves, keeps what it *)
(* has sent and lost.                                                      *)
LEMMA Leaves ==
    ASSUME Inv, Inv', MirrorInv, NEW c \in Calls, UnderWay(c), NEW p,
           pc' = [pc EXCEPT ![c] = p],
           p \in {"create.read", "update.read", "fail", "done", "crashed"},
           \A q \in Orders : rows'[q].present = rows[q].present /\ rows'[q].link = rows[q].link,
           \A q \in Orders \ {Target[c]} : rows'[q] = rows[q],
           UNCHANGED <<contents, aliclik, local, vouched, crossed, overtaken>>
    PROVE  MirrorInv'
  <1> USE ConstantFacts
  <1>0. /\ pc \in [Calls -> CallPoints]
        /\ \A d \in Calls \ {c} : pc'[d] = pc[d]
        /\ pc'[c] = p
        /\ UNCHANGED <<remote, copy, unanswered, number, payload>>
    BY DEF Inv, TypeOK, aliclik, local
  <1>1. NamesInv'
    BY NamesKept DEF MirrorInv
  <1>2. ASSUME Target[c] \notin crossed \cup overtaken
        PROVE  IsMirrored(Target[c])' /\ SendsContents(c)'
    <2>1. Faithful(Target[c])
      BY <1>2 DEF MirrorInv
    <2>2. QED
      BY <1>0, <2>1 DEF Faithful, IsMirrored, SendsContents, Linked, Present
  <1>3. QED
    BY <1>0, <1>1, <1>2, Proceeds

LEMMA MirrorStep == Inv /\ Inv' /\ MirrorInv /\ [Next]_vars => MirrorInv'
  <1> SUFFICES ASSUME Inv, Inv', MirrorInv, [Next]_vars
               PROVE  MirrorInv'
    OBVIOUS
  <1> USE ConstantFacts DEF history
  <1>t. /\ rows \in [Orders -> Row]
        /\ contents \in [Orders -> Contents]
        /\ copy \in [Numbers -> Contents \cup {NoOrder}]
        /\ unanswered \subseteq Calls
        /\ pc \in [Calls -> CallPoints]
        /\ number \in [Calls -> Numbers \cup {NoNumber}]
        /\ payload \in [Calls -> Contents \cup {NoOrder}]
    BY DEF Inv, TypeOK
  <1>n. NoOrder \notin Contents
    BY AliclikAssumption
  <1>u. \A c \in unanswered : pc[c] \in {"fail", "done", "crashed"}
    BY DEF Inv, NumbersInv
  <1>f. \A c \in Calls : Target[c] \notin crossed \cup overtaken =>
           IsMirrored(Target[c]) /\ SendsContents(c)
    BY DEF MirrorInv, Faithful
  <1>1. ASSUME NEW c \in Creates, CreateCall(c)
        PROVE  MirrorInv'
    BY <1>1, Begins DEF CreateCall, Goto, Calls, local
  <1>2. ASSUME NEW c \in Retries, RetryRead(c)
        PROVE  MirrorInv'
    <2>1. PICK p \in {"done", "update.read", "create.read"} : Goto(c, p)
      BY <1>2 DEF RetryRead
    <2>2. QED
      BY <1>2, <2>1, Begins DEF RetryRead, Goto, Calls, local
  <1>3. ASSUME NEW c \in Edits, EditRead(c)
        PROVE  MirrorInv'
    <2>1. PICK p \in {"done", "edit.write"} : Goto(c, p)
      BY <1>3 DEF EditRead
    <2>2. Begin(c) /\ UNCHANGED <<rows, contents, aliclik>>
      BY <1>3 DEF EditRead
    <2>3. \A d \in Calls \ {c} : number'[d] = number[d] /\ payload'[d] = payload[d]
      BY <1>3, <1>t DEF EditRead, local
    <2>4. QED
      BY <2>1, <2>2, <2>3, Begins DEF Goto
  <1>4. ASSUME NEW c \in Edits, EditWrite(c)
        PROVE  MirrorInv'
    <2> DEFINE o == Target[c]
    <2>0. /\ c \in Calls /\ o \in Orders
          /\ pc[c] = "edit.write" /\ UnderWay(c)
          /\ c \notin unanswered
          /\ UNCHANGED <<rows, remote, copy, unanswered, number, payload, vouched, crossed, overtaken>>
      BY <1>4, <1>u DEF EditWrite, UnderWay, Ended, aliclik, local
    <2>1. PICK p \in {"done", "update.read"} : pc' = [pc EXCEPT ![c] = p]
      BY <1>4 DEF EditWrite, Goto
    <2>2. contents' = contents \/ contents' = [contents EXCEPT ![o] = c]
      BY <1>4 DEF EditWrite
    <2>3. c \notin vouched
      BY <2>0 DEF MirrorInv, NamesInv
    <2>4. /\ \A d \in Calls \ {c} : pc'[d] = pc[d]
          /\ pc'[c] = p
          /\ \A r \in Orders \ {o} : contents'[r] = contents[r]
          /\ contents'[o] \in {contents[o], c}
      BY <2>0, <2>1, <2>2, <1>t
    <2>5. NamesInv'
      <3>1. \A e \in Edits : pc'[e] \in {"idle", "edit.write"} => e # c /\ pc[e] = pc'[e]
        BY <2>1, <2>4
      <3>2. ASSUME NEW r \in Orders
            PROVE  \/ contents'[r] = r
                   \/ /\ contents'[r] \in Edits
                      /\ Target[contents'[r]] = r
                      /\ pc'[contents'[r]] \notin {"idle", "edit.write"}
        <4>1. \/ contents'[r] = contents[r]
              \/ contents'[r] = c /\ r = o
          BY <2>4
        <4>2. \/ contents[r] = r
              \/ /\ contents[r] \in Edits
                 /\ Target[contents[r]] = r
                 /\ pc[contents[r]] \notin {"idle", "edit.write"}
          BY DEF MirrorInv, NamesInv
        <4>3. CASE contents'[r] = contents[r]
          BY <3>1, <4>2, <4>3
        <4>4. CASE contents'[r] = c /\ r = o
          BY <3>1, <4>4
        <4>5. QED
          BY <4>1, <4>3, <4>4
      <3>3. QED
        BY <2>0, <3>1, <3>2 DEF MirrorInv, NamesInv
    <2>6. ASSUME o \notin crossed \cup overtaken
          PROVE  IsMirrored(o)' /\ SendsContents(c)'
      BY <1>f, <2>0, <2>1, <2>3, <2>4, <2>6 DEF IsMirrored, SendsContents, Linked, Present
    <2> HIDE DEF o
    <2>7. \A q \in Orders \ {Target[c]} : rows'[q] = rows[q] /\ contents'[q] = contents[q]
      BY <2>0, <2>4 DEF o
    <2>8. QED
      BY <2>0, <2>4, <2>5, <2>6, <2>7, Proceeds DEF o
  <1>5. ASSUME NEW c \in Labels, LabelRead(c)
        PROVE  MirrorInv'
    <2>1. PICK p \in {"done", "update.read"} : Goto(c, p)
      BY <1>5 DEF LabelRead
    <2>2. QED
      BY <1>5, <2>1, Begins DEF LabelRead, Goto, Calls, local
  <1>6. ASSUME NEW c \in Changes, ChangeCall(c)
        PROVE  MirrorInv'
    BY <1>6, Begins DEF ChangeCall, Goto, Calls, local
  <1>7. ASSUME NEW c \in Deletes, DeleteOrder(c)
        PROVE  MirrorInv'
    <2>1. /\ c \in Calls /\ Target[c] \in Orders
          /\ Begin(c) /\ pc' = [pc EXCEPT ![c] = "done"]
          /\ rows' = [rows EXCEPT ![Target[c]] = NewRow(FALSE)]
          /\ UNCHANGED <<contents, aliclik, local>>
      BY <1>7 DEF DeleteOrder, Goto, Calls
    <2>2. ~Linked(Target[c])' /\ \A q \in Orders \ {Target[c]} : rows'[q] = rows[q]
      BY <2>1, <1>t DEF Linked, Present, NewRow
    <2>3. QED
      BY <2>1, <2>2, Begins DEF local
  <1>8. ASSUME NEW c \in Creates \cup Retries, CreateRead(c)
        PROVE  MirrorInv'
    <2>0. /\ c \in Calls /\ Target[c] \in Orders
          /\ pc[c] = "create.read" /\ UnderWay(c) /\ c \notin unanswered
          /\ UNCHANGED <<rows, contents, remote, copy, unanswered, vouched, crossed, overtaken>>
      BY <1>8, <1>u DEF Calls, CreateRead, UnderWay, Ended, aliclik
    <2>1. CASE /\ number' = [number EXCEPT ![c] = c]
               /\ payload' = [payload EXCEPT ![c] = contents[Target[c]]]
               /\ Goto(c, "create.send")
      <3>1. /\ \A d \in Calls \ {c} :
                  pc'[d] = pc[d] /\ number'[d] = number[d] /\ payload'[d] = payload[d]
            /\ pc'[c] = "create.send" /\ payload'[c] = contents[Target[c]]
            /\ contents[Target[c]] # NoOrder
        BY <2>0, <2>1, <1>t, <1>n DEF Goto
      <3>2. NamesInv'
        BY <2>0, <2>1, NamesKept DEF Goto, MirrorInv
      <3>3. Target[c] \notin crossed \cup overtaken => IsMirrored(Target[c])' /\ SendsContents(c)'
        BY <1>f, <2>0, <3>1 DEF IsMirrored, SendsContents, Linked, Present
      <3>4. QED
        BY <2>0, <3>1, <3>2, <3>3, Proceeds
    <2>2. CASE Goto(c, "done") /\ UNCHANGED local
      BY <2>0, <2>2, Leaves DEF Goto, aliclik
    <2>3. QED
      BY <1>8, <2>1, <2>2 DEF CreateRead, SetsOut
  <1>9. ASSUME NEW c \in Calls, pc[c] \in {"create.send", "update.send"}, Request(c),
               UNCHANGED <<rows, contents, payload, history>>
        PROVE  MirrorInv'
    <2>0. Target[c] \in Orders /\ UnderWay(c) /\ Sent(c)
      BY <1>9, Sending DEF UnderWay, Ended
    <2>1. PICK p \in {"save", "fail"} : pc' = [pc EXCEPT ![c] = p]
      BY <1>9 DEF Request, Goto
    <2>2. NamesInv'
      BY <1>9, <2>0, <2>1, NamesKept DEF MirrorInv
    <2>3. ASSUME NEW n \in FiledAs(c), CarryOut(c, n),
                 number' = [number EXCEPT ![c] = n], Goto(c, "save"), UNCHANGED unanswered
          PROVE  MirrorInv'
      <3>1. /\ n \in Numbers /\ remote'[n] = Target[c]
            /\ copy'[n] = IF payload[c] = NoOrder THEN copy[n] ELSE payload[c]
            /\ \A l \in Numbers \ {n} : copy'[l] = copy[l]
            /\ \A l \in Numbers : remote[l] # NoOrder => remote'[l] = remote[l]
            /\ n = number[c] \/ (c \in Drawn /\ number[c] = c /\ remote[c] = NoOrder)
        BY <2>0, <2>3, CarriedOut
      <3>2. /\ \A d \in Calls \ {c} :
                  pc'[d] = pc[d] /\ number'[d] = number[d] /\ payload'[d] = payload[d]
            /\ pc'[c] = "save" /\ number'[c] = n /\ payload'[c] = payload[c]
            /\ UNCHANGED <<rows, contents, vouched, crossed, overtaken>>
        BY <1>9, <2>3, <3>1, <1>t DEF Goto
      <3>3. ASSUME Target[c] \notin crossed \cup overtaken
            PROVE  IsMirrored(Target[c])' /\ SendsContents(c)'
        <4>1. payload[c] \in {NoOrder, contents[Target[c]]}
          BY <1>9, <1>f, <3>3 DEF SendsContents
        <4>2. ASSUME Linked(Target[c])'
              PROVE  Linked(Target[c]) /\ rows[Target[c]].link \in Numbers
          BY <3>2, <2>0, <4>2, <1>t DEF Linked, Present, Row
        <4>3. IsMirrored(Target[c])'
          BY <1>f, <3>1, <3>2, <3>3, <4>1, <4>2 DEF IsMirrored
        <4>4. payload[c] = NoOrder => rows[Target[c]].link = n
          <5>1. ASSUME payload[c] = NoOrder
                PROVE  /\ pc[c] = "update.send"
                       /\ rows[Target[c]].link = number[c]
            BY <1>9, <1>f, <3>3, <5>1 DEF SendsContents
          <5>2. ASSUME pc[c] = "update.send"
                PROVE  remote[number[c]] # NoOrder
            BY <2>0, <5>2 DEF Inv, NumbersInv
          <5>3. QED
            BY <3>1, <5>1, <5>2
        <4>5. SendsContents(c)'
          BY <3>1, <3>2, <4>1, <4>4 DEF SendsContents
        <4>6. QED
          BY <4>3, <4>5
      <3>4. \A l \in Numbers : copy'[l] = copy[l] \/ remote'[l] = Target[c]
        BY <3>1
      <3>5. QED
        BY <2>0, <2>2, <3>1, <3>2, <3>3, <3>4, Proceeds
    <2>4. CASE Goto(c, "fail") /\ UNCHANGED <<remote, copy, number>>
      <3>1. /\ \A d \in Calls \ {c} :
                  pc'[d] = pc[d] /\ number'[d] = number[d] /\ payload'[d] = payload[d]
            /\ pc'[c] = "fail"
            /\ UNCHANGED <<rows, contents, vouched, crossed, overtaken>>
        BY <1>9, <2>4, <1>t DEF Goto
      <3>2. Target[c] \notin crossed \cup overtaken =>
               IsMirrored(Target[c])' /\ SendsContents(c)'
        BY <2>4, <1>f, <3>1 DEF IsMirrored, SendsContents, Linked, Present
      <3>3. QED
        BY <2>0, <2>2, <2>4, <3>1, <3>2, Proceeds
    <2>5. QED
      BY <1>9, <2>3, <2>4 DEF Request
  <1>10. ASSUME NEW c \in Calls, UpdateRead(c)
         PROVE  MirrorInv'
    <2>0. /\ Target[c] \in Orders
          /\ pc[c] = "update.read" /\ UnderWay(c) /\ c \notin unanswered
          /\ UNCHANGED <<rows, contents, remote, copy, unanswered, vouched, crossed, overtaken>>
      BY <1>10, <1>u DEF UpdateRead, UnderWay, Ended, aliclik
    <2>1. CASE /\ Linked(Target[c])
               /\ number' = [number EXCEPT ![c] = rows[Target[c]].link]
               /\ \E p \in Sendable(c) : payload' = [payload EXCEPT ![c] = p]
               /\ Goto(c, "update.send")
      <3>1. Sendable(c) \subseteq {NoOrder, contents[Target[c]]}
        BY DEF Sendable
      <3>2. /\ \A d \in Calls \ {c} :
                  pc'[d] = pc[d] /\ number'[d] = number[d] /\ payload'[d] = payload[d]
            /\ pc'[c] = "update.send"
            /\ number'[c] = rows[Target[c]].link
            /\ payload'[c] \in {NoOrder, contents[Target[c]]}
        BY <2>1, <3>1, <1>t DEF Goto
      <3>3. NamesInv'
        BY <2>0, <2>1, NamesKept DEF Goto, MirrorInv
      <3>4. Target[c] \notin crossed \cup overtaken => IsMirrored(Target[c])' /\ SendsContents(c)'
        BY <1>f, <2>0, <3>2 DEF IsMirrored, SendsContents, Linked, Present
      <3>5. QED
        BY <2>0, <3>2, <3>3, <3>4, Proceeds
    <2>2. CASE Goto(c, "done") /\ UNCHANGED local
      BY <2>0, <2>2, Leaves DEF Goto, aliclik
    <2>3. QED
      BY <1>10, <2>1, <2>2 DEF UpdateRead
  <1>11. ASSUME NEW c \in Calls, Save(c)
         PROVE  MirrorInv'
    <2> DEFINE o == Target[c]
    <2>0. /\ pc[c] = "save" /\ o \in Orders /\ UnderWay(c) /\ c \notin unanswered
          /\ UNCHANGED <<contents, aliclik, local, crossed, overtaken>>
          /\ UNCHANGED <<remote, copy, unanswered, number, payload>>
          /\ number[c] \in Numbers
      BY <1>11, <1>u DEF Save, UnderWay, Ended, aliclik, local, Inv, NumbersInv
    <2>1. CASE Linking(c)
      <3>3. /\ rows'[o].link = number[c] /\ rows'[o].present = rows[o].present
            /\ \A q \in Orders \ {o} : rows'[q] = rows[q]
            /\ \A d \in Calls \ {c} : pc'[d] = pc[d]
            /\ pc' = [pc EXCEPT ![c] = "done"] /\ pc'[c] = "done"
        BY <2>0, <2>1, <1>t, Links
      <3>v. vouched' = IF payload[c] = NoOrder THEN vouched ELSE vouched \cup {contents[o]}
        BY <2>1 DEF Linking
      <3> HIDE DEF o
      <3>4. NamesInv'
        <4>1. vouched' \subseteq vouched \cup {contents[o]}
          BY <3>v
        <4>2. QED
          BY <2>0, <3>3, <4>1, NamesKept DEF MirrorInv
      <3>5. ASSUME o \notin crossed \cup overtaken
            PROVE  IsMirrored(o)' /\ SendsContents(c)'
        <4>1. SendsContents(c) /\ IsMirrored(o)
          BY <1>f, <3>5 DEF o
        <4>2. CASE payload[c] # NoOrder
          BY <2>0, <3>3, <4>1, <4>2 DEF SendsContents, IsMirrored, o
        <4>3. CASE payload[c] = NoOrder
          <5>1. rows[o].link = number[c]
            BY <2>0, <4>1, <4>3 DEF SendsContents, o
          <5>2. QED
            BY <2>0, <3>v, <3>3, <4>1, <4>3, <5>1 DEF SendsContents, IsMirrored, Linked, Present
        <4>4. QED
          BY <4>2, <4>3
      <3>6. vouched' \subseteq vouched \cup {contents[Target[c]]}
        BY <3>v DEF o
      <3>7. QED
        BY <2>0, <3>3, <3>4, <3>5, <3>6, Proceeds DEF o
    <2>2. CASE /\ pc' = [pc EXCEPT ![c] = "done"] \/ pc' = [pc EXCEPT ![c] = "fail"]
               /\ UNCHANGED <<rows, vouched>>
      BY <2>0, <2>2, Leaves
    <2>3. QED
      BY <1>11, <2>1, <2>2 DEF Save, Linking, Goto
  <1>12. ASSUME NEW c \in Calls, Fail(c)
         PROVE  MirrorInv'
    <2>1. /\ UnderWay(c) /\ pc' = [pc EXCEPT ![c] = "done"]
          /\ UNCHANGED <<contents, aliclik, local, vouched, crossed, overtaken>>
      BY <1>12 DEF Fail, Goto, UnderWay, Ended
    <2>2. /\ \A q \in Orders : rows'[q].present = rows[q].present /\ rows'[q].link = rows[q].link
          /\ \A q \in Orders \ {Target[c]} : rows'[q] = rows[q]
      BY <1>12, Fails
    <2>3. QED
      BY <2>1, <2>2, Leaves
  <1>13. ASSUME NEW c \in Calls, LateOutcome(c)
         PROVE  MirrorInv'
    <2>0. /\ Sent(c)
          /\ UNCHANGED <<rows, contents, pc, number, payload, vouched, crossed>>
          /\ overtaken \subseteq overtaken'
      BY <1>13, Sending DEF LateOutcome, local
    <2>1. NamesInv' /\ Alone'
      BY <2>0 DEF MirrorInv, NamesInv, Alone, UnderWay, Ended
    <2>2. ASSUME NEW q \in Orders \ (crossed \cup overtaken'),
                 NEW n \in Numbers, remote[n] = q, copy[n] = contents[q]
          PROVE  copy'[n] = contents[q]
      <3>1. ASSUME NEW l \in FiledAs(c), CarryOut(c, l),
                   overtaken' = IF /\ copy[l] = contents[Target[c]]
                                   /\ payload[c] \notin {NoOrder, contents[Target[c]]}
                                THEN overtaken \cup {Target[c]} ELSE overtaken
            PROVE  copy'[n] = contents[q]
        <4>1. /\ l \in Numbers /\ remote'[l] = Target[c]
              /\ copy'[l] = IF payload[c] = NoOrder THEN copy[l] ELSE payload[c]
              /\ \A k \in Numbers \ {l} : copy'[k] = copy[k]
              /\ \A k \in Numbers : remote[k] # NoOrder => remote'[k] = remote[k]
          BY <2>0, <3>1, CarriedOut
        <4>2. CASE n # l
          BY <2>2, <4>1, <4>2
        <4>3. CASE n = l
          <5>1. Target[c] = q
            BY <2>2, <4>1, <4>3
          <5>2. payload[c] \in {NoOrder, contents[q]}
            BY <2>2, <3>1, <4>3, <5>1
          <5>3. QED
            BY <2>2, <4>1, <4>3, <5>2
        <4>4. QED
          BY <4>2, <4>3
      <3>2. CASE UNCHANGED <<remote, copy>>
        BY <2>2, <3>2
      <3>3. QED
        BY <1>13, <3>1, <3>2 DEF LateOutcome
    <2>3. ASSUME NEW q \in Orders \ (crossed \cup overtaken')
          PROVE  Faithful(q)'
      <3>1. Faithful(q)
        BY <2>0 DEF MirrorInv
      <3>2. Linked(q) => rows[q].link \in Numbers /\ remote[rows[q].link] = q
        BY <1>t DEF Linked, Inv, LinkedExists, Row
      <3>3. IsMirrored(q)'
        BY <2>0, <2>2, <3>1, <3>2 DEF Faithful, IsMirrored, Linked, Present
      <3>4. ASSUME NEW d \in Calls, Target[d] = q
            PROVE  SendsContents(d)'
        <4>1. pc[d] = "save" => number[d] \in Numbers /\ remote[number[d]] = q
          BY <3>4 DEF Inv, NumbersInv
        <4>2. QED
          BY <2>0, <2>2, <3>1, <3>4, <4>1 DEF Faithful, SendsContents
      <3>5. QED
        BY <3>3, <3>4 DEF Faithful
    <2>4. QED
      BY <2>0, <2>1, <2>3 DEF MirrorInv
  <1>14. ASSUME NEW c \in Calls, Crash(c)
         PROVE  MirrorInv'
    BY <1>14, Leaves DEF Crash, Goto, UnderWay
  <1>15. CASE UNCHANGED vars
    BY <1>15
    DEF vars, aliclik, local, MirrorInv, NamesInv, Alone, Faithful, IsMirrored,
        SendsContents, UnderWay, Ended, Linked, Present
  <1>16. QED
    BY <1>1, <1>2, <1>3, <1>4, <1>5, <1>6, <1>7, <1>8, <1>9, <1>10, <1>11, <1>12,
       <1>13, <1>14, <1>15
    DEF Next, Arrive, Step, Terminating, CreateSend, UpdateSend, Calls

(* A call that sent an order's contents and was recorded as SYNCED may be  *)
(* believed until the order is edited again, unless two calls about it     *)
(* overlapped or a request given up on was carried out after a later one   *)
(* (updateOrder and createOrder of AliclikService).                        *)
THEOREM SyncedIsTrue == Spec => []VouchedIsMirrored
  <1>1. Inv /\ MirrorInv => VouchedIsMirrored
    BY DEF MirrorInv, Faithful, IsMirrored, VouchedIsMirrored
  <1>2. Inv /\ MirrorInv /\ [Next]_vars => (Inv /\ MirrorInv)'
    BY InvStep, MirrorStep
  <1>3. QED
    BY InvInit, MirrorInit, <1>1, <1>2, PTL DEF Spec
=============================================================================
