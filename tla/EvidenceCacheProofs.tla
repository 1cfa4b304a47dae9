------------------------- MODULE EvidenceCacheProofs -------------------------
(***************************************************************************)
(* Theorems about EvidenceCache for every set of calls, rows and answers.  *)
(***************************************************************************)
EXTENDS EvidenceCache, TLAPS

(* What has been stored is still in the tables: deleting the order, which  *)
(* empties them, is the only way rows go.                                  *)
StoredInv ==
    /\ ~order.present => cache = Nothing
    /\ \A c \in stored :
          /\ pc[c] \in {"reply", "fetched", "failed"}
          /\ RowsIn(found[c]) \subseteq RowsIn(cache)
    /\ \A c \in Readers :
          pc[c] \in {"reply", "fetched"} /\ order.present =>
             RowsIn(found[c]) \subseteq RowsIn(cache)

(* The rows that were there when a call began still are, and it has read   *)
(* those of the tables that have answered it.                              *)
ReadingInv ==
    \A c \in Readers :
        order.present =>
           /\ pc[c] # "idle" => before[c] \subseteq RowsIn(cache)
           /\ pc[c] = "query" =>
                 \A table \in Tables \ due[c] :
                     before[c] \cap table \subseteq RowsIn(found[c])
           /\ pc[c] = "cached" => before[c] \subseteq RowsIn(found[c])
           /\ pc[c] \in {"ask", "store", "reply", "fetched"} => before[c] = {}

CacheInv == TypeOK /\ StoredInv /\ ReadingInv /\ CacheIsWhole

LEMMA CacheInvInit == Init => CacheInv
  <1> SUFFICES ASSUME Init
               PROVE  CacheInv
    OBVIOUS
  <1> USE DEF Init
  <1>1. Nothing \in Found
    BY DEF Nothing, Found
  <1>2. TypeOK
    BY <1>1 DEF TypeOK
  <1>3. StoredInv /\ ReadingInv
    BY DEF StoredInv, ReadingInv
  <1>4. CacheIsWhole
    BY DEF CacheIsWhole, RowsIn, Nothing
  <1>5. QED
    BY <1>2, <1>3, <1>4 DEF CacheInv

(* An upsert keeps every row and adds those of the answer, whose contents  *)
(* it takes; the date of creation only where there was no row.             *)
LEMMA UpsertedRows ==
    ASSUME cache \in Found, NEW answer \in Found
    PROVE  /\ Upserted(answer) \in Found
           /\ RowsIn(Upserted(answer)) = RowsIn(cache) \cup RowsIn(answer)
           /\ \A r \in RowsIn(answer) : Upserted(answer)[r].version = answer[r].version
           /\ \A r \in RowsIn(answer) \ RowsIn(cache) :
                 Upserted(answer)[r].created = answer[r].created
           /\ \A r \in RowsIn(cache) : Upserted(answer)[r].created = cache[r].created
           /\ \A r \in Rows \ RowsIn(answer) : Upserted(answer)[r] = cache[r]
  <1>1. ASSUME NEW old \in RowContents \cup {NoRow}, NEW new \in RowContents \cup {NoRow}
        PROVE  /\ new = NoRow => UpsertedRow(old, new) = old
               /\ new # NoRow /\ old = NoRow => UpsertedRow(old, new) = new
               /\ new # NoRow /\ old # NoRow =>
                     /\ UpsertedRow(old, new) \in RowContents
                     /\ UpsertedRow(old, new).version = new.version
                     /\ UpsertedRow(old, new).created = old.created
    <2>1. CASE new = NoRow
      BY <2>1 DEF UpsertedRow
    <2>2. CASE new # NoRow /\ old = NoRow
      BY <2>2 DEF UpsertedRow
    <2>3. CASE new # NoRow /\ old # NoRow
      <3>1. UpsertedRow(old, new) = [version |-> new.version, created |-> old.created]
        BY <2>3 DEF UpsertedRow
      <3>2. new \in RowContents /\ old \in RowContents
        BY <2>3
      <3>3. QED
        BY <2>3, <3>1, <3>2 DEF RowContents
    <2>4. QED
      BY <2>1, <2>2, <2>3
  <1>2. NoRow \notin RowContents
    BY EvidenceAssumption
  <1>3. \A r \in Rows :
           /\ cache[r] \in RowContents \cup {NoRow}
           /\ answer[r] \in RowContents \cup {NoRow}
           /\ Upserted(answer)[r] = UpsertedRow(cache[r], answer[r])
    BY DEF Upserted, Found
  <1>4. \A r \in Rows : Upserted(answer)[r] \in RowContents \cup {NoRow}
    BY <1>1, <1>2, <1>3
  <1>5. QED
    BY <1>1, <1>2, <1>3, <1>4 DEF Upserted, Found, RowsIn

(* Steps that move one call and leave the tables and the order alone.      *)
LEMMA MovedCall ==
    ASSUME CacheInv, NEW c \in Readers, NEW point,
           pc' = [pc EXCEPT ![c] = point],
           c \notin stored,
           \A d \in Readers \ {c} : found'[d] = found[d],
           UNCHANGED <<order, cache, stored>>
    PROVE  /\ CacheIsWhole'
           /\ point \notin {"reply", "fetched"} => StoredInv'
  <1> USE DEF CacheInv, TypeOK
  <1>1. \A d \in stored : pc'[d] = pc[d] /\ found'[d] = found[d]
    OBVIOUS
  <1>2. CacheIsWhole'
    BY <1>1 DEF CacheIsWhole, RowsIn
  <1>3. ASSUME point \notin {"reply", "fetched"}
        PROVE  StoredInv'
    BY <1>1, <1>3 DEF StoredInv, RowsIn
  <1>4. QED
    BY <1>2, <1>3

LEMMA CacheInvStep == CacheInv /\ [Next]_vars => CacheInv'
  <1> SUFFICES ASSUME CacheInv, [Next]_vars
               PROVE  CacheInv'
    OBVIOUS
  <1> DEFINE Points == {"idle", "query", "ask", "store", "reply",
                        "cached", "fetched", "failed"}
  <1>t. /\ order \in [present : BOOLEAN, delivered : BOOLEAN, linked : BOOLEAN]
        /\ cache \in Found
        /\ pc \in [Readers -> Points]
        /\ due \in [Readers -> SUBSET Tables]
        /\ mayAsk \in [Readers -> BOOLEAN]
        /\ found \in [Readers -> Found]
        /\ stored \subseteq Readers
        /\ before \in [Readers -> SUBSET Rows]
    BY DEF CacheInv, TypeOK
  <1>i. StoredInv /\ ReadingInv /\ CacheIsWhole
    BY DEF CacheInv
  <1>s. \A c \in Readers : pc[c] \in {"idle", "query", "ask", "store"} => c \notin stored
    BY <1>i DEF StoredInv
  <1>1. ASSUME NEW c \in Readers, ReadOrder(c)
        PROVE  CacheInv'
    <2> USE <1>1 DEF ReadOrder, Goto
    <2>1. TypeOK'
      BY <1>t DEF TypeOK, RowsIn
    <2>2. StoredInv' /\ CacheIsWhole'
      <3>1. PICK point \in {"query", "failed"} : pc' = [pc EXCEPT ![c] = point]
        OBVIOUS
      <3>2. c \notin stored /\ UNCHANGED <<order, cache, found, stored>>
        BY <1>s
      <3>3. \A d \in Readers \ {c} : found'[d] = found[d]
        BY <3>2
      <3>4. QED
        BY <3>1, <3>2, <3>3, MovedCall
    <2>3. ReadingInv'
      BY <1>t, <1>i DEF ReadingInv, RowsIn
    <2>4. QED
      BY <2>1, <2>2, <2>3 DEF CacheInv
  <1>2. ASSUME NEW c \in Readers, NEW table \in Tables, Query(c, table)
        PROVE  CacheInv'
    <2> DEFINE rows == [r \in Rows |-> IF r \in table THEN cache[r] ELSE found[c][r]]
               point == IF due[c] = {table} THEN AfterQueries(c, rows) ELSE "query"
    <2>1. /\ pc[c] = "query"
          /\ table \in due[c]
          /\ found' = [found EXCEPT ![c] = rows]
          /\ due' = [due EXCEPT ![c] = @ \ {table}]
          /\ pc' = [pc EXCEPT ![c] = point]
          /\ UNCHANGED <<order, cache, mayAsk, stored, before>>
      BY <1>2 DEF Query, Goto
    <2>2. rows \in Found
      BY <1>t DEF Found
    <2>3. point \in {"query", "cached", "ask", "failed"}
      BY DEF AfterQueries
    <2>4. /\ point = "query" => due[c] # {table}
          /\ point # "query" => due[c] = {table}
          /\ point = "ask" => RowsIn(rows) = {}
      BY DEF AfterQueries
    <2>5. \A r \in RowsIn(rows) : r \in Rows
      BY DEF RowsIn
    <2>6. order.present =>
             \A other \in Tables \ (due[c] \ {table}) :
                 before[c] \cap other \subseteq RowsIn(rows)
      <3> SUFFICES ASSUME order.present,
                          NEW other \in Tables \ (due[c] \ {table}),
                          NEW r \in before[c] \cap other
                   PROVE  rows[r] # NoRow /\ r \in Rows
        BY DEF RowsIn
      <3>1. r \in Rows /\ cache[r] # NoRow
        BY <1>i, <1>t, <2>1 DEF ReadingInv, RowsIn
      <3>2. CASE r \in table
        BY <3>1, <3>2
      <3>3. CASE r \notin table
        <4>1. other \in Tables \ due[c]
          BY <3>3
        <4>2. found[c][r] # NoRow
          BY <4>1, <1>i, <2>1 DEF ReadingInv, RowsIn
        <4>3. QED
          BY <3>1, <3>3, <4>2
      <3>4. QED
        BY <3>2, <3>3
    <2>7. ASSUME order.present, point # "query"
          PROVE  before[c] \subseteq RowsIn(rows)
      <3>1. before[c] \subseteq UNION Tables
        BY <1>t DEF Tables, Rows
      <3>2. \A other \in Tables : before[c] \cap other \subseteq RowsIn(rows)
        BY <2>4, <2>6, <2>7
      <3>3. QED
        BY <3>1, <3>2
    <2> HIDE DEF rows, point
    <2>8. TypeOK'
      BY <1>t, <2>1, <2>2, <2>3 DEF TypeOK
    <2>9. StoredInv' /\ CacheIsWhole'
      BY <1>s, <1>t, <2>1, <2>3, MovedCall
    <2>10. ReadingInv'
      <3> SUFFICES ASSUME NEW d \in Readers, order'.present
                   PROVE  /\ pc'[d] # "idle" => before'[d] \subseteq RowsIn(cache')
                          /\ pc'[d] = "query" =>
                                \A other \in Tables \ due'[d] :
                                    before'[d] \cap other \subseteq RowsIn(found'[d])
                          /\ pc'[d] = "cached" => before'[d] \subseteq RowsIn(found'[d])
                          /\ pc'[d] \in {"ask", "store", "reply", "fetched"} =>
                                before'[d] = {}
        BY DEF ReadingInv, RowsIn
      <3>1. CASE d # c
        BY <3>1, <1>t, <1>i, <2>1 DEF ReadingInv
      <3>2. CASE d = c
        <4>1. /\ pc'[c] = point /\ found'[c] = rows /\ before'[c] = before[c]
              /\ due'[c] = due[c] \ {table} /\ cache' = cache /\ order.present
          BY <1>t, <2>1
        <4>2. before[c] \subseteq RowsIn(cache)
          BY <4>1, <1>i, <2>1 DEF ReadingInv
        <4>3. QED
          BY <3>2, <4>1, <4>2, <2>3, <2>4, <2>6, <2>7
      <3>3. QED
        BY <3>1, <3>2
    <2>11. QED
      BY <2>8, <2>9, <2>10 DEF CacheInv
  <1>3. ASSUME NEW c \in Readers, Ask(c)
        PROVE  CacheInv'
    <2>1. /\ pc[c] = "ask"
          /\ \/ \E answer \in Found : found' = [found EXCEPT ![c] = answer]
             \/ found' = found
          /\ \/ pc' = [pc EXCEPT ![c] = "store"]
             \/ pc' = [pc EXCEPT ![c] = "failed"]
          /\ UNCHANGED <<order, cache, due, mayAsk, stored, before>>
      BY <1>3, EvidenceAssumption DEF Ask, Goto
    <2>2. TypeOK'
      BY <1>t, <2>1 DEF TypeOK
    <2>3. \A d \in Readers \ {c} : found'[d] = found[d]
      BY <1>t, <2>1
    <2>4. StoredInv' /\ CacheIsWhole'
      BY <1>s, <2>1, <2>3, MovedCall
    <2>5. ReadingInv'
      BY <1>t, <1>i, <2>1, <2>3 DEF ReadingInv, RowsIn
    <2>6. QED
      BY <2>2, <2>4, <2>5 DEF CacheInv
  <1>4. ASSUME NEW c \in Readers, Store(c)
        PROVE  CacheInv'
    <2>1. /\ pc[c] = "store"
          /\ UNCHANGED <<order, due, mayAsk, found, before>>
      BY <1>4 DEF Store, callVars
    <2>2. CASE order.present \/ found[c] = Nothing
      <3>1. /\ cache' = Upserted(found[c])
            /\ stored' = stored \cup {c}
            /\ pc' = [pc EXCEPT ![c] = "reply"]
        BY <1>4, <2>2 DEF Store, Goto
      <3>2. /\ cache' \in Found
            /\ RowsIn(cache') = RowsIn(cache) \cup RowsIn(found[c])
            /\ \A r \in RowsIn(found[c]) : cache'[r].version = found[c][r].version
            /\ \A r \in RowsIn(found[c]) \ RowsIn(cache) :
                  cache'[r].created = found[c][r].created
            /\ \A r \in RowsIn(cache) : cache'[r].created = cache[r].created
            /\ \A r \in Rows \ RowsIn(found[c]) : cache'[r] = cache[r]
        BY <1>t, <3>1, UpsertedRows
      <3>3. TypeOK'
        BY <1>t, <2>1, <3>1, <3>2 DEF TypeOK
      <3>4. ~order.present => cache' = Nothing
        <4> SUFFICES ASSUME ~order.present
                     PROVE  cache' = Nothing
          OBVIOUS
        <4>1. found[c] = Nothing /\ cache = Nothing
          BY <1>i, <2>2 DEF StoredInv
        <4>2. UpsertedRow(NoRow, NoRow) = NoRow
          BY DEF UpsertedRow
        <4>3. \A r \in Rows : UpsertedRow(cache[r], found[c][r]) = NoRow
          BY <4>1, <4>2 DEF Nothing
        <4>4. QED
          BY <3>1, <4>3 DEF Upserted, Nothing
      <3>5. StoredInv'
        <4>1. \A d \in stored' :
                 /\ pc'[d] \in {"reply", "fetched", "failed"}
                 /\ RowsIn(found'[d]) \subseteq RowsIn(cache')
          BY <1>t, <1>i, <2>1, <3>1, <3>2 DEF StoredInv
        <4>2. \A d \in Readers :
                 pc'[d] \in {"reply", "fetched"} /\ order'.present =>
                    RowsIn(found'[d]) \subseteq RowsIn(cache')
          BY <1>t, <1>i, <2>1, <3>1, <3>2 DEF StoredInv
        <4>3. QED
          BY <2>1, <3>4, <4>1, <4>2 DEF StoredInv, RowsIn
      <3>6. ReadingInv'
        <4> SUFFICES ASSUME NEW d \in Readers, order.present
                     PROVE  /\ pc'[d] # "idle" => before[d] \subseteq RowsIn(cache')
                            /\ pc'[d] = "query" =>
                                  \A table \in Tables \ due[d] :
                                      before[d] \cap table \subseteq RowsIn(found[d])
                            /\ pc'[d] = "cached" => before[d] \subseteq RowsIn(found[d])
                            /\ pc'[d] \in {"ask", "store", "reply", "fetched"} =>
                                  before[d] = {}
          BY <2>1 DEF ReadingInv, RowsIn
        <4>1. QED
          BY <1>t, <1>i, <2>1, <3>1, <3>2 DEF ReadingInv
      <3>7. CacheIsWhole'
        <4> SUFFICES ASSUME NEW r \in RowsIn(cache')
                     PROVE  /\ \E d \in stored' :
                                  /\ found'[d][r] # NoRow
                                  /\ found'[d][r].version = cache'[r].version
                                  /\ RowsIn(found'[d]) \subseteq RowsIn(cache')
                            /\ \E d \in stored' :
                                  /\ found'[d][r] # NoRow
                                  /\ found'[d][r].created = cache'[r].created
          BY DEF CacheIsWhole, RowsIn
        <4>u. found' = found /\ stored \subseteq stored' /\ c \in stored'
          BY <2>1, <3>1
        <4>1. ASSUME r \in RowsIn(found[c])
              PROVE  \E d \in stored' :
                        /\ found'[d][r] # NoRow
                        /\ found'[d][r].version = cache'[r].version
                        /\ RowsIn(found'[d]) \subseteq RowsIn(cache')
          BY <4>1, <4>u, <3>2 DEF RowsIn
        <4>2. ASSUME r \in RowsIn(found[c]) \ RowsIn(cache)
              PROVE  \E d \in stored' :
                        found'[d][r] # NoRow /\ found'[d][r].created = cache'[r].created
          BY <4>2, <4>u, <3>2 DEF RowsIn
        <4>3. ASSUME r \in RowsIn(cache)
              PROVE  \E d \in stored' :
                        found'[d][r] # NoRow /\ found'[d][r].created = cache'[r].created
          <5>1. PICK d \in stored : found[d][r] # NoRow /\ found[d][r].created = cache[r].created
            BY <4>3, <1>i DEF CacheIsWhole
          <5>2. QED
            BY <5>1, <4>3, <4>u, <3>2
        <4>4. ASSUME r \notin RowsIn(found[c])
              PROVE  \E d \in stored' :
                        /\ found'[d][r] # NoRow
                        /\ found'[d][r].version = cache'[r].version
                        /\ RowsIn(found'[d]) \subseteq RowsIn(cache')
          <5>1. r \in RowsIn(cache) /\ cache'[r] = cache[r]
            BY <4>4, <3>2 DEF RowsIn
          <5>2. PICK d \in stored :
                   /\ found[d][r] # NoRow /\ found[d][r].version = cache[r].version
                   /\ RowsIn(found[d]) \subseteq RowsIn(cache)
            BY <5>1, <1>i DEF CacheIsWhole
          <5>3. RowsIn(found'[d]) \subseteq RowsIn(cache')
            BY <5>2, <4>u, <3>2
          <5>4. QED
            BY <5>1, <5>2, <5>3, <4>u
        <4>5. r \in RowsIn(cache) \/ r \in RowsIn(found[c]) \ RowsIn(cache)
          BY <3>2
        <4>6. QED
          BY <4>1, <4>2, <4>3, <4>4, <4>5
      <3>8. QED
        BY <3>3, <3>5, <3>6, <3>7 DEF CacheInv
    <2>3. CASE ~(order.present \/ found[c] = Nothing)
      <3>1. pc' = [pc EXCEPT ![c] = "failed"] /\ UNCHANGED <<cache, stored>>
        BY <1>4, <2>3 DEF Store, Goto
      <3>2. TypeOK'
        BY <1>t, <2>1, <3>1 DEF TypeOK
      <3>3. StoredInv' /\ CacheIsWhole'
        <4>1. c \notin stored /\ UNCHANGED <<order, cache, found, stored>>
          BY <1>s, <2>1, <3>1
        <4>2. \A d \in Readers \ {c} : found'[d] = found[d]
          BY <4>1
        <4>3. PICK point \in {"failed"} : pc' = [pc EXCEPT ![c] = point]
          BY <3>1
        <4>4. QED
          BY <4>1, <4>2, <4>3, MovedCall
      <3>4. ReadingInv'
        BY <1>t, <2>1, <2>3 DEF ReadingInv
      <3>5. QED
        BY <3>2, <3>3, <3>4 DEF CacheInv
    <2>4. QED
      BY <2>2, <2>3
  <1>5. ASSUME NEW c \in Readers, Reply(c)
        PROVE  CacheInv'
    <2> USE <1>5 DEF Reply, Goto, callVars
    <2>1. TypeOK'
      BY <1>t DEF TypeOK
    <2>2. StoredInv' /\ ReadingInv' /\ CacheIsWhole'
      BY <1>t, <1>i DEF StoredInv, ReadingInv, CacheIsWhole, RowsIn
    <2>3. QED
      BY <2>1, <2>2 DEF CacheInv
  <1>6. ASSUME NEW c \in Readers, Fail(c)
        PROVE  CacheInv'
    <2> USE <1>6 DEF Fail, Goto, callVars
    <2>1. TypeOK'
      BY <1>t DEF TypeOK
    <2>2. StoredInv' /\ ReadingInv' /\ CacheIsWhole'
      BY <1>t, <1>i DEF StoredInv, ReadingInv, CacheIsWhole, RowsIn
    <2>3. QED
      BY <2>1, <2>2 DEF CacheInv
  <1>7. ASSUME ChangeStatus \/ LinkOrder
        PROVE  CacheInv'
    <2>1. /\ order' \in [present : BOOLEAN, delivered : BOOLEAN, linked : BOOLEAN]
          /\ order'.present = order.present
          /\ UNCHANGED <<cache, pc, due, mayAsk, found, stored, before>>
      BY <1>t, <1>7 DEF ChangeStatus, LinkOrder, callVars
    <2>2. TypeOK'
      BY <1>t, <2>1 DEF TypeOK
    <2>3. StoredInv' /\ ReadingInv' /\ CacheIsWhole'
      BY <1>i, <2>1 DEF StoredInv, ReadingInv, CacheIsWhole, RowsIn
    <2>4. QED
      BY <2>2, <2>3 DEF CacheInv
  <1>8. ASSUME DeleteOrder
        PROVE  CacheInv'
    <2>1. /\ order' \in [present : BOOLEAN, delivered : BOOLEAN, linked : BOOLEAN]
          /\ ~order'.present /\ cache' = Nothing /\ stored' = {}
          /\ UNCHANGED <<pc, due, mayAsk, found, before>>
      BY <1>t, <1>8 DEF DeleteOrder, callVars
    <2>2. Nothing \in Found
      BY DEF Nothing, Found
    <2>3. TypeOK'
      BY <1>t, <2>1, <2>2 DEF TypeOK
    <2>4. StoredInv' /\ ReadingInv' /\ CacheIsWhole'
      BY <2>1 DEF StoredInv, ReadingInv, CacheIsWhole, RowsIn, Nothing
    <2>5. QED
      BY <2>3, <2>4 DEF CacheInv
  <1>9. CASE UNCHANGED vars
    BY <1>9, <1>t, <1>i
    DEF vars, CacheInv, TypeOK, StoredInv, ReadingInv, CacheIsWhole, RowsIn
  <1>10. QED
    BY <1>1, <1>2, <1>3, <1>4, <1>5, <1>6, <1>7, <1>8, <1>9 DEF Next, Step

LEMMA CacheInvariant == Spec => []CacheInv
  BY CacheInvInit, CacheInvStep, PTL DEF Spec

-----------------------------------------------------------------------------
(* Every reachable state is well typed. *)
THEOREM TypeCorrect == Spec => []TypeOK
  <1>1. CacheInv => TypeOK
    BY DEF CacheInv
  <1>2. QED
    BY <1>1, CacheInvariant, PTL

(* The tables are made of whole answers (persistEvidencesAndPayments is    *)
(* one transaction), but for dates of creation, which stay as first stored.*)
THEOREM WholeAnswers == Spec => []CacheIsWhole
  <1>1. CacheInv => CacheIsWhole
    BY DEF CacheInv
  <1>2. QED
    BY <1>1, CacheInvariant, PTL

(* What a client was given of Aliclik's answer stays in the tables.        *)
THEOREM FetchedIsKept == Spec => []FetchedStays
  <1>1. CacheInv => FetchedStays
    BY DEF CacheInv, StoredInv, FetchedStays
  <1>2. QED
    BY <1>1, CacheInvariant, PTL

(* The two queries of getCachedEvidencesAndPayments may see the tables at  *)
(* different moments, and still miss nothing that was there at first.      *)
THEOREM NothingIsMissed == Spec => []NobodySeesLess
  <1>1. CacheInv => NobodySeesLess
    BY DEF CacheInv, ReadingInv, NobodySeesLess
  <1>2. QED
    BY <1>1, CacheInvariant, PTL

(* Aliclik is asked only by calls that began when nothing was stored.      *)
THEOREM AskedWhenEmpty == Spec => []AskedOnlyWhenEmpty
  <1>1. CacheInv => AskedOnlyWhenEmpty
    BY DEF CacheInv, ReadingInv, AskedOnlyWhenEmpty
  <1>2. QED
    BY <1>1, CacheInvariant, PTL
=============================================================================
