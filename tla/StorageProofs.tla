---------------------------- MODULE StorageProofs ----------------------------
(***************************************************************************)
(* Proofs about Storage, for any number of saves, ids and players.          *)
(*                                                                         *)
(* Every table only grows, so what one statement of a save relies on stays  *)
(* true until its next statement, whatever the other saves do and wherever  *)
(* they stop: Grows and the lemmas about it carry that.  What is left are   *)
(* the steps of one save, one after the other.                              *)
(***************************************************************************)
EXTENDS Storage, TLAPS

\* StartMatch fills a slot with players of its room, and not one in both slots.
RecOK(w) == at[w] # "unused" =>
    /\ rec[w].id \in Ids
    /\ rec[w].session \in [Slots -> Players]
    /\ rec[w].player \in [Slots -> Players]
    /\ rec[w].session[0] = rec[w].player[0]
    /\ rec[w].player[0] # rec[w].player[1]

\* What a save has done by the time it has come to a statement.
UsersDone(w) ==
    /\ at[w] \in {"user1", "match", "result0", "result1", "saved"} =>
           rec[w].session[0] \in users
    /\ at[w] \in {"match", "result0", "result1", "saved"} => rec[w].session[1] \in users

MatchDone(w) == at[w] \in {"result0", "result1", "saved"} => matches[rec[w].id] # NoRow

ResultsDone(w) ==
    /\ at[w] \in {"result1", "saved"} => <<w, 0>> \in results /\ rec[w].player[0] \in users
    /\ at[w] = "saved" => <<w, 1>> \in results /\ rec[w].player[1] \in users

RefusedOK(w) == at[w] = "refused" => Mixed(w)

SaveOK(w) == RecOK(w) /\ UsersDone(w) /\ MatchDone(w) /\ ResultsDone(w) /\ RefusedOK(w)

\* A row is as a save of its id has written it.
RowOK(k) == matches[k] # NoRow =>
    \E v \in Saves : at[v] # "unused" /\ rec[v].id = k /\ matches[k] = Row(v)

\* The foreign key of a result.
ResultOK(w, s) == <<w, s>> \in results => at[w] # "unused" /\ matches[rec[w].id] # NoRow

IInv ==
    /\ TypeOK
    /\ \A w \in Saves : SaveOK(w)
    /\ \A k \in Ids : RowOK(k)
    /\ \A w \in Saves, s \in Slots : ResultOK(w, s)

\* No statement takes anything out of a table.
Grows ==
    /\ users \subseteq users'
    /\ results \subseteq results'
    /\ \A k \in Ids : matches[k] # NoRow => matches'[k] = matches[k]

-----------------------------------------------------------------------------

LEMMA SlotsTwo == \A s \in Slots : s = 0 \/ s = 1
  BY DEF Slots

\* A save that does not move keeps what it has done.
LEMMA OthersKeep ==
  ASSUME NEW q \in Saves, SaveOK(q), Grows, at'[q] = at[q], rec'[q] = rec[q]
  PROVE  SaveOK(q)'
  <1>1. RecOK(q)'
    BY DEF SaveOK, RecOK
  <1>2. UsersDone(q)'
    BY DEF SaveOK, UsersDone, Grows
  <1>3. MatchDone(q)'
    BY DEF SaveOK, MatchDone, RecOK, Grows
  <1>4. ResultsDone(q)'
    BY DEF SaveOK, ResultsDone, Grows
  <1>5. RefusedOK(q)'
    BY DEF SaveOK, RefusedOK, Mixed
  <1> QED BY <1>1, <1>2, <1>3, <1>4, <1>5 DEF SaveOK

\* A row or a result that was there is still right, if no save in use has
\* changed what it was called with.
LEMMA RowKept ==
  ASSUME NEW k \in Ids, RowOK(k), matches'[k] = matches[k],
         \A v \in Saves : at[v] # "unused" => at'[v] # "unused" /\ rec'[v] = rec[v]
  PROVE  RowOK(k)'
  <1> SUFFICES ASSUME matches[k] # NoRow PROVE RowOK(k)'
    BY DEF RowOK
  <1>1. PICK v \in Saves : at[v] # "unused" /\ rec[v].id = k /\ matches[k] = Row(v)
    BY DEF RowOK
  <1>2. at'[v] # "unused" /\ rec'[v] = rec[v]
    BY <1>1
  <1>3. Row(v)' = Row(v)
    BY <1>2 DEF Row, RowPlayer, RowWinner
  <1> QED BY <1>1, <1>2, <1>3 DEF RowOK

LEMMA ResultKept ==
  ASSUME NEW w \in Saves, NEW s \in Slots, ResultOK(w, s), RecOK(w), Grows,
         <<w, s>> \in results' => <<w, s>> \in results,
         at[w] # "unused" => at'[w] # "unused" /\ rec'[w] = rec[w]
  PROVE  ResultOK(w, s)'
  BY DEF ResultOK, RecOK, Grows

\* The rows and results after a step that writes neither.
LEMMA TablesKept ==
  ASSUME IInv, UNCHANGED <<matches, results>>, users \subseteq users',
         \A v \in Saves : at[v] # "unused" => at'[v] # "unused" /\ rec'[v] = rec[v]
  PROVE  /\ \A k \in Ids : RowOK(k)'
         /\ \A w \in Saves, s \in Slots : ResultOK(w, s)'
  <1>1. ASSUME NEW k \in Ids PROVE RowOK(k)'
    BY RowKept DEF IInv
  <1>2. ASSUME NEW w \in Saves, NEW s \in Slots PROVE ResultOK(w, s)'
    BY ResultKept DEF IInv, SaveOK, Grows
  <1> QED BY <1>1, <1>2

-----------------------------------------------------------------------------
(* The inductive step, action by action *)

THEOREM InitIInv == Init => IInv
<1> SUFFICES ASSUME Init PROVE IInv
  OBVIOUS
<1> USE DEF Init
<1>1. None \notin Slots
  BY StorageAssumption
<1>2. NoRow \in Rows /\ NoRec \in Recs
  BY DEF NoRow, NoRec, Rows, Recs, Maybe
<1>3. TypeOK
  BY <1>2 DEF TypeOK
<1>4. \A w \in Saves : SaveOK(w)
  BY DEF SaveOK, RecOK, UsersDone, MatchDone, ResultsDone, RefusedOK
<1>5. \A k \in Ids : RowOK(k)
  BY DEF RowOK
<1>6. \A w \in Saves, s \in Slots : ResultOK(w, s)
  BY DEF ResultOK
<1> QED
  BY <1>3, <1>4, <1>5, <1>6 DEF IInv

LEMMA HelloKeeps ==
  ASSUME IInv, NEW p \in Players, Hello(p)
  PROVE  IInv'
<1> USE DEF Hello, tables
<1>1. TypeOK'
  BY DEF IInv, TypeOK
<1>2. \A q \in Saves : SaveOK(q)'
  BY OthersKeep DEF IInv, Grows
<1>3. (\A k \in Ids : RowOK(k)') /\ \A q \in Saves, s \in Slots : ResultOK(q, s)'
  BY TablesKept
<1> QED
  BY <1>1, <1>2, <1>3 DEF IInv

LEMMA MatchEndsKeeps ==
  ASSUME IInv, NEW w \in Saves, NEW k \in Ids, NEW s0 \in Players, NEW s1 \in Players,
         NEW p1 \in Players, NEW won \in Slots \cup {None}, MatchEnds(w, k, s0, s1, p1, won)
  PROVE  IInv'
<1> DEFINE r == [id |-> k,
                 session |-> [s \in Slots |-> IF s = 0 THEN s0 ELSE s1],
                 player |-> [s \in Slots |-> IF s = 0 THEN s0 ELSE p1],
                 won |-> won]
<1>1. r \in Recs
  BY DEF Recs, Maybe
<1>2. [s \in Slots |-> GetBySessionID(IF s = 0 THEN s0 ELSE s1)]
         = [s \in Slots |-> IF s = 0 THEN s0 ELSE s1]
  BY DEF MatchEnds, GetBySessionID
<1>3. /\ at[w] = "unused" /\ s0 # p1
      /\ at' = [at EXCEPT ![w] = "user0"]
      /\ rec' = [rec EXCEPT ![w] = r]
      /\ UNCHANGED <<session, users, matches, results>>
  BY <1>2 DEF MatchEnds, tables
<1>4. TypeOK'
  BY <1>1, <1>3 DEF IInv, TypeOK, Running
<1>5. at'[w] = "user0" /\ rec'[w] = r
  BY <1>3 DEF IInv, TypeOK
<1>6. \A q \in Saves \ {w} : at'[q] = at[q] /\ rec'[q] = rec[q]
  BY <1>3 DEF IInv, TypeOK
<1>7. SaveOK(w)'
  <2>1. RecOK(w)'
    BY <1>3, <1>5 DEF RecOK, Slots
  <2>2. UsersDone(w)' /\ MatchDone(w)' /\ ResultsDone(w)' /\ RefusedOK(w)'
    BY <1>5 DEF UsersDone, MatchDone, ResultsDone, RefusedOK
  <2> QED
    BY <2>1, <2>2 DEF SaveOK
<1>8. \A q \in Saves \ {w} : SaveOK(q)'
  BY <1>3, <1>6, OthersKeep DEF IInv, Grows
<1>9. (\A j \in Ids : RowOK(j)') /\ \A q \in Saves, s \in Slots : ResultOK(q, s)'
  <2>1. \A v \in Saves : at[v] # "unused" => at'[v] # "unused" /\ rec'[v] = rec[v]
    BY <1>3, <1>6
  <2> QED
    BY <1>3, <2>1, TablesKept
<1> QED
  BY <1>4, <1>7, <1>8, <1>9 DEF IInv

\* Where a statement that has run leads.
LEMMA RanTo ==
  ASSUME TypeOK, NEW w \in Saves, Ran(w), at[w] \in Running
  PROVE  /\ at' \in [Saves -> Running \cup {"unused", "saved", "failed", "refused", "cut"}]
         /\ at'[w] \in {Then[at[w]], "failed"} /\ at'[w] # "unused"
         /\ \A q \in Saves \ {w} : at'[q] = at[q]
<1>1. Then[at[w]] \in Running \cup {"saved"}
  BY DEF Then, Running
<1>2. PICK x \in {Then[at[w]], "failed"} : at' = [at EXCEPT ![w] = x]
  BY DEF Ran, Stop
<1>3. at'[w] = x /\ \A q \in Saves \ {w} : at'[q] = at[q]
  BY <1>2 DEF TypeOK
<1>4. x # "unused"
  BY <1>1 DEF Running
<1> QED
  BY <1>1, <1>2, <1>3, <1>4 DEF TypeOK

LEMMA SaveUserKeeps ==
  ASSUME IInv, NEW w \in Saves, NEW s \in Slots, SaveUser(w, s)
  PROVE  IInv'
<1>1. /\ at[w] = UserStep(s) /\ Ran(w) /\ UNCHANGED <<session, rec, matches, results>>
      /\ users' = users \cup ({rec[w].session[s]} \ {None})
  BY DEF SaveUser
<1>2. at[w] \in Running /\ at[w] # "unused"
  BY <1>1 DEF UserStep, Running
<1>3. /\ at' \in [Saves -> Running \cup {"unused", "saved", "failed", "refused", "cut"}]
      /\ at'[w] \in {Then[at[w]], "failed"} /\ at'[w] # "unused"
      /\ \A q \in Saves \ {w} : at'[q] = at[q]
  BY <1>1, <1>2, RanTo DEF IInv
<1>4. SaveOK(w) /\ RecOK(w)
  BY DEF IInv, SaveOK
<1>5. rec[w].session[s] \in Players /\ rec[w].session[s] # None
  BY <1>2, <1>4, StorageAssumption DEF RecOK
<1>6. users' = users \cup {rec[w].session[s]}
  BY <1>1, <1>5
<1>7. TypeOK'
  BY <1>1, <1>3, <1>5, <1>6 DEF IInv, TypeOK
<1>8. Grows
  BY <1>1, <1>6 DEF Grows
<1>9. SaveOK(w)'
  <2>1. RecOK(w)'
    BY <1>1, <1>2, <1>4 DEF RecOK
  <2>2. CASE s = 0
    <3>1. at[w] = "user0" /\ at'[w] \in {"user1", "failed"}
      BY <2>2, <1>1, <1>3 DEF UserStep, Then
    <3>2. rec'[w].session[0] \in users'
      BY <2>2, <1>1, <1>6
    <3> QED
      BY <2>1, <3>1, <3>2 DEF SaveOK, UsersDone, MatchDone, ResultsDone, RefusedOK
  <2>3. CASE s = 1
    <3>1. at[w] = "user1" /\ at'[w] \in {"match", "failed"}
      BY <2>3, <1>1, <1>3 DEF UserStep, Then
    <3>2. rec'[w].session[0] \in users' /\ rec'[w].session[1] \in users'
      BY <2>3, <3>1, <1>1, <1>4, <1>6 DEF SaveOK, UsersDone
    <3> QED
      BY <2>1, <3>1, <3>2 DEF SaveOK, UsersDone, MatchDone, ResultsDone, RefusedOK
  <2> QED
    BY <2>2, <2>3, SlotsTwo
<1>10. \A q \in Saves \ {w} : SaveOK(q)'
  BY <1>1, <1>3, <1>8, OthersKeep DEF IInv
<1>11. (\A j \in Ids : RowOK(j)') /\ \A q \in Saves, t \in Slots : ResultOK(q, t)'
  <2>1. \A v \in Saves : at[v] # "unused" => at'[v] # "unused" /\ rec'[v] = rec[v]
    BY <1>1, <1>3
  <2> QED
    BY <1>1, <1>8, <2>1, TablesKept DEF Grows
<1> QED
  BY <1>7, <1>9, <1>10, <1>11 DEF IInv

LEMMA RowType == ASSUME TypeOK, NEW w \in Saves, at[w] # "unused", RecOK(w) PROVE Row(w) \in Rows
<1>1. \A s \in Slots : RowPlayer(w, s) \in Maybe(Players)
  BY DEF RowPlayer, RecOK, Maybe
<1>2. rec[w].won \in Slots \cup {None}
  BY DEF TypeOK, Recs, Maybe
<1>3. RowWinner(w) \in Maybe(Players)
  BY <1>1, <1>2 DEF RowWinner, Maybe
<1> QED
  BY <1>1, <1>3 DEF Row, Rows, Maybe

LEMMA SaveMatchKeeps ==
  ASSUME IInv, NEW w \in Saves, SaveMatch(w)
  PROVE  IInv'
<1> DEFINE id == rec[w].id
<1>1. /\ at[w] = "match" /\ Ran(w) /\ UNCHANGED <<session, rec, users, results>>
      /\ \/ matches[id] # NoRow /\ matches' = matches
         \/ matches[id] = NoRow /\ matches' = [matches EXCEPT ![id] = Row(w)]
  BY DEF SaveMatch
<1>2. at[w] \in Running /\ at[w] # "unused"
  BY <1>1 DEF Running
<1>3. /\ at' \in [Saves -> Running \cup {"unused", "saved", "failed", "refused", "cut"}]
      /\ at'[w] \in {"result0", "failed"}
      /\ \A q \in Saves \ {w} : at'[q] = at[q]
  BY <1>1, <1>2, RanTo DEF IInv, Then
<1>4. SaveOK(w) /\ RecOK(w) /\ id \in Ids
  BY <1>2 DEF IInv, SaveOK, RecOK
<1>5. Row(w) \in Rows /\ Row(w) # NoRow
  <2>1. Row(w) \in Rows
    BY <1>2, <1>4, RowType DEF IInv
  <2>2. Row(w).by = w /\ NoRow.by = None
    BY DEF Row, NoRow
  <2> QED
    BY <2>1, <2>2, StorageAssumption
<1>6. matches' \in [Ids -> Rows] /\ matches'[id] # NoRow
  BY <1>1, <1>4, <1>5 DEF IInv, TypeOK
<1>7. TypeOK'
  BY <1>1, <1>3, <1>6 DEF IInv, TypeOK
<1>8. Grows
  BY <1>1, <1>4 DEF Grows, IInv, TypeOK
<1>9. SaveOK(w)'
  <2>1. RecOK(w)' /\ RefusedOK(w)'
    BY <1>1, <1>2, <1>3, <1>4 DEF RecOK, RefusedOK
  <2>2. UsersDone(w)'
    BY <1>1, <1>3, <1>4 DEF SaveOK, UsersDone
  <2>3. MatchDone(w)' /\ ResultsDone(w)'
    BY <1>1, <1>3, <1>6 DEF MatchDone, ResultsDone
  <2> QED
    BY <2>1, <2>2, <2>3 DEF SaveOK
<1>10. \A q \in Saves \ {w} : SaveOK(q)'
  BY <1>1, <1>3, <1>8, OthersKeep DEF IInv
<1>11. \A v \in Saves : at[v] # "unused" => at'[v] # "unused" /\ rec'[v] = rec[v]
  BY <1>1, <1>3
<1>12. ASSUME NEW j \in Ids PROVE RowOK(j)'
  <2>1. CASE matches'[j] = matches[j]
    BY <2>1, <1>11, RowKept DEF IInv
  <2>2. CASE matches'[j] # matches[j]
    <3>1. j = id /\ matches'[j] = Row(w)
      BY <2>2, <1>1, <1>4 DEF IInv, TypeOK
    <3>2. Row(w)' = Row(w)
      BY <1>1 DEF Row, RowPlayer, RowWinner
    <3> QED
      BY <3>1, <3>2, <1>1, <1>3 DEF RowOK
  <2> QED
    BY <2>1, <2>2
<1>13. ASSUME NEW q \in Saves, NEW t \in Slots PROVE ResultOK(q, t)'
  BY <1>1, <1>8, <1>11, ResultKept DEF IInv, SaveOK
<1> QED
  BY <1>7, <1>9, <1>10, <1>12, <1>13 DEF IInv

LEMMA SaveResultKeeps ==
  ASSUME IInv, NEW w \in Saves, NEW s \in Slots, SaveResult(w, s)
  PROVE  IInv'
<1>1. /\ at[w] = ResultStep(s) /\ Ran(w) /\ UNCHANGED <<session, rec, users, matches>>
      /\ matches[rec[w].id] # NoRow /\ rec[w].player[s] \in users
      /\ results' = results \cup {<<w, s>>}
  BY DEF SaveResult, ResultKeysHold
<1>2. at[w] \in Running /\ at[w] # "unused"
  BY <1>1 DEF ResultStep, Running
<1>3. /\ at' \in [Saves -> Running \cup {"unused", "saved", "failed", "refused", "cut"}]
      /\ at'[w] \in {Then[at[w]], "failed"} /\ at'[w] # "unused"
      /\ \A q \in Saves \ {w} : at'[q] = at[q]
  BY <1>1, <1>2, RanTo DEF IInv
<1>4. SaveOK(w) /\ RecOK(w)
  BY DEF IInv, SaveOK
<1>5. TypeOK'
  BY <1>1, <1>3 DEF IInv, TypeOK
<1>6. Grows
  BY <1>1 DEF Grows
<1>7. SaveOK(w)'
  <2>1. RecOK(w)' /\ UsersDone(w)' /\ MatchDone(w)'
    <3>1. at[w] \in {"result0", "result1"} /\ at'[w] \in {"result1", "saved", "failed"}
      BY <1>1, <1>3 DEF ResultStep, Then
    <3> QED
      BY <3>1, <1>1, <1>4 DEF SaveOK, RecOK, UsersDone, MatchDone
  <2>2. ResultsDone(w)' /\ RefusedOK(w)'
    <3>1. CASE s = 0
      <4>1. at'[w] \in {"result1", "failed"}
        BY <3>1, <1>1, <1>3 DEF ResultStep, Then
      <4> QED
        BY <4>1, <3>1, <1>1 DEF ResultsDone, RefusedOK
    <3>2. CASE s = 1
      <4>1. at[w] = "result1" /\ at'[w] \in {"saved", "failed"}
        BY <3>2, <1>1, <1>3 DEF ResultStep, Then
      <4>2. <<w, 0>> \in results /\ rec[w].player[0] \in users
        BY <4>1, <1>4 DEF SaveOK, ResultsDone
      <4> QED
        BY <4>1, <4>2, <3>2, <1>1 DEF ResultsDone, RefusedOK
    <3> QED
      BY <3>1, <3>2, SlotsTwo
  <2> QED
    BY <2>1, <2>2 DEF SaveOK
<1>8. \A q \in Saves \ {w} : SaveOK(q)'
  BY <1>1, <1>3, <1>6, OthersKeep DEF IInv
<1>9. \A v \in Saves : at[v] # "unused" => at'[v] # "unused" /\ rec'[v] = rec[v]
  BY <1>1, <1>3
<1>10. \A j \in Ids : RowOK(j)'
  BY <1>1, <1>9, RowKept DEF IInv
<1>11. ASSUME NEW q \in Saves, NEW t \in Slots PROVE ResultOK(q, t)'
  <2>1. CASE q = w
    BY <2>1, <1>1, <1>3 DEF ResultOK
  <2>2. CASE q # w
    BY <2>2, <1>1, <1>6, <1>9, ResultKept DEF IInv, SaveOK
  <2> QED
    BY <2>1, <2>2
<1> QED
  BY <1>5, <1>7, <1>8, <1>10, <1>11 DEF IInv

\* The steps that only stop saves: refused, failed or cut off.
LEMMA StopsKeep ==
  ASSUME IInv, session' \in [Players -> {"new", "stored", "lost"}],
         UNCHANGED <<rec, tables>>,
         at' \in [Saves -> Running \cup {"unused", "saved", "failed", "refused", "cut"}],
         \A q \in Saves : \/ at'[q] = at[q]
                          \/ at[q] # "unused" /\ at'[q] \in {"failed", "cut"}
                          \/ at[q] # "unused" /\ at'[q] = "refused" /\ Mixed(q)
  PROVE  IInv'
<1> USE DEF tables
<1>1. TypeOK'
  BY DEF IInv, TypeOK
<1>2. ASSUME NEW q \in Saves PROVE SaveOK(q)'
  <2>1. CASE at'[q] = at[q]
    BY <2>1, OthersKeep DEF IInv, Grows
  <2>2. CASE at'[q] # at[q]
    <3>1. at[q] # "unused" /\ at'[q] \in {"failed", "cut", "refused"} /\ RecOK(q)
      BY <2>2 DEF IInv, SaveOK
    <3>2. at'[q] = "refused" => Mixed(q)
      BY <2>2
    <3>3. RecOK(q)' /\ RefusedOK(q)'
      BY <3>1, <3>2 DEF RecOK, RefusedOK, Mixed
    <3>4. UsersDone(q)' /\ MatchDone(q)' /\ ResultsDone(q)'
      BY <3>1 DEF UsersDone, MatchDone, ResultsDone
    <3> QED
      BY <3>3, <3>4 DEF SaveOK
  <2> QED
    BY <2>1, <2>2
<1>3. (\A j \in Ids : RowOK(j)') /\ \A q \in Saves, s \in Slots : ResultOK(q, s)'
  <2>1. \A v \in Saves : at[v] # "unused" => at'[v] # "unused" /\ rec'[v] = rec[v]
    OBVIOUS
  <2> QED
    BY <2>1, TablesKept
<1> QED
  BY <1>1, <1>2, <1>3 DEF IInv

\* A foreign key fails only for a slot whose session is another player's: the
\* statements before have written the users of the sessions, and the row.
LEMMA RefusedKeeps ==
  ASSUME IInv, NEW w \in Saves, Refused(w)
  PROVE  IInv'
<1>1. SaveOK(w) /\ RecOK(w) /\ UsersDone(w) /\ MatchDone(w)
  BY DEF IInv, SaveOK
<1>2. at[w] # "unused"
  BY DEF Refused, ResultStep
<1>3. rec[w].session \in [Slots -> Players] /\ None \notin Players
  BY <1>1, <1>2, StorageAssumption DEF RecOK
<1>4. Mixed(w)
  <2>1. CASE at[w] = "match" /\ ~MatchKeysHold(w)
    <3>1. PICK s \in Slots : RowPlayer(w, s) \notin users \cup {None}
      BY <2>1 DEF MatchKeysHold
    <3>2. rec[w].player[s] \notin users
      BY <3>1, <1>3 DEF RowPlayer
    <3>3. rec[w].session[s] \in users
      BY <2>1, <1>1, SlotsTwo DEF UsersDone
    <3> QED
      BY <3>2, <3>3, <1>3 DEF Mixed
  <2>2. ASSUME NEW s \in Slots, at[w] = ResultStep(s), ~ResultKeysHold(w, s)
        PROVE  Mixed(w)
    <3>1. at[w] \in {"result0", "result1"}
      BY <2>2 DEF ResultStep
    <3>2. rec[w].player[s] \notin users
      BY <2>2, <3>1, <1>1 DEF ResultKeysHold, MatchDone
    <3>3. rec[w].session[s] \in users
      BY <3>1, <1>1, SlotsTwo DEF UsersDone
    <3> QED
      BY <3>2, <3>3, <1>3 DEF Mixed
  <2> QED
    BY <2>1, <2>2 DEF Refused
<1>5. at' = [at EXCEPT ![w] = "refused"] /\ UNCHANGED <<session, rec, tables>>
  BY DEF Refused
<1>6. at \in [Saves -> Running \cup {"unused", "saved", "failed", "refused", "cut"}]
  BY DEF IInv, TypeOK
<1>7. \A q \in Saves : IF q = w THEN at'[q] = "refused" ELSE at'[q] = at[q]
  BY <1>5, <1>6
<1>8. at' \in [Saves -> Running \cup {"unused", "saved", "failed", "refused", "cut"}]
  BY <1>5, <1>6
<1>9. session' \in [Players -> {"new", "stored", "lost"}]
  BY <1>5 DEF IInv, TypeOK
<1> QED
  BY <1>2, <1>4, <1>5, <1>7, <1>8, <1>9, StopsKeep

LEMMA FailsKeeps ==
  ASSUME IInv, NEW w \in Saves, Fails(w)
  PROVE  IInv'
<1>1. /\ at[w] # "unused"
      /\ at' = [at EXCEPT ![w] = "failed"] /\ UNCHANGED <<session, rec, tables>>
  BY DEF Fails, Stop, Running
<1>2. at \in [Saves -> Running \cup {"unused", "saved", "failed", "refused", "cut"}]
  BY DEF IInv, TypeOK
<1>3. \A q \in Saves : IF q = w THEN at'[q] = "failed" ELSE at'[q] = at[q]
  BY <1>1, <1>2
<1>4. at' \in [Saves -> Running \cup {"unused", "saved", "failed", "refused", "cut"}]
  BY <1>1, <1>2
<1>5. session' \in [Players -> {"new", "stored", "lost"}]
  BY <1>1 DEF IInv, TypeOK
<1> QED
  BY <1>1, <1>3, <1>4, <1>5, StopsKeep

LEMMA RestartKeeps ==
  ASSUME IInv, Restart
  PROVE  IInv'
<1>1. session' \in [Players -> {"new", "stored", "lost"}]
  BY DEF Restart, IInv, TypeOK
<1>2. at' \in [Saves -> Running \cup {"unused", "saved", "failed", "refused", "cut"}]
  BY DEF Restart, IInv, TypeOK
<1>3. \A q \in Saves : \/ at'[q] = at[q]
                       \/ at[q] # "unused" /\ at'[q] = "cut"
  BY DEF Restart, Running
<1> QED
  BY <1>1, <1>2, <1>3, StopsKeep DEF Restart

LEMMA StepKeeps == IInv /\ [Next]_vars => IInv'
<1> SUFFICES ASSUME IInv, [Next]_vars PROVE IInv'
  OBVIOUS
<1>1. ASSUME NEW p \in Players, Hello(p) PROVE IInv'
  BY <1>1, HelloKeeps
<1>2. ASSUME NEW w \in Saves, NEW k \in Ids, NEW s0 \in Players, NEW s1 \in Players,
             NEW p1 \in Players, NEW won \in Slots \cup {None},
             MatchEnds(w, k, s0, s1, p1, won)
      PROVE  IInv'
  BY <1>2, MatchEndsKeeps
<1>3. ASSUME NEW w \in Saves, SaveMatch(w) PROVE IInv'
  BY <1>3, SaveMatchKeeps
<1>4. ASSUME NEW w \in Saves, Refused(w) PROVE IInv'
  BY <1>4, RefusedKeeps
<1>5. ASSUME NEW w \in Saves, Fails(w) PROVE IInv'
  BY <1>5, FailsKeeps
<1>6. ASSUME NEW w \in Saves, NEW s \in Slots, SaveUser(w, s) PROVE IInv'
  BY <1>6, SaveUserKeeps
<1>7. ASSUME NEW w \in Saves, NEW s \in Slots, SaveResult(w, s) PROVE IInv'
  BY <1>7, SaveResultKeeps
<1>8. CASE Restart
  BY <1>8, RestartKeeps
<1>9. CASE UNCHANGED vars
  <2>1. UNCHANGED <<session, at, rec, users, matches, results>>
    BY <1>9 DEF vars, tables
  <2>2. session' \in [Players -> {"new", "stored", "lost"}]
    BY <2>1 DEF IInv, TypeOK
  <2>3. at' \in [Saves -> Running \cup {"unused", "saved", "failed", "refused", "cut"}]
    BY <2>1 DEF IInv, TypeOK
  <2> QED
    BY <2>1, <2>2, <2>3, StopsKeep DEF tables
<1> QED
  BY <1>1, <1>2, <1>3, <1>4, <1>5, <1>6, <1>7, <1>8, <1>9 DEF Next, SaveStep

-----------------------------------------------------------------------------
(* The theorems *)

\* What a save has done, and what the tables hold, is an invariant.
THEOREM InductiveInvariant == Spec => []IInv
  BY InitIInv, StepKeeps, PTL DEF Spec

\* Every variable keeps its type, for any saves, ids and players.
THEOREM TypeCorrect == Spec => []TypeOK
<1>1. IInv => TypeOK
  BY DEF IInv
<1> QED
  BY <1>1, InductiveInvariant, PTL

\* The keys refuse a statement of a save only when StartMatch had mixed two
\* guests (SaveUser before SaveMatch before the results, db.go:100-165).
THEOREM KeysRefuseOnlyMixed == Spec => []RefusedOnlyMixed
<1>1. IInv => RefusedOnlyMixed
  BY DEF IInv, SaveOK, RefusedOK, RefusedOnlyMixed
<1> QED
  BY <1>1, InductiveInvariant, PTL

\* A save that has ended without an error has left its whole record.
THEOREM SavedStaysComplete == Spec => []SavedIsComplete
<1>1. ASSUME IInv, NEW w \in Saves, at[w] = "saved"
      PROVE  /\ matches[rec[w].id] # NoRow
             /\ \A s \in Slots : <<w, s>> \in results /\ rec[w].player[s] \in users
  BY <1>1, SlotsTwo DEF IInv, SaveOK, MatchDone, ResultsDone
<1>2. IInv => SavedIsComplete
  BY <1>1 DEF SavedIsComplete
<1> QED
  BY <1>2, InductiveInvariant, PTL

\* Results are under the row of their own match, unless an id was used twice.
THEOREM RowsAgree == Spec => []RowAgrees
<1>1. ASSUME IInv, NEW w \in Saves, NEW s \in Slots, <<w, s>> \in results,
             \A v \in Saves \ {w} : rec[v].id # rec[w].id
      PROVE  LET row == matches[rec[w].id]
             IN  /\ row.player[s] = rec[w].player[s]
                 /\ row.winner = rec[w].player[s] <=> rec[w].won = s
  <2>1. at[w] # "unused" /\ matches[rec[w].id] # NoRow /\ RecOK(w)
    BY <1>1 DEF IInv, ResultOK, SaveOK
  <2>2. rec[w].id \in Ids
    BY <2>1 DEF RecOK
  <2>3. PICK v \in Saves : rec[v].id = rec[w].id /\ matches[rec[w].id] = Row(v)
    BY <1>1, <2>1, <2>2 DEF IInv, RowOK
  <2>4. v = w
    BY <1>1, <2>3
  <2>5. /\ rec[w].session \in [Slots -> Players] /\ rec[w].player \in [Slots -> Players]
        /\ rec[w].player[0] # rec[w].player[1] /\ None \notin Players /\ None \notin Slots
    BY <2>1, StorageAssumption DEF RecOK
  <2>6. \A t \in Slots : RowPlayer(w, t) = rec[w].player[t] /\ rec[w].player[t] # None
    BY <2>5 DEF RowPlayer
  <2>7. rec[w].won \in Slots \cup {None}
    BY <1>1 DEF IInv, TypeOK, Recs, Maybe
  <2>8. RowWinner(w) = rec[w].player[s] <=> rec[w].won = s
    <3>1. CASE rec[w].won = None
      BY <3>1, <2>5, <2>6 DEF RowWinner
    <3>2. CASE rec[w].won \in Slots
      <4>1. RowWinner(w) = rec[w].player[rec[w].won]
        BY <3>2, <2>5, <2>6 DEF RowWinner
      <4> QED
        BY <4>1, <3>2, <2>5, SlotsTwo
    <3> QED
      BY <3>1, <3>2, <2>7
  <2> QED
    BY <2>3, <2>4, <2>6, <2>8 DEF Row
<1>2. IInv => RowAgrees
  BY <1>1 DEF RowAgrees
<1> QED
  BY <1>2, InductiveInvariant, PTL

=============================================================================
