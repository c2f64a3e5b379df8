------------------------------- MODULE Storage -------------------------------
(***************************************************************************)
(* The record of finished matches: the goroutine that the end callback of   *)
(* main.go starts for each match, SaveMatchResult of backend/internal/      *)
(* storage/db.go with the tables of migrations/001_initial.sql, and the     *)
(* session store of backend/internal/auth the goroutine looks players up in.*)
(*                                                                         *)
(* There is no transaction: a save is five statements, and the goroutines   *)
(* of several matches interleave theirs.  A statement may fail, or succeed  *)
(* and still be reported as failed (the deadline of the context passes      *)
(* first); the save then stops where it is and nothing is retried.  The     *)
(* process may stop at any moment; the tables outlive it, the sessions do   *)
(* not.                                                                    *)
(*                                                                         *)
(* Abstracted: scores, display names and times; a session and the player id *)
(* made from it are one value (NewSession derives the id), but a slot may   *)
(* hold the session of one player and the id of another, because StartMatch *)
(* reads them separately (Lobby, ReadGuest).                               *)
(***************************************************************************)
EXTENDS Naturals

Slots == {0, 1}

CONSTANTS
    Saves,      \* the goroutines of finished matches (bounds how many end)
    Ids,        \* match ids; a room code, so an id, is drawn again after its room
    Players,    \* sessions, and the player ids made from them
    None

ASSUME StorageAssumption == None \notin Saves \cup Ids \cup Players \cup Slots

VARIABLES
    session,    \* auth.Store: "new" (never drawn), "stored", or lost in a restart
    at,         \* the statement a save is about to run, or how it has ended
    rec,        \* what SaveMatchResult was called with
    users,      \* table users: the ids
    matches,    \* table matches: id -> row
    results     \* table match_results: <<save, slot>> stands for a row's fresh id

tables == <<users, matches, results>>
vars == <<session, at, rec, tables>>

NoRow == [by |-> None, player |-> [s \in Slots |-> None], winner |-> None]
NoRec == [id |-> None, session |-> [s \in Slots |-> None],
          player |-> [s \in Slots |-> None], won |-> None]

Init ==
    /\ session = [p \in Players |-> "new"]
    /\ at = [w \in Saves |-> "unused"]
    /\ rec = [w \in Saves |-> NoRec]
    /\ users = {}
    /\ matches = [k \in Ids |-> NoRow]
    /\ results = {}

UserStep(s) == IF s = 0 THEN "user0" ELSE "user1"
ResultStep(s) == IF s = 0 THEN "result0" ELSE "result1"

ThenMatchFirst ==
    [user0 |-> "match", match |-> "user1", user1 |-> "result0",
     result0 |-> "result1", result1 |-> "saved"]

\* users, match, match_results: "in dependency order"
Then ==
    [user0 |-> "user1", user1 |-> "match", match |-> "result0",
     result0 |-> "result1", result1 |-> "saved"]

Running == {"user0", "user1", "match", "result0", "result1"}

-----------------------------------------------------------------------------
(* The sessions *)

\* client.hello: a new session, with random ids, which nothing ever deletes.
Hello(p) ==
    /\ session[p] = "new"
    /\ session' = [session EXCEPT ![p] = "stored"]
    /\ UNCHANGED <<at, rec, tables>>

LookUpByToken(p) == None

\* sessions.GetBySessionID
GetBySessionID(p) == IF session[p] = "stored" THEN p ELSE None

-----------------------------------------------------------------------------
(* The callback's goroutine *)

\* A match of the players has ended: the snapshot, the results of the slots
\* (won is the slot with "win", None when there is no such slot) and the lookup.
MatchEnds(w, k, s0, s1, p1, won) ==
    /\ at[w] = "unused"
    /\ s0 \notin {s1, p1}
    /\ \A p \in {s0, s1, p1} : session[p] = "stored"
    /\ rec' = [rec EXCEPT ![w] =
                 [id |-> k,
                  session |-> [s \in Slots |-> GetBySessionID(IF s = 0 THEN s0 ELSE s1)],
                  player |-> [s \in Slots |-> IF s = 0 THEN s0 ELSE p1],
                  won |-> won]]
    /\ at' = [at EXCEPT ![w] = "user0"]
    /\ UNCHANGED <<session, tables>>

GoesOn(w) == Then[at[w]]

\* Where an error leads: SaveMatchResult returns it and the callback logs it.
Stop(w) == "failed"

\* A statement that has taken effect: acknowledged, or reported as failed
\* because the five seconds of the context were over first.
Ran(w) ==
    \/ at' = [at EXCEPT ![w] = Then[at[w]]]
    \/ at' = [at EXCEPT ![w] = Stop(w)]

\* SaveUser; there is nothing to do for a slot without a session.
SaveUser(w, s) ==
    /\ at[w] = UserStep(s)
    /\ users' = users \cup ({rec[w].session[s]} \ {None})
    /\ Ran(w)
    /\ UNCHANGED <<session, rec, matches, results>>

RowPlayerOfHost(w, s) == rec[w].player[0]

\* p1ID, p2ID: NULL for a slot without a session.
RowPlayer(w, s) == IF rec[w].session[s] = None THEN None ELSE rec[w].player[s]

\* winnerPlayerID: the slot with "win", if it has a session.
RowWinner(w) == IF rec[w].won = None THEN None ELSE RowPlayer(w, rec[w].won)

Row(w) == [by |-> w, player |-> [s \in Slots |-> RowPlayer(w, s)], winner |-> RowWinner(w)]

\* The foreign keys of the row Row(w), and of the result of slot s.
MatchKeysHold(w) == \A s \in Slots : RowPlayer(w, s) \in users \cup {None}
ResultKeysHold(w, s) == matches[rec[w].id] # NoRow /\ rec[w].player[s] \in users

\* SaveMatch: an id that is taken keeps its row, and that is no error.
SaveMatch(w) ==
    /\ at[w] = "match"
    /\ \/ matches[rec[w].id] # NoRow /\ UNCHANGED matches
       \/ /\ matches[rec[w].id] = NoRow /\ MatchKeysHold(w)
          /\ matches' = [matches EXCEPT ![rec[w].id] = Row(w)]
    /\ Ran(w)
    /\ UNCHANGED <<session, rec, users, results>>

\* One row of match_results, under a fresh id, so there never is a conflict.
SaveResult(w, s) ==
    /\ at[w] = ResultStep(s)
    /\ ResultKeysHold(w, s)
    /\ results' = results \cup {<<w, s>>}
    /\ Ran(w)
    /\ UNCHANGED <<session, rec, users, matches>>

\* The database refuses a row whose foreign keys do not hold.
Refused(w) ==
    /\ \/ at[w] = "match" /\ matches[rec[w].id] = NoRow /\ ~MatchKeysHold(w)
       \/ \E s \in Slots : at[w] = ResultStep(s) /\ ~ResultKeysHold(w, s)
    /\ at' = [at EXCEPT ![w] = "refused"]
    /\ UNCHANGED <<session, rec, tables>>

\* A statement that has had no effect: a connection error, or the deadline.
Fails(w) ==
    /\ at[w] \in Running
    /\ at' = [at EXCEPT ![w] = Stop(w)]
    /\ UNCHANGED <<session, rec, tables>>

\* The process ends and is started again: RunMigrations leaves the tables alone.
Restart ==
    /\ session' = [p \in Players |-> IF session[p] = "stored" THEN "lost" ELSE session[p]]
    /\ at' = [w \in Saves |-> IF at[w] \in Running THEN "cut" ELSE at[w]]
    /\ UNCHANGED <<rec, tables>>

-----------------------------------------------------------------------------

SaveStep(w) ==
    \/ SaveMatch(w) \/ Refused(w) \/ Fails(w)
    \/ \E s \in Slots : SaveUser(w, s) \/ SaveResult(w, s)

Next ==
    \/ \E p \in Players : Hello(p)
    \/ \E w \in Saves, k \in Ids, s0, s1, p1 \in Players, won \in Slots \cup {None} :
           MatchEnds(w, k, s0, s1, p1, won)
    \/ \E w \in Saves : SaveStep(w)
    \/ Restart

Spec == Init /\ [][Next]_vars

-----------------------------------------------------------------------------
(* Properties *)

Maybe(S) == S \cup {None}

Rows == [by : Maybe(Saves), player : [Slots -> Maybe(Players)], winner : Maybe(Players)]
Recs == [id : Maybe(Ids), session : [Slots -> Maybe(Players)],
         player : [Slots -> Maybe(Players)], won : Maybe(Slots)]

TypeOK ==
    /\ session \in [Players -> {"new", "stored", "lost"}]
    /\ at \in [Saves -> Running \cup {"unused", "saved", "failed", "refused", "cut"}]
    /\ rec \in [Saves -> Recs]
    /\ users \in SUBSET Players
    /\ matches \in [Ids -> Rows]
    /\ results \in SUBSET (Saves \X Slots)

\* The slots of w were filled while the guest's slot changed hands.
Mixed(w) == \E s \in Slots : rec[w].session[s] \notin {rec[w].player[s], None}

\* No statement is refused by a foreign key, whatever other saves do and
\* wherever they stop, unless StartMatch had mixed two guests.
RefusedOnlyMixed == \A w \in Saves : at[w] = "refused" => Mixed(w)

\* "match persisted" is logged only when the match has a row, both its results
\* are there and the users they refer to are: in particular no restart and no
\* failure of another save takes them away.
SavedIsComplete ==
    \A w \in Saves : at[w] = "saved" =>
        /\ matches[rec[w].id] # NoRow
        /\ \A s \in Slots : <<w, s>> \in results /\ rec[w].player[s] \in users

\* The results under a match id are those of the players of its row, and its
\* winner is the slot with "win", unless two matches have had the same id.
RowAgrees ==
    \A w \in Saves, s \in Slots : <<w, s>> \in results =>
        \/ \E v \in Saves \ {w} : rec[v].id = rec[w].id
        \/ LET row == matches[rec[w].id]
           IN  /\ row.player[s] = rec[w].player[s]
               /\ row.winner = rec[w].player[s] <=> rec[w].won = s

=============================================================================
