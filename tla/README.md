# Volley: a TLA+ verification project

Volley is a two-player game server in Go (`src/backend`). A client opens a WebSocket, says
hello, creates or joins a room by its code, sets a ready flag; when both players of a room are
ready the server runs a match, owns the ball and the score, and at the end records the result
in PostgreSQL. This directory models the parts whose correctness depends on the order in which
goroutines, messages, timers and disconnects meet, checks them with TLC and proves the main
results with TLAPS.

## 1. The system

| Component | Source | State it keeps | Operations |
|---|---|---|---|
| Lobby | `internal/lobby` | `rooms` (code to room), `byConn` (connection to room), each room's slots, ready flags and status; all under `Manager.mu` | `CreateRoom`, `JoinRoom`, `SetReady`, `LeaveRoom`, `OnDisconnect`; broadcasts `room.updated`, calls `onStart` |
| Match manager | `internal/matchmgr/manager.go` | `runs` (match id to run) and `byConn` (connection to run), two `sync.Map`s | `StartMatch`, `HandleInput`, `HandleReconnect`, `OnDisconnect`, the end callback |
| Match run | `internal/matchmgr/match_run.go` | game state, the two players' `Sender`, connection id and reconnect deadline under `MatchRun.mu`; `paused`; the input and reconnect channels | countdown, tick, score, rally reset, disconnect, forfeit, reconnect, end |
| Match record | `cmd/server/main.go` | none | snapshot of the finished match, results of the two slots, `SaveMatchResult` |
| Simulation, physics | `internal/match`, `internal/physics` | none: pure functions of `MatchState` | `Tick`, `RallyReset`, `SetPlayerTarget`; the collisions |
| Connection | `internal/wsconn/conn.go` | socket, send buffer of 64 messages | `readLoop` (dispatches one message at a time, then `onClose`, then `close(send)`), `writeLoop`, `SendBytes` |
| Dispatcher | `internal/wsconn/handler.go` | the session of the connection | hello, and the routing of each message type |
| Sessions | `internal/auth` | sessions by token and by id | `Put`, `Get...`, `Delete` |
| Storage | `internal/storage`, `migrations` | PostgreSQL | `SaveUser`, `SaveMatch`, `SaveMatchResult` |
| Protocol, snapshots, configuration | `internal/protocol`, `matchmgr/snapshot.go`, `internal/config` | none | encoding, decoding, defaults |

How they interact. Each connection has a goroutine (`readLoop`) that runs its handlers one
after the other; the handlers call the lobby and the match manager. The lobby calls
`matchmgr.StartMatch` back, outside its lock, on the goroutine of the player whose ready flag
completed the pair. Each match has a goroutine (`matchLoop`) that spawns one goroutine per rally
reset and one timer per disconnect. All of them send to connections through the `Sender` of the
slot, which `HandleReconnect` and `OnDisconnect` change from the connections' goroutines.

What is hard to get right, and to test:

- `StartMatch` reads the room's slots after the lobby has unlocked it.
- `send` reads a `Sender` under the lock and uses it outside, while the connection may close.
- one `paused` flag serves rally pauses and reconnect windows, and each end of one clears it.
- a forfeit timer is never stopped, and acts after releasing the lock of its check.
- the two indexes of the match manager change in `StartMatch`, `HandleReconnect` and the end
  callback, of one match or of several, with no common lock; a match's id is its room's code and
  is used again.
- `reconnectCh` has four places, and the handler that sends on it waits for one.
- two handlers and the loop share one bounded input channel; dropping and adding are two steps.
- the record is made from the `Sender`s as they are later than the verdict, and saved by five
  statements without a transaction, beside those of other matches.
- a connection's two loops end each other, with three clocks and a buffer that drops.
- the ball's collisions are looked for at the positions of the ticks only.

The full list, with the line of each, is under `hazards` in `PROJECT.json`.

What makes each component correct: the lobby's two maps and its slots agree, a broadcast never
meets a closed connection, a room starts at most one match and its members know its state. A
match scores one point per rally, plays only with both players, ends exactly when somebody has
won or by one forfeit, announces one winner and is recorded as announced. The indexes lead a
player to his match from its first tick to its end, and to no stranger's. A connection delivers in
order and at most once, keeps a client that answers and notices one that does not. A save that
reports success is complete. No ball passes through a paddle. Not all of this is so: sections 3
and 5 say where the code falls short of it, and the properties say of which states they speak.

## 2. The modules

| Module | What it is |
|---|---|
| `Rooms` | abstract: who sits in the room of each code, and whether it has started |
| `Lobby` | the room manager, and the steps of the `StartMatch` it calls; implements `Rooms` |
| `MatchManager` | several matches under the two indexes of the match manager; builds on `Rooms` |
| `MatchContract` | abstract: points, one verdict, a record after it |
| `MatchRun` | one match with its goroutines and handlers; implements `MatchContract` when nobody reconnects |
| `InputQueue` | the input channel of a match between two handlers and the loop |
| `Rally` | the ball and the paddles, tick by tick |
| `Storage` | the saves of finished matches, their tables and the sessions they look up |
| `LossyChannel` | abstract: messages arrive in order, at most once |
| `Conn` | one connection with its loops, buffer and deadlines; implements `LossyChannel` |
| `LobbyProofs`, `MatchManagerProofs`, `MatchRunProofs`, `InputQueueProofs`, `RallyProofs`, `StorageProofs`, `ConnProofs` | the theorems about each |
| `MatchVerdictProofs` | the theorems about the verdict of a match, its record and `MatchContract`; builds on `MatchRunProofs` |
| `MCLobby`, `MCMatchManager`, `MCMatchRun`, `MCInputQueue`, `MCRally`, `MCStorage`, `MCConn` | small instances |

### Lobby and Rooms

Every exported method of `lobby.Manager` holds `Manager.mu` from start to end, so each is one
action, its broadcast included: `CreateRoom`, `JoinRoom`, `SetReady`, `LeaveRoom`,
`OnDisconnect` (the last two through `leaveRoomLocked`, with the branches `HostLeaves` and
`GuestLeaves`). A call that only returns an error changes nothing in the lobby and is a disabled
action. The exception is the end of `SetReady`, after the unlock: `onStart` is
`matchmgr.StartMatch`, which reads `room.Players[1]` four times, once per field. These are the
actions `ReadGuest` (one read; a nil slot panics the goroutine) and `StartMatch`.

`registry` and `byConn` are the two maps; `code`, `host`, `guest`, `ready`, `status` are the
fields of the rooms; `told` is the last room message addressed to each connection; `pc`,
`starting`, `grabbed` say where a goroutine inside `onStart` is; `fired` and `matches` are
history. A connection is `idle` between handlers, and after its `onClose` first `detached`, then
`closed` once `close(c.send)` has run.

`Rooms` is what is left of this for the rest of the server: host, guest and `started` of each
code. `RoomsKept` maps a code to the fields of its registered room object (`SeatHost`,
`SeatGuest`, `SeatStarted`) and says that the lobby never does anything else.

### MatchManager

The rooms are those of `Rooms`, so the lobby's own state does not have to be repeated. Each
access to `runs` and `byConn` (both `sync.Map`s) is a step, and so is each unlocked read of the
guest's slot:

| Action | Code |
|---|---|
| `StartByGuest` | `StartMatch` in the guest's goroutine, up to its first store: nobody else can change his slot |
| `StartByHost`, `ReadSender`, `ReadConnID`, `ReadSession` | the same in the host's goroutine: the guest may leave, and another one take the slot, between the reads |
| `StoreRun`, `StoreHost`, `StoreGuest` | its three stores, then `go matchLoop` |
| `EndCountdown`, `TakeSignal`, `EndMatch` | the match loop, as far as the manager sees it |
| `DeleteRun`, `Unindex` | the end closure: whatever run the id and the connections stand for by then |
| `LobbyOnDisconnect`, `DisconnectLoad`, `DisconnectDetach` | `onClose`: the lobby's half, then the load and the change of the slot |
| `ReconnectLoad`, `ReconnectRefused`, `ReconnectAttach`, `ReconnectDelete`, `ReconnectStore`, `ReconnectSignal` | `HandleReconnect` |

`players`, `session` and `sender` are the `ConnID`, the `SessionID` and the `Sender` of the slots;
for the slot of a guest who was replaced during the reads they may be three connections.
`SessionMatches` is the comparison of `manager.go:137`: the second guest of such a slot passes
it, gets the slot, and the first one's index entry is deleted (`ReconnectDelete`). `phase` says
where a run is, `at` and `run` where the goroutine of a connection is and which run it has
loaded, `id` the identifier it has read and not yet used. `ids` and `early` are history: the
`ConnID`s a run's slots have had, and the disconnects that came before `StartMatch` had stored
the match. A `ConnID` that is nil when it is read panics the host (`Lobby` has that); here he does
not go on.

### MatchRun

An action is what the code does between two points where another goroutine can get in.

| Action | Code |
|---|---|
| `Activate`, `TickPlay`, `TickDisconnect`, `TickScore`, `LoopReconnect`, `LoopCancelled` | one turn of the match loop up to its first send |
| `PickSender`, `SendBytes` | the two halves of `MatchRun.send`, for every thread with messages left in `todo` |
| `ScheduleForfeit`, `PauseRally`, `EndByScore` | what the loop does after those sends |
| `RallyReset`, `Unpause` | the goroutine of a rally reset |
| `ForfeitCheck`, `Cancel` | the forfeit timer |
| `DeleteRun`, `ReadConnID`, `Unindex`, `Persist` | `StartMatch`'s end closure, and the callback of `main.go` |
| `DisconnectLoad`, `DisconnectDetach`, `CloseSend` | `OnDisconnect` and the end of `readLoop` |
| `ReconnectLoad`, `ReconnectAttach`, `ReconnectStore`, `ReconnectSignal` | `HandleReconnect` |

`indexed[c]` is whether the manager's `byConn` maps `c` to this run, `registered` whether `runs`
holds it, `at[c]` where the goroutine of the connection is, `held[t]` the `Sender` a thread has
read and not yet used. A send to a closed connection sets `crashed`, after which nothing moves:
a panic in a goroutine of the match ends the process.

The slots start with what the reads of `StartMatch` gave: three constants, `Original` (the
`Sender`), `ConnIDs` and `Sessions`, of one connection or, in a mixed slot 1, of several.
`SlotBySession` is the comparison of `manager.go:137` with them. `client.hello` makes a new session
each time, so no later connection has the session of a slot, and one that has said hello again
has lost it; but the second guest of a mixed slot has it, and fills the slot when the first one
has left. `Unmixed` slots are those whose `ConnID` and session are one connection's; the
properties that are false of the others name it.

The model begins when `StartMatch` has stored the run. Only the goroutine that stores it is sure
to be there then: `Init` allows each other player's `onClose` to have run before the stores, which
leaves its `Sender` in the slot for good (`StartedBySomebody`).

Abstracted: the clock (a sleep or a timer ends at any time), the physics (`Rally`), the inputs
(`InputQueue`), the payloads except the winner, and which ticks send a snapshot. A database is
assumed to be configured.

`MatchContract`: points come one at a time and only while nobody has won and nothing is decided;
the verdict is the player with `PointsToWin` points, or either one, by forfeit, while nobody has
them; a record comes after the verdict. `ContractKept` maps `announced` to the verdict and
`result` to the record. It is checked with `MaxReconnects = 0`: a `match.reconnect` of a player
who never left clears `paused` while the other one is away, and play goes on without him.

### InputQueue

`HandleInput` is four steps: `FindSlot` (under the run's mutex, which the loop holds while it
drains), `TrySend`, `DropOldest`, `RetrySend`; the loop is `TickStarts`, `DrainOne` (with
`SetPlayerTarget`) and `DrainDone`. `paused` keeps the loop from draining, `Cancelled` ends it.
A client is assumed to number its inputs upwards, with repetitions; the target goes with the
number. `crossed` is history: since the latest input of a slot, the other player's handler has
dropped one of its inputs or taken the place it had made.

### Rally

`Tick` and `RallyReset` with the operators of `physics.go` in the order of their calls:
`MoveBall`, `WallCollide`, `MovePaddle`, `PaddleCollide` for slot 0 and then slot 1,
`CheckScore`. Numbers are integers in any unit, so rounding is not modelled; the cosine and sine
of a bounce are any member of `Directions` on the side that the offset gives. `Speed` is any, as
`room.create` has it; `SlowEnough` names the speeds at which a ball moves no more in a tick than
the height of a paddle and its own. `missed`, `hitter` and `twice` are history: `missed` is set
when, after a tick, the ball is level with the paddle it flies to, or past it, and beside it.

### Storage

A save is five statements (`SaveUser` twice, `SaveMatch`, `SaveResult` twice). Each may succeed,
succeed and be reported as failed, fail, or be refused by a foreign key (`Refused`), and
`Restart` may come anywhere: it loses the sessions and the saves in progress and keeps the
tables. `MatchEnds` is the callback's snapshot and lookup of sessions; a slot may hold the
session of one guest and the player id of another, which is what `StartMatch` makes of a slot
that changes hands between two of its reads (`Lobby`).

### Conn

`SendBytes` and `Enqueue` (dropped when the buffer is full), `writeLoop` (`TakeMessage`,
`TakeTick`, `Write`, `WriteError`, `SendClosed`), `readLoop` (`ReadMessage`, `Handled`,
`ReadError`, `CloseSend`, `CloseSocket`), the client and `Time`. Time is discrete and does not
pass while a goroutine can go on. `ConnAssumption` requires `PingInterval + Delay < PongWait`:
10 and 15 seconds in the code, so a client has less than five seconds to answer. What a handler
does is in the other modules; here it may send one message.

## 3. The runs

| Run | Instance | What it shows |
|---|---|---|
| `lobby` | 3 connections, 2 codes, 2 rooms, 2 reads of the slot | a room starts once, with the second flag of its first pair; its members know who sits there and who is ready, and its status but for the start itself; a guest who loses his place is told; the maps agree and no broadcast meets a closed connection; and the lobby is `Rooms` |
| `matches` | 3 connections, 2 codes, 2 matches; up to 3 reconnects where there is one match; a channel of one | nobody is routed to a stranger's match; a match disappears from an index only on account of another one, or while a reconnect is storing its entry; disconnects reach their match but in the cases the property lists; no route to a finished match but by a late reconnect |
| `match_away` | 2 connections, 2 points to win, no reconnect | one verdict, nothing sent after it, no play while a player is away, one point per rally, the contract; and, under fairness, that a match a player has left is decided and recorded |
| `match_reconnect` | 3 connections, 2 points, 3 goroutines, one reconnect, a channel of one, slots unmixed | the end by score, no forfeit of a player who is there, no disconnect lost, a record that agrees with what was announced, and a paused loop that something will wake, under every overlap of a reconnect with the rest |
| `inputs` | a channel of 2, 4 inputs each | inputs in order, the newest kept, handlers return, a drain ends |
| `storage` | 2 saves, 2 ids, 4 players | no statement is refused, a reported success is complete, results agree with their row |
| `conn` | a buffer of 1, a network of 1, 3 messages, pings every 4, deadlines 6 and 4, answers within 1 | an answering client is kept, a silent one is noticed, both goroutines end, and the connection is `LossyChannel` |
| `rally` | a court of 16, a ball of radius 1 that moves 4 | no point without a miss, no double hit, every rally goes on |

Each property of these has a mutant in `PROJECT.json`, a plausible slip in a definition of the
model, which breaks it.

Runs that are expected to fail, each for a statement of the documents or comments that the code
does not keep (quoted under `findings`):

| Run | What TLC finds |
|---|---|
| `lobby_guest_leaves_start` | the guest leaves while `StartMatch` reads his slot: nil dereference on the host's goroutine |
| `match_token` | a player who comes back on a new connection with his token does not get his slot |
| `match_send_closed` | a connection closes between the two halves of `send`: the process panics. It starts with everybody there (`SpecAllThere`) |
| `rally_tunnel` | the code's court in units of 1/2000 and a `BallSpeed` of 1.995, which `room.create` admits: the first serve passes through a paddle that stands in its way |

Bounds. Three connections in the lobby are a pair and one who takes a place of it; two codes and
two room objects make a code's second use meet the first one's leftovers (a room object is never
used twice). Two reads in `lobby` are enough for the slot to change hands between them; the
failing run has all four. The proofs hold for any number.

`matches` has two matches of three players, so that they can have the same code, the same
players, one player in common, or nothing but the server. The invariants' exceptions ("another
match of the same code, of the same connection") are then false of some reachable states with
two matches and true of others. Connections, codes and runs are interchangeable (`Symmetry`).
`Bounded` cuts the product of the two questions: `match.reconnect` comes from each of the three
connections where there is one match, mixed or not, or not at all where there are two. The same
invariants also held in an instance with two matches of one code and one reconnect (eleven
million states, too long to be a run), and the proofs need no such bound.

In one match there are two players; `b1` is a second connection of one of them. Two points to win
give a rally pause before the end and a score of one to one. `Gs` bounds the goroutines and timers
alive at once: a rally reset, and a timer for each player. Where the bound is reached the loop
waits, which the code would not do; without reconnects the loop is paused by what it has spawned,
and two suffice. `MaxReconnects` bounds the `match.reconnect` messages that find the run;
`ReconnectCap` is 1 where the full channel matters (4 in the code). Four inputs of each player
overflow a channel of two more than once. Two saves of four players share an id, or players, or
nothing. A network that holds one message makes a write block as soon as the client is silent.
The ball of `rally` is the fastest that is `SlowEnough` for its court.

Runs say `CHECK_DEADLOCK FALSE` where the system really stops: connections close for good, a
match ends, the saves are used up.

Fairness. `MatchRun`: weak fairness of the loop, of each spawned goroutine and of each handler
that has begun (the Go scheduler runs what is runnable, sleeps and timers end, sends do not
block), and strong fairness of `LoopCancelled`, since a `select` with several ready cases takes
one at random and does not pass over `ctx.Done()` for ever. Nothing makes a match end but its own
goroutines. `InputQueue`: the drain and each handler; nobody has to send, tick or unpause.
`Conn`: each loop, and time. `Rally`: the ticker and the pauses. What clients do is under no
fairness anywhere.

## 4. The proofs

All theorems are for any values of the constants that satisfy the modules' `ASSUME`s, which are
mostly that nil is none of the things it stands beside and that capacities are positive. Three say
more: `ConnAssumption` of `Conn` (`PingInterval + Delay < PongWait`), `RallyAssumption` (the paddles
stand apart; nothing about the ball's speed), and `ConnAssumption` of `MatchRun` (the host's slot
is not mixed, and no connection is in both slots). What a theorem needs beyond that is a premise
of it: `NoSecondGuest`, `NoneAccepted` and `SlowEnough` below.

`LobbyProofs`: `TypeCorrect`, `IndexesAgree`, `NoSendToClosed`, `RoomStartsOnce`,
`ReadyPairsStart`, `MembersAreTold`, `ClosingIsTold`, `ImplementsRooms`. `IndexConsistent` is
what the rest stands on: `leaveRoomLocked` and `SetReady` start from `byConn`, and act on the
right room only if the maps and the slots agree. `StartsOnce` needs in addition that a room
somebody is starting, or that has a match, is in status `starting`, which no operation takes
back. `ReadyPairsStart` is about rooms that wait: in one that has started a second pair may be
ready for ever. `MembersAreTold` has the status too: a member may be wrong about it in one way only,
believing that the room waits while the pair that was started still sits there with both flags.
The refinement takes each method to one action of `Rooms`, since at most one room object is
registered under a code.

`MatchManagerProofs`: `TypeCorrect`, `RoutesArePlayers`, `LostToAnother`, `DisconnectsAreHeard`,
`NoRouteLeft`, with any number of matches, reconnects and changes of the guest. The `ConnID` of a
slot may change, but the set of those it has had only grows, and a run keeps its code and its host
(`Grows`). So whoever overwrites or deletes an entry of another run goes on being a run with the
same code, or one the same connection has played in: that is the second half of `IndexedOK`, which
never has to be taken back. Between the read of the guest's `ConnID` and its store the entry is
on its way (`GuestIndexed`); so it is between a `ReconnectAttach` and its store (`Attaching`).
`LocalsOK` says what each handler's local variables stand for, in particular that the entry a
`ReconnectDelete` removes is that of a former guest and not the host's. `RoutesToPlayers` is needed
for the handlers: `OnDisconnect` changes the slot of whom it was called for. `HeardOK` is
`DisconnectsHeard` from the moment the run is made, and needs that a player with a seat in a room
has not left (`SeatsOK`). `FinishedOK` follows the end callback slot by slot.

`MatchRunProofs`: `InductiveInvariant`, `TypeCorrect`, `ScoresDecide`, `DisconnectsReach`. The
invariant has two facts beside the properties:

- `SessionsOK`: the connection of a slot is the one it started with or the one whose session it
  has, and its `Sender` is nil only once that connection's `OnDisconnect` is through.
- `IndexOK`: while the run is registered both slots' connections are indexed, or their handler is
  about to store the entry; and `HandleReconnect` never deletes an entry that is needed, because
  the two slots share no connection.

`DisconnectsReach` follows for mixed slots too, and for a match that starts with players who are
gone: it says that no step makes a slot hold, with its own `ConnID`, the `Sender` of a connection
whose `onClose` is through. It does not say that none holds one from the start.

`MatchVerdictProofs` goes on from there, in two parts. The first holds under any number of
reconnects, of the matches in which an empty slot stays empty: `NobodyComesBack`,
`NoForfeitOfThePresent`, `RecordsAgree`, `PauseEnds`. Their premise `[]NoSecondGuest` says that the
slots are `Unmixed`, or else that no `match.reconnect` finds a slot. Without it they are false, and
TLC refutes them: the second guest of a mixed slot fills it between a timer's check and its
broadcast, and is told that he has forfeited.

- `GroundsOK` is why a winner is the winner: he has the points, or his opponent's slot is empty,
  and empty it stays (`NobodyComesBack`). So the timer may act on a check it made under a lock it
  no longer holds. This rests on the behaviour `match_token` reports: with the mutant
  `SlotByToken`, a lookup by token as the design document has it, `NoForfeitOfAttached` fails as it
  does in a mixed slot. Whoever implements the reconnect has to close this window too.
- `RecordOK` carries the grounds to the record. It has to speak of timers too: one that is still
  waiting when the record is made will announce its winner afterwards, and the record must
  already name him.
- `PausedHasWaker` is inductive with these: no goroutine ends without having cleared the flag,
  cancelled the context or found its player back, and the last never happens.

The second part is about the matches of which `[]NoneAccepted` is true, that is, in which no
`match.reconnect` finds a slot (`NoneAccepted`): `MatchStages`, `VerdictIsFinal`,
`NoPointWhileAway`, `OnePointPerRallyOnly`, `ImplementsContract`. A player who comes back does so on
a new connection, has a new session and finds none. Left out are a client that asks for its slot on
the connection it has never lost, and the second guest of a mixed slot: they clear `paused` on
behalf of others, and TLC refutes all four properties. `Stage` lists where the other matches can be
(`InPlay`, `Scored`, `BetweenRallies`, `Noticed`, `Waiting`, `Forfeiting`, `Over`), with at most one
goroutine beside the loop in each. Two timers, or a timer and a rally reset, never meet, because the
loop is paused from the moment it has spawned the one until that one is done. That there is one
verdict and that nothing follows it is read off the stages (with `SendersOK`: a `Sender` is held
only for the next message to its player); the two action properties and the refinement follow action
by action. In the refinement a score is a `Point`, `EndByScore` a `Win`, a `ForfeitCheck` that finds
the slot empty a `WinByForfeit`, `Persist` the `Record`, and everything else a stutter.

`InputQueueProofs`: `TypeCorrect`, `InputsInOrder`, `NewestIsKept`. No input in the channel is
newer than its player's latest (`Bounded`), so an appended one is the newest of its slot; and
the place a handler has made by dropping is there for its retry unless the other handler has
come between (`PlaceKept`).

`RallyProofs`: `TypeCorrect` and `HitsInTurn` for any speed, `NoPointWithoutMiss` for a ball that is
`SlowEnough`, a premise of the theorem (`rally_tunnel` is the counterexample without it). A ball that
flies to a paddle and has not missed it is before it (`Before`); in one tick such a ball moves at
most the thickness of the paddle and its own, so it cannot be behind it without having been level
with it after some tick, and then it was hit or it was beside it. A ball that has been hit flies
away, and `Hits` asks for a ball that approaches.

`StorageProofs`: `TypeCorrect`, `KeysRefuseOnlyMixed`, `SavedStaysComplete`, `RowsAgree`. The
tables only grow, so whatever a statement has found or written stays: the invariant says for each
position of a save which rows are there.

`ConnProofs`: `TypeCorrect`, `AnsweringClientKept`, `ImplementsLossyChannel`. For the first the
clocks are accounted for: while a client answers, the time since the last read is at most
`PingInterval + Delay`, split into what has passed since the tick, the way of the ping through
writer and network, and the answer. For the second the numbers in `got`, `net`, the message
being written and `send`, in this order, ascend.

Only model-checked: liveness under fairness, which is out of the prover's reach
(`AbandonedMatchRecorded`, `HandlerReturns`, `DrainEnds`, `GoroutinesEnd`, `BallReturns`). Every
other property of a passing run is a theorem; `match_away`, which has no `match.reconnect` at all,
is the instance of those with the premise.

## 5. Divergences that no run reports

Met while modelling; each is in the model as the code has it, and where it makes a property false
the property, or the premise of its theorem, says so.

- Nobody is told that a room starts: `SetReady` broadcasts (`lobby/manager.go:168`) and then sets
  the status, where the design of milestone 3 sets it first and "Broadcasts final `room.updated`"
  (lines 108 and 109). `StatusTold` is as much as is true.
- A room that has started never goes back to `waiting`, though the lobby design lets its players
  meet again: a second pair in it can be ready and nothing starts. The comment of `SetReady` (line
  150) says it "fires onStart when both are ready". `ReadyPairStarts` is about rooms that wait.
- `StartMatch` may read the connection of one guest and the session of the next: a match whose slot
  belongs to two people. `RefusedOnlyMixed` says what becomes of its record; the second one can
  take the slot from the first by a `match.reconnect`, and be there when he is declared to have
  forfeited. `Unmixed` and `NoSecondGuest` name the matches in which that cannot be.
- An `onClose` that runs before `StartMatch` has stored its entries finds no run: the `Sender` of a
  player who is gone stays in the slot for the whole match, though `OnDisconnect` "nullifies a
  player's sender so the tick loop can detect it" (`manager.go:163`). `DisconnectsHeard` excuses it
  by `early`. A send to it panics, as in `match_send_closed`.
- The winner by score who disconnects before the result is taken (`main.go:81`) is recorded as
  having forfeited, and the loser as having won; the comment there (lines 77 to 79) says that both
  results are a win for the same player. `RecordAgrees` speaks of a winner who is still connected.
- `GAME_LOOP_SPEC` has a match resume when the player who left is back; any `match.reconnect` of
  either player resumes it.
- `reconnectCh <- slot` waits while the channel is full, and for ever once the loop has returned:
  the connection's `onClose` then never runs. The plan of milestone 4 has a `select` with a
  `default:` there (lines 1206 and 1207).
- `HandleInput` ignores the match id; the design asks for an error. An input for a match one has
  left goes to the next one.
- "Drop oldest if channel is full" (`manager.go:105`): by the time it drops, the channel need not be
  full any more, the oldest input may be the other player's, and the place may be taken before the
  retry, so that the newest input is the one that is dropped. `crossed` marks these cases.
- `manager.go:16` says the manager tracks all running matches; a match whose code is used again
  is dropped from `runs` (`LostToAnotherMatch`).
- `SaveMatch` does nothing for an id that exists and reports success: the row of a later match of
  the same code is never written, while `db.go:100` to 102 say that `SaveMatchResult` writes it.
  `RowAgrees` is about ids that one match had.
- Saying hello again inside a room changes the connection's identity and not the room's.
- Snapshots go out every third of thirty ticks a second, ten a second; the plan of milestone 4
  says twenty.

## 6. What is not modelled

- Encoding and decoding of messages, error replies, the HTTP upgrade and TLS: no state of their
  own. Which messages are sent and to whom is in `Lobby`, `MatchRun` and `MatchManager`.
- `config` and the settings of a room: read once. Those the behaviour depends on are constants.
- Opening the database and its read-only queries; SQL beyond keys and `ON CONFLICT`.
- The sessions' index by token and `Delete`, which the server does not use, and random ids.
- Rounding of positions, and the angles as such.
- The memory model: a racing read or write is one of its outcomes at some moment. `tickCount`,
  which two goroutines write, decides only which ticks send a snapshot.
- Build and hosting files.

What could be added: the refinement of `Rooms` and the match manager in one module, with the
reads of `StartMatch` between the lobby's steps and the stores.
