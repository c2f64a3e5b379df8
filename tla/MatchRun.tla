------------------------------ MODULE MatchRun ------------------------------
(***************************************************************************)
(* One running match of backend/internal/matchmgr: the match goroutine, the *)
(* goroutines it spawns (one per rally reset, one timer per forfeit), the   *)
(* two handlers that touch the run from a connection's goroutine            *)
(* (HandleReconnect and OnDisconnect), the end callback and the snapshot    *)
(* main.go takes of the finished match.                                     *)
(*                                                                         *)
(* An action is what the code does between two points where another         *)
(* goroutine can get in: a critical section of MatchRun.mu, a send, an      *)
(* operation on a sync.Map or a channel.  A send is two steps, because      *)
(* send() reads the Sender under the lock and calls SendBytes outside it.   *)
(*                                                                         *)
(* The model starts when StartMatch has stored the run, with whatever its   *)
(* unlocked reads of the guest's slot have given: the Sender, the ConnID    *)
(* and the session of slot 1 are read one after the other and may be those  *)
(* of different guests (Lobby has the race).  They are three constants, and *)
(* what holds only of a slot that is not mixed says so (Unmixed).  A player *)
(* whose goroutine does not run StartMatch may be gone by then.             *)
(*                                                                         *)
(* Abstracted: the clock (a sleep or a timer ends at any time), the physics *)
(* (the ball may leave on either side at any tick) and with it the paddle   *)
(* inputs, the payloads other than the winner, and the phase of the         *)
(* snapshot counter (any tick may be a third one).                          *)
(***************************************************************************)
EXTENDS Naturals, Sequences

Slots == {0, 1}
Other(s) == 1 - s

CONSTANTS
    Conns,          \* connections of the two players, present and future
    Original,       \* the connection whose Sender each slot starts with
    ConnIDs,        \* the connection whose identifier it starts with
    Sessions,       \* the connection whose session it has, for good
    Owner,          \* the player who uses a connection, and holds its token
    Gs,             \* spawned goroutines and timers alive at once (bound)
    PointsToWin,
    ReconnectCap,   \* capacity of reconnectCh (4 in the code)
    MaxReconnects,  \* match.reconnect messages that find the run (bound)
    None            \* nil

ASSUME ConnAssumption ==
    /\ Original \in [Slots -> Conns]
    /\ ConnIDs \in [Slots -> Conns]
    /\ Sessions \in [Slots -> Conns]
    /\ ConnIDs[0] = Original[0] /\ Sessions[0] = Original[0]
    /\ Original[0] \notin {Original[1], ConnIDs[1], Sessions[1]}
    /\ Owner \in [Conns -> Slots]
    /\ \A s \in Slots : Owner[Original[s]] = s

ASSUME NumberAssumption ==
    /\ PointsToWin \in Nat \ {0}
    /\ ReconnectCap \in Nat \ {0}
    /\ MaxReconnects \in Nat

ASSUME NameAssumption ==
    /\ None \notin Conns \cup Slots
    /\ "loop" \notin Gs

Threads == {"loop"} \cup Gs

\* The identifier and the session of the slot are those of one connection.
Unmixed(s) == Sessions[s] = ConnIDs[s]

VARIABLES
    phase,          \* State.Status
    score,          \* State.Players[s].Score
    out,            \* the slot that scores with the ball where it is, or None
    sender,         \* Players[s].Sender
    connID,         \* Players[s].ConnID
    deadline,       \* whether Players[s].ReconnectDeadline is set
    paused,         \* the loop's paused flag
    ctxDone,        \* whether cancelFn has been called
    reconnectCh,
    registered,     \* whether Manager.runs holds the run
    indexed,        \* whether Manager.byConn maps a connection to the run
    pc,             \* where each thread of the run is
    slot,           \* the slot a spawned thread was given; the loop's i
    todo,           \* the messages a thread is about to send
    held,           \* the Sender a thread has read but not yet called
    at,             \* where the goroutine of each connection is
    found,          \* the slot HandleReconnect attached a connection to
    oldConn,        \* its local oldConnID
    reconnects,     \* bound: match.reconnect messages handled so far
    announced,      \* history: winners broadcast in match.ended
    verdicts,       \* history: winners each connection was told
    result,         \* the results recorded for the slots, or None
    crashed         \* the process is gone: a goroutine of the run panicked

state    == <<phase, score, out>>
players  == <<sender, connID, deadline>>
manager  == <<registered, indexed>>
threads  == <<pc, slot, todo, held>>
handlers == <<at, found, oldConn, reconnects>>
outcome  == <<announced, verdicts, result, crashed>>
vars == <<state, players, paused, ctxDone, reconnectCh, manager, threads,
          handlers, outcome>>

-----------------------------------------------------------------------------
(* Messages and sending *)

Msg(s, k, w) == [to |-> s, kind |-> k, winner |-> w]
ToBoth(k, w) == <<Msg(0, k, w), Msg(1, k, w)>>

\* The thread has nothing left to send.
Sent(t) == todo[t] = <<>>

\* send: the Sender is read under the lock; nobody there, nothing sent.
PickSender(t) ==
    /\ ~crashed
    /\ ~Sent(t)
    /\ held[t] = None
    /\ LET c == sender[Head(todo[t]).to] IN
       IF c = None
       THEN todo' = [todo EXCEPT ![t] = Tail(@)] /\ UNCHANGED held
       ELSE held' = [held EXCEPT ![t] = c] /\ UNCHANGED todo
    /\ UNCHANGED <<state, players, paused, ctxDone, reconnectCh, manager, pc,
                   slot, handlers, outcome>>

\* SendBytes on the Sender read before.  A closed channel panics, which no one
\* recovers in these goroutines; a full buffer drops the message.
SendBytes(t) ==
    /\ ~crashed
    /\ ~Sent(t)
    /\ held[t] # None
    /\ LET c == held[t]
           m == Head(todo[t])
       IN  IF at[c] = "closed"
           THEN /\ crashed' = TRUE
                /\ UNCHANGED <<todo, held, verdicts>>
           ELSE /\ todo' = [todo EXCEPT ![t] = Tail(@)]
                /\ held' = [held EXCEPT ![t] = None]
                /\ \/ /\ m.kind = "match.ended"
                      /\ verdicts' = [verdicts EXCEPT ![c] = @ \cup {m.winner}]
                   \/ UNCHANGED verdicts
                /\ UNCHANGED crashed
    /\ UNCHANGED <<state, players, paused, ctxDone, reconnectCh, manager, pc,
                   slot, handlers, announced, result>>

-----------------------------------------------------------------------------
(* matchLoop *)

\* StartMatch has run in the goroutine of one player, whose connection is still
\* open.  The onClose of the others may have run before the index entries were
\* stored, and then it has found no run.  The guest's slot is mixed only if the
\* host is the one who starts, and a new guest takes the slot of one who leaves.
StartedBySomebody ==
    /\ \/ at[Original[0]] = "open"
       \/ at[Original[1]] = "open" /\ {ConnIDs[1], Sessions[1]} = {Original[1]}
    /\ \A c \in Conns : at[c] # "open" =>
           \E s \in Slots : c \in {Original[s], ConnIDs[s], Sessions[s]}

Init ==
    /\ phase = "waiting"
    /\ score = [s \in Slots |-> 0]
    /\ out = None
    /\ sender = Original
    /\ connID = ConnIDs
    /\ deadline = [s \in Slots |-> FALSE]
    /\ paused = FALSE
    /\ ctxDone = FALSE
    /\ reconnectCh = <<>>
    /\ registered = TRUE
    /\ indexed = [c \in Conns |-> \E s \in Slots : c = ConnIDs[s]]
    /\ pc = [t \in Threads |-> IF t = "loop" THEN "countdown" ELSE "free"]
    /\ slot = [t \in Threads |-> 0]
    /\ todo = [t \in Threads |-> IF t = "loop" THEN ToBoth("match.countdown", None)
                                 ELSE <<>>]
    /\ held = [t \in Threads |-> None]
    /\ at \in [Conns -> {"open", "detached", "closed"}]
    /\ StartedBySomebody
    /\ found = [c \in Conns |-> 0]
    /\ oldConn = [c \in Conns |-> None]
    /\ reconnects = 0
    /\ announced = {}
    /\ verdicts = [c \in Conns |-> {}]
    /\ result = None
    /\ crashed = FALSE

\* The loop's thread is at l with all its messages sent.
LoopAt(l) == pc["loop"] = l /\ Sent("loop")

LoopGoes(l, msgs) ==
    /\ pc' = [pc EXCEPT !["loop"] = l]
    /\ todo' = [todo EXCEPT !["loop"] = msgs]

\* After the countdown: the match is active, match.started goes to each player.
Activate ==
    /\ ~crashed
    /\ LoopAt("countdown")
    /\ phase' = "active"
    /\ LoopGoes("select", ToBoth("match.started", None))
    /\ UNCHANGED <<score, out, players, paused, ctxDone, reconnectCh, manager,
                   slot, held, handlers, outcome>>

LoopCancelled ==
    /\ ~crashed
    /\ LoopAt("select")
    /\ ctxDone
    /\ LoopGoes("onEnd", <<>>)
    /\ UNCHANGED <<state, players, paused, ctxDone, reconnectCh, manager, slot,
                   held, handlers, outcome>>

\* A slot arrives on reconnectCh: unpause, whoever else may be away.
LoopReconnect ==
    /\ ~crashed
    /\ LoopAt("select")
    /\ reconnectCh # <<>>
    /\ reconnectCh' = Tail(reconnectCh)
    /\ LET s == Head(reconnectCh) IN
       IF ctxDone
       THEN LoopGoes("onEnd", <<>>) /\ UNCHANGED <<paused, deadline>>
       ELSE /\ paused' = FALSE
            /\ deadline' = [deadline EXCEPT ![s] = FALSE]
            /\ LoopGoes("select", <<Msg(s, "match.reconnected", None),
                                    Msg(Other(s), "player.reconnected", None)>>)
    /\ UNCHANGED <<state, sender, connID, ctxDone, manager, slot, held, handlers,
                   outcome>>

\* Newly away: no Sender, and no deadline yet.
Away(s) == sender[s] = None /\ ~deadline[s]

TickGuard == LoopAt("select") /\ ~paused

\* The first slot found newly away gets a deadline; the other one is told.
TickDisconnect(s) ==
    /\ ~crashed
    /\ TickGuard
    /\ Away(s)
    /\ s = 1 => ~Away(0)
    /\ deadline' = [deadline EXCEPT ![s] = TRUE]
    /\ slot' = [slot EXCEPT !["loop"] = s]
    /\ LoopGoes("schedule", <<Msg(Other(s), "player.disconnected", None)>>)
    /\ UNCHANGED <<state, sender, connID, paused, ctxDone, reconnectCh, manager,
                   held, handlers, outcome>>

PauseForReconnectForgotten == UNCHANGED paused

PauseForReconnect == paused' = TRUE

\* AfterFunc, then the pause.
ScheduleForfeit(g) ==
    /\ ~crashed
    /\ LoopAt("schedule")
    /\ pc[g] = "free"
    /\ PauseForReconnect
    /\ pc' = [pc EXCEPT !["loop"] = "select", ![g] = "timer"]
    /\ slot' = [slot EXCEPT ![g] = slot["loop"], !["loop"] = 0]
    /\ UNCHANGED <<state, players, ctxDone, reconnectCh, manager, todo, held,
                   handlers, outcome>>

\* A tick without a point that sends a snapshot.  Two ticks of three send
\* none and change nothing here.
TickPlay ==
    /\ ~crashed
    /\ TickGuard
    /\ \A s \in Slots : ~Away(s)
    /\ out = None
    /\ LoopGoes("select", ToBoth("match.snapshot", None))
    /\ UNCHANGED <<state, players, paused, ctxDone, reconnectCh, manager, slot,
                   held, handlers, outcome>>

WonAbove(n) == n > PointsToWin

\* The score that ends the match.
Won(n) == n >= PointsToWin

\* match.Tick of an active match scores: the ball leaves play on one side, or is
\* still beyond the line it crossed before (it flies on until RallyReset).
TickScore(s) ==
    /\ ~crashed
    /\ TickGuard
    /\ phase = "active"
    /\ \A r \in Slots : ~Away(r)
    /\ out \in {None, s}
    /\ out' = s
    /\ score' = [score EXCEPT ![s] = @ + 1]
    /\ phase' = IF Won(score[s] + 1) THEN "ended" ELSE phase
    /\ slot' = [slot EXCEPT !["loop"] = s]
    /\ LoopGoes(IF Won(score[s] + 1) THEN "matchEnded" ELSE "pauseRally",
                ToBoth("match.score", None))
    /\ UNCHANGED <<players, paused, ctxDone, reconnectCh, manager, held, handlers,
                   outcome>>

EndByScoreGoingOn ==
    /\ ~crashed
    /\ LoopAt("matchEnded")
    /\ announced' = announced \cup {slot["loop"]}
    /\ slot' = [slot EXCEPT !["loop"] = 0]
    /\ LoopGoes("select", ToBoth("match.ended", slot["loop"]))
    /\ UNCHANGED <<state, players, paused, ctxDone, reconnectCh, manager, held,
                   handlers, verdicts, result, crashed>>

\* match.ended to both players, and the loop returns.
EndByScore ==
    /\ ~crashed
    /\ LoopAt("matchEnded")
    /\ announced' = announced \cup {slot["loop"]}
    /\ slot' = [slot EXCEPT !["loop"] = 0]
    /\ LoopGoes("onEnd", ToBoth("match.ended", slot["loop"]))
    /\ UNCHANGED <<state, players, paused, ctxDone, reconnectCh, manager, held,
                   handlers, verdicts, result, crashed>>

PauseForRallyForgotten == UNCHANGED paused

PauseForRally == paused' = TRUE

\* The pause, then the goroutine that waits and resets the rally.
PauseRally(g) ==
    /\ ~crashed
    /\ LoopAt("pauseRally")
    /\ pc[g] = "free"
    /\ PauseForRally
    /\ pc' = [pc EXCEPT !["loop"] = "select", ![g] = "rally"]
    /\ slot' = [slot EXCEPT ![g] = slot["loop"], !["loop"] = 0]
    /\ UNCHANGED <<state, players, ctxDone, reconnectCh, manager, todo, held,
                   handlers, outcome>>

-----------------------------------------------------------------------------
(* The goroutine of a rally reset, and the timer of a forfeit *)

\* After its sleep: match.RallyReset under the lock, then the broadcast.
RallyReset(g) ==
    /\ ~crashed
    /\ pc[g] = "rally"
    /\ out' = None
    /\ pc' = [pc EXCEPT ![g] = "unpause"]
    /\ todo' = [todo EXCEPT ![g] = ToBoth("match.rally_reset", None)]
    /\ UNCHANGED <<phase, score, players, paused, ctxDone, reconnectCh, manager,
                   slot, held, handlers, outcome>>

Unpause(g) ==
    /\ ~crashed
    /\ pc[g] = "unpause"
    /\ Sent(g)
    /\ paused' = FALSE
    /\ pc' = [pc EXCEPT ![g] = "free"]
    /\ slot' = [slot EXCEPT ![g] = 0]
    /\ UNCHANGED <<state, players, ctxDone, reconnectCh, manager, todo, held,
                   handlers, outcome>>

\* The window is over: is the player still away?  The lock is released after
\* the check; the broadcast and the cancel follow without it.
ForfeitCheck(g) ==
    /\ ~crashed
    /\ pc[g] = "timer"
    /\ LET s == slot[g] IN
       IF sender[s] = None
       THEN /\ pc' = [pc EXCEPT ![g] = "cancel"]
            /\ todo' = [todo EXCEPT ![g] = ToBoth("match.ended", Other(s))]
            /\ announced' = announced \cup {Other(s)}
            /\ UNCHANGED slot
       ELSE /\ pc' = [pc EXCEPT ![g] = "free"]
            /\ slot' = [slot EXCEPT ![g] = 0]
            /\ UNCHANGED <<todo, announced>>
    /\ UNCHANGED <<state, players, paused, ctxDone, reconnectCh, manager, held,
                   handlers, verdicts, result, crashed>>

CancelForgotten == UNCHANGED ctxDone

CancelContext == ctxDone' = TRUE

Cancel(g) ==
    /\ ~crashed
    /\ pc[g] = "cancel"
    /\ Sent(g)
    /\ CancelContext
    /\ pc' = [pc EXCEPT ![g] = "free"]
    /\ slot' = [slot EXCEPT ![g] = 0]
    /\ UNCHANGED <<state, players, paused, reconnectCh, manager, todo, held,
                   handlers, outcome>>

-----------------------------------------------------------------------------
(* The end of the run: StartMatch's onEnd closure and main.go's callback *)

DeleteRun ==
    /\ ~crashed
    /\ LoopAt("onEnd")
    /\ registered' = FALSE
    /\ LoopGoes("unindex", <<>>)
    /\ UNCHANGED <<state, players, paused, ctxDone, reconnectCh, indexed, slot,
                   held, handlers, outcome>>

\* ConnID is read under the lock, the entry deleted outside it.
ReadConnID ==
    /\ ~crashed
    /\ LoopAt("unindex")
    /\ held["loop"] = None
    /\ held' = [held EXCEPT !["loop"] = connID[slot["loop"]]]
    /\ UNCHANGED <<state, players, paused, ctxDone, reconnectCh, manager, pc,
                   slot, todo, handlers, outcome>>

MoreSlots(s) == s = 0

Unindex ==
    /\ ~crashed
    /\ LoopAt("unindex")
    /\ held["loop"] # None
    /\ indexed' = [indexed EXCEPT ![held["loop"]] = FALSE]
    /\ held' = [held EXCEPT !["loop"] = None]
    /\ IF MoreSlots(slot["loop"])
       THEN slot' = [slot EXCEPT !["loop"] = 1] /\ UNCHANGED pc
       ELSE /\ slot' = [slot EXCEPT !["loop"] = 0]
            /\ pc' = [pc EXCEPT !["loop"] = "persist"]
    /\ UNCHANGED <<state, players, paused, ctxDone, reconnectCh, registered, todo,
                   handlers, outcome>>

SlotResultsSwapped(s) ==
    CASE sender[s] = None /\ sender[Other(s)] # None -> "win"
      [] sender[s] # None /\ sender[Other(s)] = None -> "forfeit"
      [] OTHER -> IF score[s] > score[Other(s)] THEN "win" ELSE "loss"

\* The switch of main.go: a forfeit if exactly one Sender is nil, else the
\* scores; two losses on a tie.
SlotResult(s) ==
    CASE sender[s] = None /\ sender[Other(s)] # None -> "forfeit"
      [] sender[s] # None /\ sender[Other(s)] = None -> "win"
      [] OTHER -> IF score[s] > score[Other(s)] THEN "win" ELSE "loss"

\* Players and State are read under the lock, in a goroutine of its own.
Persist ==
    /\ ~crashed
    /\ LoopAt("persist")
    /\ result' = [s \in Slots |-> SlotResult(s)]
    /\ LoopGoes("done", <<>>)
    /\ UNCHANGED <<state, players, paused, ctxDone, reconnectCh, manager, slot,
                   held, handlers, announced, verdicts, crashed>>

-----------------------------------------------------------------------------
(* The handlers, each in the goroutine of its connection *)

\* OnDisconnect, from onClose.  The index may hold no run.
DisconnectLoad(c) ==
    /\ ~crashed
    /\ at[c] = "open"
    /\ at' = [at EXCEPT ![c] = IF indexed[c] THEN "disconnecting" ELSE "detached"]
    /\ UNCHANGED <<state, players, paused, ctxDone, reconnectCh, manager, threads,
                   found, oldConn, reconnects, outcome>>

\* Under the lock.  The two ConnIDs differ, so at most one slot matches.
DisconnectDetach(c) ==
    /\ ~crashed
    /\ at[c] = "disconnecting"
    /\ sender' = [s \in Slots |-> IF connID[s] = c THEN None ELSE sender[s]]
    /\ at' = [at EXCEPT ![c] = "detached"]
    /\ UNCHANGED <<state, connID, deadline, paused, ctxDone, reconnectCh, manager,
                   threads, found, oldConn, reconnects, outcome>>

CloseSend(c) ==
    /\ ~crashed
    /\ at[c] = "detached"
    /\ at' = [at EXCEPT ![c] = "closed"]
    /\ UNCHANGED <<state, players, paused, ctxDone, reconnectCh, manager, threads,
                   found, oldConn, reconnects, outcome>>

\* HandleReconnect of a message that names this match, with the token of the
\* connection's owner (which the code does not look at).
ReconnectLoad(c) ==
    /\ ~crashed
    /\ at[c] = "open"
    /\ registered
    /\ reconnects < MaxReconnects
    /\ reconnects' = reconnects + 1
    /\ at' = [at EXCEPT ![c] = "reconnecting"]
    /\ UNCHANGED <<state, players, paused, ctxDone, reconnectCh, manager, threads,
                   found, oldConn, outcome>>

SlotByToken(c) == {Owner[c]}

\* The slot whose SessionID the session of c can be: every client.hello makes a
\* new session, so no connection but the one it was read from ever has it.
SlotBySession(c) == {s \in Slots : Sessions[s] = c}

\* Under the lock.  No slot, no reconnect: always so for a later connection, and
\* for one that has sent client.hello again since and has a new session.
ReconnectAttach(c) ==
    /\ ~crashed
    /\ at[c] = "reconnecting"
    /\ \/ /\ at' = [at EXCEPT ![c] = "open"]
          /\ UNCHANGED <<players, found, oldConn>>
       \/ \E s \in SlotBySession(c) :
          /\ sender' = [sender EXCEPT ![s] = c]
          /\ connID' = [connID EXCEPT ![s] = c]
          /\ deadline' = [deadline EXCEPT ![s] = FALSE]
          /\ oldConn' = [oldConn EXCEPT ![c] = connID[s]]
          /\ found' = [found EXCEPT ![c] = s]
          /\ at' = [at EXCEPT ![c] = "attached"]
    /\ UNCHANGED <<state, paused, ctxDone, reconnectCh, manager, threads,
                   reconnects, outcome>>

IndexOnlyNewest(c) == [d \in Conns |-> d # oldConn[c] /\ (d = c \/ indexed[d])]

\* The entry of the old connection goes, unless it is this same one.  Delete and
\* Store are one step: the old connection is in no slot any more, so it makes no
\* difference whether its OnDisconnect still finds the run in between.
IndexNewest(c) == [d \in Conns |-> d = c \/ (d # oldConn[c] /\ indexed[d])]

ReconnectStore(c) ==
    /\ ~crashed
    /\ at[c] = "attached"
    /\ indexed' = IndexNewest(c)
    /\ oldConn' = [oldConn EXCEPT ![c] = None]
    /\ at' = [at EXCEPT ![c] = "signalling"]
    /\ UNCHANGED <<state, players, paused, ctxDone, reconnectCh, registered,
                   threads, found, reconnects, outcome>>

\* reconnectCh <- slot: blocks while the channel is full.
ReconnectSignal(c) ==
    /\ ~crashed
    /\ at[c] = "signalling"
    /\ Len(reconnectCh) < ReconnectCap
    /\ reconnectCh' = Append(reconnectCh, found[c])
    /\ found' = [found EXCEPT ![c] = 0]
    /\ at' = [at EXCEPT ![c] = "open"]
    /\ UNCHANGED <<state, players, paused, ctxDone, manager, threads, oldConn,
                   reconnects, outcome>>

-----------------------------------------------------------------------------
(* The whole *)

LoopStep ==
    \/ PickSender("loop") \/ SendBytes("loop")
    \/ Activate
    \/ LoopCancelled \/ LoopReconnect
    \/ TickPlay \/ \E s \in Slots : TickDisconnect(s) \/ TickScore(s)
    \/ \E g \in Gs : ScheduleForfeit(g) \/ PauseRally(g)
    \/ EndByScore
    \/ DeleteRun \/ ReadConnID \/ Unindex \/ Persist

SpawnedStep(g) ==
    \/ PickSender(g) \/ SendBytes(g)
    \/ RallyReset(g) \/ Unpause(g)
    \/ ForfeitCheck(g) \/ Cancel(g)

\* What a handler does once it has begun.
HandlerStep(c) ==
    \/ DisconnectDetach(c) \/ CloseSend(c)
    \/ ReconnectAttach(c) \/ ReconnectStore(c) \/ ReconnectSignal(c)

\* What the clients and the network decide.
ClientStep(c) == DisconnectLoad(c) \/ ReconnectLoad(c)

Next ==
    \/ LoopStep
    \/ \E g \in Gs : SpawnedStep(g)
    \/ \E c \in Conns : HandlerStep(c) \/ ClientStep(c)

Spec == Init /\ [][Next]_vars

\* Goroutines run on; a sleep and a timer end; select, which chooses at random
\* among what is ready, does not pass over the cancelled context forever.
Fairness ==
    /\ WF_vars(LoopStep)
    /\ SF_vars(LoopCancelled)
    /\ \A g \in Gs : WF_vars(SpawnedStep(g))
    /\ \A c \in Conns : WF_vars(HandlerStep(c))

FairSpec == Spec /\ Fairness

-----------------------------------------------------------------------------
(* Properties *)

Notices == {"match.countdown", "match.started", "match.snapshot", "match.score",
            "match.rally_reset", "match.reconnected", "player.disconnected",
            "player.reconnected"}

Message == [to : Slots, kind : Notices, winner : {None}]
           \cup [to : Slots, kind : {"match.ended"}, winner : Slots]

LoopStates == {"countdown", "select", "schedule", "pauseRally", "matchEnded",
               "onEnd", "unindex", "persist", "done"}
SpawnedStates == {"free", "rally", "unpause", "timer", "cancel"}
HandlerStates == {"open", "disconnecting", "detached", "closed", "reconnecting",
                  "attached", "signalling"}

TypeOK ==
    /\ phase \in {"waiting", "active", "ended"}
    /\ score \in [Slots -> 0 .. PointsToWin]
    /\ out \in Slots \cup {None}
    /\ sender \in [Slots -> Conns \cup {None}]
    /\ connID \in [Slots -> Conns]
    /\ deadline \in [Slots -> BOOLEAN]
    /\ paused \in BOOLEAN
    /\ ctxDone \in BOOLEAN
    /\ reconnectCh \in Seq(Slots)
    /\ registered \in BOOLEAN
    /\ indexed \in [Conns -> BOOLEAN]
    /\ pc \in [Threads -> LoopStates \cup SpawnedStates]
    /\ slot \in [Threads -> Slots]
    /\ todo \in [Threads -> Seq(Message)]
    /\ held \in [Threads -> Conns \cup {None}]
    /\ at \in [Conns -> HandlerStates]
    /\ found \in [Conns -> Slots]
    /\ oldConn \in [Conns -> Conns \cup {None}]
    /\ reconnects \in 0 .. MaxReconnects
    /\ announced \in SUBSET Slots
    /\ verdicts \in [Conns -> SUBSET Slots]
    /\ result \in {None} \cup [Slots -> {"win", "loss", "forfeit"}]
    /\ crashed \in BOOLEAN

\* The match is over by score exactly when a player has PointsToWin points,
\* only one ever gets there, and the loop that saw it plays no further tick,
\* whatever pauses, resets and reconnects overlap.
ScoreDecides ==
    /\ phase = "ended" <=> \E s \in Slots : score[s] = PointsToWin
    /\ ~(\A s \in Slots : score[s] = PointsToWin)
    /\ phase = "ended" => pc["loop"] \in {"matchEnded", "onEnd", "unindex",
                                          "persist", "done"}

\* A forfeit is not declared against a player who is there: between the
\* timer's check and the end of its broadcast nobody re-attaches to the slot
\* (the check and what follows hold no common lock), and whoever has been
\* announced without the points has an opponent who is gone.  This is so when
\* every slot is Unmixed, because then no session fits an empty slot.
NoForfeitOfAttached ==
    /\ \A g \in Gs : pc[g] = "cancel" => sender[slot[g]] = None
    /\ \A w \in announced : score[w] = PointsToWin \/ sender[Other(w)] = None

\* A paused loop does nothing, so somebody is left to wake it: while it is
\* paused a rally reset, a forfeit timer or the cancelled context is there,
\* whichever of them the one flag was set for, in a match whose slots are
\* Unmixed.
PausedHasWaker == paused => ctxDone \/ \E g \in Gs : pc[g] # "free"

\* While Manager knows the run, no step leaves a slot with the Sender and the
\* ConnID of a connection that has run its onClose: a disconnect during the
\* match reaches the run, whatever HandleReconnect of this player or, in a
\* mixed slot, of another one does to the slot and to the index meanwhile.
\* (One that ended before the match was stored is lost, and so is that of a
\* Sender whose identifier the slot never got.)
SlotOfGone(s) == /\ sender[s] = connID[s]
                 /\ at[connID[s]] \in {"detached", "closed"}

DisconnectsReachRun ==
    [][\A s \in Slots : registered' /\ SlotOfGone(s)' => SlotOfGone(s)]_vars

\* The verdict of a match stands: at most one winner is ever announced, and
\* match.ended is the last thing a player hears of the match; no message is on
\* its way to a connection that has been told the winner.
VerdictStands ==
    /\ \A v, w \in announced : v = w
    /\ \A t \in Threads : ~Sent(t) /\ held[t] # None => verdicts[held[t]] = {}

\* From the moment a disconnect is noticed no point is scored.
NoPlayWhileAway ==
    [][(\E s \in Slots : deadline[s]) => score' = score]_vars

\* A ball that has scored scores no second time.
OnePointPerRally == [][out # None => score' = score]_vars

\* The recorded results name the announced winner, if he was still connected
\* when they were taken and every slot is Unmixed.  (A winner by score who has
\* gone by then is recorded as having forfeited, though main.go says of this
\* case that "both result in a win for the same player".)
RecordAgrees ==
    result # None => \A w \in announced :
        sender[w] # None => /\ result[w] = "win"
                            /\ result[Other(w)] # "win"

\* A player who is away has the match decided and recorded, in the end: the
\* opponent is not left in a paused match.  Unmixed slots again: in a mixed one
\* the second guest may come back for the first.
AbandonedMatchRecorded ==
    \A s \in Slots : sender[s] = None ~> (result # None \/ crashed)

\* A run without reconnects keeps the contract of a match: points one at a time
\* until a player has won, one verdict that the points bear out or a forfeit
\* before anyone has won, and a record only after the verdict.
Contract == INSTANCE MatchContract WITH
                verdict <- IF announced = {} THEN None
                           ELSE CHOOSE w \in announced : TRUE,
                recorded <- result # None

ContractKept == Contract!Spec

-----------------------------------------------------------------------------
(* What the documents and comments say, and the code does not do. *)

\* m4 design: "Reconnect is identified by sessionToken + matchId".  The owner
\* of an empty slot who asks for the match gets the slot.
TokenReattaches ==
    [][\A c \in Conns :
          at[c] = "reconnecting" /\ at'[c] = "open" => sender[Owner[c]] # None]_vars

\* The game process survives its matches: conn.go calls onClose "before the
\* send channel is closed - use it to notify managers of disconnection".
NoSendOnClosed == ~crashed

=============================================================================
