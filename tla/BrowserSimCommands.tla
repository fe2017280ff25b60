-------------------------- MODULE BrowserSimCommands --------------------------
(***************************************************************************)
(* Lifecycle commands for an open simulator page: the service that accepts *)
(* them (src/server/browser-sim/BrowserSimService.js), the page's bridge   *)
(* that claims, executes and completes them                                *)
(* (src/app/simulation/BrowserSimBridge.js) and the HTTP requests between  *)
(* the two, each of which may be late, lost before or after it was served, *)
(* or given up by the page and served nevertheless.                        *)
(*                                                                         *)
(* Clocks are ages, which Tick advances.  A snapshot is the number of      *)
(* commands the page's simulation has taken; a report's sequence number is *)
(* taken in the turn its snapshot is, and both only grow, so the snapshot  *)
(* stands for the sequence too.  Which of the connected pages is the       *)
(* default, what the admission checks refuse and the client's request ids  *)
(* are left open.                                                          *)
(***************************************************************************)
EXTENDS Integers, FiniteSets, FiniteSetsExt, Functions

CONSTANTS
    Timeout,           \* BROWSER_SIM_TIMEOUT_MS
    Wait,              \* COMMAND_WAIT_MS
    Retention,         \* RETENTION_MS
    MaxBrowsers,       \* maxBrowsers
    MaxCommands,       \* maxCommands
    MaxRegistrations,  \* bound: browserIds handed out
    MaxSubmissions,    \* bound: commands accepted
    MaxTimeouts,       \* bound: requests given up or lost
    MaxRestarts,       \* bound: restarts of the server and reloads of the page
    FaultyCommands,    \* bound: commands among which those happen
    None

ASSUME BrowserSimAssumption ==
    /\ {Timeout, Wait, Retention, MaxBrowsers, MaxCommands} \subseteq Nat \ {0}
    /\ Timeout < Wait /\ Wait <= Retention
    /\ {MaxRegistrations, MaxSubmissions, MaxTimeouts, MaxRestarts, FaultyCommands} \subseteq Nat
    /\ None \notin Nat \cup {"succeeded", "failed", "uncoded"}

VARIABLES
    browsers,      \* browsers, by browserId
    commands,      \* commands, by commandId
    lastBrowser,   \* ghost: the last browserId handed out
    lastCommand,   \* ghost: the last commandId handed out
    registration,  \* BrowserSimBridge.registration
    syncing,       \* how far _sync is
    operations,    \* operations, by commandId
    lastClaim,     \* ghost: the last claimId made
    detached,      \* executions whose operation has been cleared
    snapshot,      \* the page's simulation
    flight,        \* the requests on their way
    replies,       \* the responses on their way
    timeouts,      \* requests given up or lost
    restarts,      \* restarts and reloads
    executions,    \* ghost: how often the page has begun a command
    outcomes,      \* ghost: the outcome of the commands it has finished
    acknowledged   \* ghost: the newest snapshot of an acknowledged completion

serverVars == <<browsers, commands, lastBrowser, lastCommand>>
pageVars == <<registration, syncing, operations, lastClaim, detached, snapshot>>
netVars == <<flight, replies, timeouts>>
ghostVars == <<executions, outcomes, acknowledged>>
vars == <<serverVars, pageVars, netVars, restarts, ghostVars>>

Command == 1..MaxSubmissions
Browser == 1..MaxRegistrations
Snapshot == 0..MaxSubmissions
\* An execution ends well, throws, or throws an error whose code is not a
\* string (a DOMException's is a number), which the Completion schema refuses.
Outcome == {"succeeded", "failed", "uncoded"}
Terminal == {"succeeded", "failed", "unknown"}

(* BrowserSimService: _expire *)

Connected(b, bs) == b \in DOMAIN bs /\ bs[b].age < Timeout

Holds(b, c, bs) == b \in DOMAIN bs /\ bs[b].command = c

\* Mutant: the page's silence ends nothing.
UnavailableM(x) == x.state = "accepted" /\ x.age >= Wait

\* _finishUnavailable, for the commands whose page is gone or that were not
\* claimed in time.
Unavailable(x) ==
    \/ x.state \notin Terminal /\ ~Connected(x.browser, browsers)
    \/ x.state = "accepted" /\ x.age >= Wait

Finished(x, state) == [x EXCEPT !.state = state, !.age = 0]

\* Mutant: a command under way counts as failed.
EndedM == [c \in DOMAIN commands |->
             IF Unavailable(commands[c]) THEN Finished(commands[c], "failed") ELSE commands[c]]

Ended ==
    [c \in DOMAIN commands |->
       LET x == commands[c] IN
       IF ~Unavailable(x) THEN x
       ELSE Finished(x, IF x.state = "running" THEN "unknown" ELSE "failed")]

\* Mutant: an unknown command is forgotten like any other.
ForgottenM(c) == Ended[c].state \in Terminal /\ Ended[c].age >= Retention

Forgotten(c) ==
    LET x == Ended[c] IN
    /\ x.state \in Terminal /\ x.age >= Retention
    /\ Holds(x.browser, c, browsers) => browsers[x.browser].age >= Retention

\* The registries as _expire leaves them.  A forgotten command and one it fails
\* free their page; one that becomes unknown does not.
LiveCommands == Restrict(Ended, {c \in DOMAIN commands : ~Forgotten(c)})
LiveBrowsers ==
    [b \in {b \in DOMAIN browsers : browsers[b].age < Retention} |->
       LET c == browsers[b].command IN
       IF c # None /\ (Forgotten(c) \/ (Unavailable(commands[c]) /\ Ended[c].state = "failed"))
         THEN [browsers[b] EXCEPT !.command = None] ELSE browsers[b]]

Expire == browsers' = LiveBrowsers /\ commands' = LiveCommands

Without(f, x) == Restrict(f, DOMAIN f \ {x})
With(f, x, y) == [z \in DOMAIN f \cup {x} |-> IF z = x THEN y ELSE f[z]]

\* Mutant: the last report counts, not the newest.
ReportedM(browser, s) == [browser EXCEPT !.snapshot = s]

\* _reportSnapshot: not an older one.
Reported(browser, s) == [browser EXCEPT !.snapshot = IF s > @ THEN s ELSE @]

(* Requests and responses *)

\* who: the waiter in the page, _sync or the _handle of a command; None when the
\* page has given the request up.
Bridge == 0
Request(who, kind, b, about) ==
    [who |-> who, kind |-> kind, browser |-> b, about |-> about]

\* The service answers m.
Answer(m, code, value) ==
    /\ flight' = flight \ {m}
    /\ replies' = IF m.who = None THEN replies
                  ELSE replies \cup {[who |-> m.who, code |-> code, value |-> value]}
    /\ UNCHANGED timeouts

(* BrowserSimService: what the bridge calls *)

\* register: a full registry gives up its first unresponsive page.
Register(m) ==
    LET full == Cardinality(DOMAIN LiveBrowsers) >= MaxBrowsers
        stale == {b \in DOMAIN LiveBrowsers : ~Connected(b, LiveBrowsers)}
        kept == IF full THEN Without(LiveBrowsers, Min(stale)) ELSE LiveBrowsers
    IN
    /\ m.kind = "register"
    /\ commands' = LiveCommands
    /\ IF full /\ stale = {}
         THEN /\ browsers' = LiveBrowsers
              /\ Answer(m, "CAPACITY", None)
              /\ UNCHANGED lastBrowser
         ELSE /\ lastBrowser < MaxRegistrations
              /\ lastBrowser' = lastBrowser + 1
              /\ browsers' = With(kept, lastBrowser', [age |-> 0, command |-> None, snapshot |-> m.about.snapshot])
              /\ Answer(m, "ok", lastBrowser')
    /\ UNCHANGED <<lastCommand, acknowledged>>

\* heartbeat: expires first, so a page that was silent too long has lost its
\* command by the time it is seen again.
Heartbeat(m) ==
    LET b == m.browser
        c == LiveBrowsers[b].command
    IN
    /\ m.kind = "heartbeat"
    /\ commands' = LiveCommands
    /\ IF b \notin DOMAIN LiveBrowsers
         THEN browsers' = LiveBrowsers /\ Answer(m, "BROWSER_NOT_REGISTERED", None)
         ELSE /\ browsers' = [LiveBrowsers EXCEPT ![b] = [Reported(@, m.about.snapshot) EXCEPT !.age = 0]]
              /\ Answer(m, "ok",
                   IF /\ c \in DOMAIN LiveCommands
                      /\ LiveCommands[c].state \in {"accepted", "running"} /\ LiveCommands[c].ready
                     THEN c ELSE None)
    /\ UNCHANGED <<lastBrowser, lastCommand, acknowledged>>

\* claim: authenticates before it expires.  The same claimId may claim again:
\* an operation keeps its own while it exists.
Claim(m) ==
    LET c == m.about.command
        open == /\ LiveCommands[c].ready
                /\ \/ LiveCommands[c].state = "accepted"
                   \/ LiveCommands[c].state = "running" /\ LiveCommands[c].claim = m.about.claim
    IN
    /\ m.kind = "claim"
    /\ IF m.browser \notin DOMAIN browsers
         THEN UNCHANGED <<browsers, commands>> /\ Answer(m, "BROWSER_NOT_REGISTERED", None)
         ELSE /\ browsers' = LiveBrowsers
              /\ IF c \in DOMAIN LiveCommands /\ open
                   THEN /\ commands' = [LiveCommands EXCEPT ![c] =
                              [@ EXCEPT !.state = "running", !.claim = m.about.claim, !.age = 0]]
                        /\ Answer(m, "ok", None)
                   ELSE commands' = LiveCommands /\ Answer(m, "COMMAND_NOT_PENDING", None)
    /\ UNCHANGED <<lastBrowser, lastCommand, acknowledged>>

\* complete: neither expires nor asks for the state "running", so it also ends
\* a command that has become unknown.
Complete(m) ==
    LET c == m.about.command
        b == m.browser
        done == [Finished(commands[c], m.about.outcome) EXCEPT !.ready = FALSE]
        seen == [Reported(browsers[b], m.about.snapshot) EXCEPT
                   !.age = 0, !.command = IF @ = c THEN None ELSE @]
    IN
    /\ m.kind = "complete"
    /\ \/ /\ m.about.outcome = "uncoded"
          /\ Answer(m, "INVALID_REQUEST", None)
          /\ UNCHANGED <<browsers, commands, acknowledged>>
       \/ /\ m.about.outcome # "uncoded"
          /\ b \notin DOMAIN browsers \/ c \notin DOMAIN commands
          /\ Answer(m, "GONE", None)
          /\ UNCHANGED <<browsers, commands, acknowledged>>
       \/ /\ m.about.outcome # "uncoded"
          /\ b \in DOMAIN browsers /\ c \in DOMAIN commands
          /\ IF commands[c].claim # m.about.claim
               THEN Answer(m, "WRONG_CLAIM", None) /\ UNCHANGED <<browsers, commands, acknowledged>>
               ELSE /\ Answer(m, "ok", None)
                    /\ IF commands[c].state \in {"succeeded", "failed"}
                         THEN UNCHANGED <<browsers, commands, acknowledged>>
                         ELSE /\ commands' = [commands EXCEPT ![c] = done]
                              /\ browsers' = [browsers EXCEPT ![b] = seen]
                              /\ acknowledged' = [acknowledged EXCEPT ![b] = Max({@, m.about.snapshot})]
    /\ UNCHANGED <<lastBrowser, lastCommand>>

\* unregister: what the page held ends as if it had fallen silent.
Unregister(m) ==
    LET b == m.browser IN
    /\ m.kind = "unregister"
    /\ IF b \notin DOMAIN browsers
         THEN UNCHANGED <<browsers, commands>>
         ELSE /\ browsers' = Without(LiveBrowsers, b)
              /\ commands' = [c \in DOMAIN LiveCommands |->
                   LET x == LiveCommands[c] IN
                   IF x.browser = b /\ x.state \notin Terminal
                     THEN Finished(x, IF x.state = "running" THEN "unknown" ELSE "failed") ELSE x]
    /\ Answer(m, "ok", None)
    /\ UNCHANGED <<lastBrowser, lastCommand, acknowledged>>

Serve(m) ==
    /\ Register(m) \/ Heartbeat(m) \/ Claim(m) \/ Complete(m) \/ Unregister(m)
    /\ UNCHANGED <<pageVars, restarts, executions, outcomes>>

(* BrowserSimService: the external controller's calls *)

\* list, status, get.
Poll ==
    /\ Expire
    /\ UNCHANGED <<lastBrowser, lastCommand, pageVars, netVars, restarts, ghostVars>>

\* submit: a full registry gives up the first receipt that is terminal and that
\* its page does not hold.  Only start and reset wait for the storage.
Submit(b, resolve) ==
    LET full == Cardinality(DOMAIN LiveCommands) >= MaxCommands
        old == {c \in DOMAIN LiveCommands :
                  LiveCommands[c].state \in Terminal /\ ~Holds(LiveCommands[c].browser, c, LiveBrowsers)}
        kept == IF full THEN Without(LiveCommands, Min(old)) ELSE LiveCommands
        c == lastCommand + 1
    IN
    /\ c \in Command /\ (c <= FaultyCommands \/ timeouts + restarts = 0)
    /\ Connected(b, LiveBrowsers) /\ LiveBrowsers[b].command = None
    /\ full => old # {}
    /\ lastCommand' = c
    /\ commands' = With(kept, c, [browser |-> b, state |-> "accepted", ready |-> ~resolve,
                                  claim |-> None, age |-> 0])
    /\ browsers' = [LiveBrowsers EXCEPT ![b].command = c]
    /\ UNCHANGED <<lastBrowser, pageVars, netVars, restarts, ghostVars>>

Preparing(c) == c \in DOMAIN commands /\ commands[c].state = "accepted" /\ ~commands[c].ready

\* _prepare goes on: the manifest has been resolved, or not.
Prepared(c) ==
    /\ Preparing(c)
    /\ browsers' = LiveBrowsers
    /\ commands' = IF Ended[c].state = "accepted"
                     THEN [LiveCommands EXCEPT ![c].ready = TRUE] ELSE LiveCommands
    /\ UNCHANGED <<lastBrowser, lastCommand, pageVars, netVars, restarts, ghostVars>>

PrepareFails(c) ==
    LET b == commands[c].browser IN
    /\ Preparing(c)
    /\ commands' = [commands EXCEPT ![c] = Finished(@, "failed")]
    /\ browsers' = IF Holds(b, c, browsers) THEN [browsers EXCEPT ![b].command = None] ELSE browsers
    /\ UNCHANGED <<lastBrowser, lastCommand, pageVars, netVars, restarts, ghostVars>>

(* BrowserSimBridge: requests *)

Send(m) == flight' = flight \cup {m} /\ UNCHANGED <<replies, timeouts>>

\* The page goes on with the response r and sends the requests in ms; the
\* requests of the operations it has cleared go on with nobody waiting.
Receive(r, ms) ==
    LET gone == DOMAIN operations \ DOMAIN operations' IN
    /\ flight' = {[m EXCEPT !.who = IF @ \in gone THEN None ELSE @] : m \in flight} \cup ms
    /\ replies' = {q \in replies : q.who \notin gone} \ {r}
    /\ UNCHANGED timeouts

HeartbeatRequest(b) == Request(Bridge, "heartbeat", b, [snapshot |-> snapshot])
ClaimRequest(c, claim) ==
    Request(c, "claim", registration, [command |-> c, claim |-> claim])
CompleteRequest(who, c, op) ==
    Request(who, "complete", registration,
            [command |-> c, claim |-> op.claim, snapshot |-> op.snapshot, outcome |-> op.outcome])

(* BrowserSimBridge: _sync *)

Resting == [stage |-> "idle", target |-> None, offered |-> None, completed |-> {}]

\* Some trigger of sync: the timer, an event, a change, the end of a command.
Sync ==
    /\ syncing = Resting
    /\ IF registration = None
         THEN /\ syncing' = [Resting EXCEPT !.stage = "register"]
              /\ Send(Request(Bridge, "register", None, [snapshot |-> snapshot]))
         ELSE /\ syncing' = [Resting EXCEPT !.stage = "heartbeat"]
              /\ Send(HeartbeatRequest(registration))
    /\ UNCHANGED <<serverVars, registration, operations, lastClaim, detached, snapshot, restarts, ghostVars>>

Registered(r) ==
    /\ syncing.stage = "register" /\ r.who = Bridge
    /\ UNCHANGED operations
    /\ IF r.code = "ok"
         THEN /\ registration' = r.value
              /\ syncing' = [Resting EXCEPT !.stage = "heartbeat"]
              /\ Receive(r, {HeartbeatRequest(r.value)})
         ELSE syncing' = Resting /\ Receive(r, {}) /\ UNCHANGED registration
    /\ UNCHANGED <<serverVars, lastClaim, detached, snapshot, restarts, ghostVars>>

Working(op) == op.stage # "idle"

\* Mutant: a command that is being worked on is taken up again.
HandleM(r, c, ops) ==
    LET op == IF c \in DOMAIN ops THEN ops[c]
              ELSE [claim |-> lastClaim + 1, stage |-> "idle", snapshot |-> 0, outcome |-> None]
    IN
    /\ syncing' = Resting
    /\ IF c = None
         THEN operations' = ops /\ Receive(r, {}) /\ UNCHANGED lastClaim
         ELSE /\ operations' = With(ops, c, [op EXCEPT !.stage = "claiming"])
              /\ lastClaim' = IF c \in DOMAIN ops THEN lastClaim ELSE lastClaim + 1
              /\ Receive(r, {ClaimRequest(c, op.claim)})

\* _handle, up to its first await: one operation per command, whose claimId
\* serves every claim.
Handle(r, c, ops) ==
    /\ syncing' = Resting
    /\ IF c = None \/ (c \in DOMAIN ops /\ (Working(ops[c]) \/ ops[c].outcome # None))
         THEN operations' = ops /\ Receive(r, {}) /\ UNCHANGED lastClaim
         ELSE LET op == IF c \in DOMAIN ops THEN ops[c]
                        ELSE [claim |-> lastClaim + 1, stage |-> "idle", snapshot |-> 0, outcome |-> None]
              IN
              /\ operations' = With(ops, c, [op EXCEPT !.stage = "claiming"])
              /\ lastClaim' = IF c \in DOMAIN ops THEN lastClaim ELSE lastClaim + 1
              /\ Receive(r, {ClaimRequest(c, op.claim)})

\* _sync goes on to the next completion the service has not acknowledged and,
\* when there is none, to the command the heartbeat was answered with.
GoOn(r, ops, done, offered) ==
    LET todo == {c \in DOMAIN ops : ops[c].outcome # None} \ done IN
    IF todo = {} THEN Handle(r, IF offered \in done THEN None ELSE offered, ops)
    ELSE /\ syncing' = [stage |-> "complete", target |-> Min(todo), offered |-> offered, completed |-> done]
         /\ operations' = ops
         /\ Receive(r, {CompleteRequest(Bridge, Min(todo), ops[Min(todo)])})
         /\ UNCHANGED lastClaim

\* A service that does not know the page starts it afresh: what it was doing
\* goes on, but is reported to nobody.
HeartbeatAnswered(r) ==
    /\ syncing.stage = "heartbeat" /\ r.who = Bridge
    /\ IF r.code = "ok"
         THEN GoOn(r, operations, {}, r.value) /\ UNCHANGED <<registration, detached>>
         ELSE /\ registration' = None
              /\ detached' = detached \cup {c \in DOMAIN operations : operations[c].stage = "executing"}
              /\ operations' = <<>>
              /\ syncing' = Resting
              /\ Receive(r, {})
              /\ UNCHANGED lastClaim
    /\ UNCHANGED <<serverVars, snapshot, restarts, ghostVars>>

\* _complete, on behalf of _sync.  An error other than a missing command or page
\* ends _sync, and the offered command waits for the next.
CompletionAnswered(r) ==
    LET c == syncing.target IN
    /\ syncing.stage = "complete" /\ r.who = Bridge
    /\ IF r.code \in {"ok", "GONE"}
         THEN GoOn(r, Without(operations, c), syncing.completed \cup {c}, syncing.offered)
         ELSE syncing' = Resting /\ UNCHANGED <<operations, lastClaim>> /\ Receive(r, {})
    /\ UNCHANGED <<serverVars, registration, detached, snapshot, restarts, ghostVars>>

(* BrowserSimBridge: _handle, execute *)

ClaimAnswered(c, r) ==
    /\ c \in DOMAIN operations /\ operations[c].stage = "claiming" /\ r.who = c
    /\ IF r.code = "ok"
         THEN /\ operations' = [operations EXCEPT ![c].stage = "executing"]
              /\ executions' = [executions EXCEPT ![c] = @ + 1]
         ELSE operations' = Without(operations, c) /\ UNCHANGED executions
    /\ Receive(r, {})
    /\ UNCHANGED <<serverVars, registration, syncing, lastClaim, detached, snapshot, restarts,
                   outcomes, acknowledged>>

Executed(c, outcome) ==
    LET op == [operations[c] EXCEPT !.stage = "completing", !.snapshot = snapshot + 1, !.outcome = outcome] IN
    /\ c \in DOMAIN operations /\ operations[c].stage = "executing"
    /\ snapshot' = snapshot + 1
    /\ outcomes' = [outcomes EXCEPT ![c] = outcome]
    /\ operations' = [operations EXCEPT ![c] = op]
    /\ Send(CompleteRequest(c, c, op))
    /\ UNCHANGED <<serverVars, registration, syncing, lastClaim, detached, restarts, executions, acknowledged>>

DetachedExecuted(c) ==
    /\ c \in detached
    /\ detached' = detached \ {c}
    /\ snapshot' = snapshot + 1
    /\ UNCHANGED <<serverVars, registration, syncing, operations, lastClaim, netVars, restarts, ghostVars>>

\* What the service has not acknowledged is kept for _sync.
Acknowledged(c, r) ==
    /\ c \in DOMAIN operations /\ operations[c].stage = "completing" /\ r.who = c
    /\ operations' = IF r.code \in {"ok", "GONE"} THEN Without(operations, c)
                     ELSE [operations EXCEPT ![c].stage = "idle"]
    /\ Receive(r, {})
    /\ UNCHANGED <<serverVars, registration, syncing, lastClaim, detached, snapshot, restarts, ghostVars>>

(* The network, the server and the page *)

\* The page stops waiting for a response: the request is lost, or its response
\* is, or it is served later.
GiveUp(w) ==
    /\ \/ \E m \in flight :
            /\ m.who = w
            /\ flight' \in {flight \ {m}, (flight \ {m}) \cup {[m EXCEPT !.who = None]}}
            /\ replies' = replies
       \/ \E r \in replies :
            r.who = w /\ replies' = replies \ {r} /\ flight' = flight
    /\ timeouts < MaxTimeouts /\ lastCommand <= FaultyCommands
    /\ timeouts' = timeouts + 1
    /\ IF w = Bridge THEN syncing' = Resting /\ UNCHANGED operations
       ELSE operations' = [operations EXCEPT ![w].stage = "idle"] /\ UNCHANGED syncing
    /\ UNCHANGED <<serverVars, registration, lastClaim, detached, snapshot, restarts, ghostVars>>

RestartServer ==
    /\ restarts < MaxRestarts /\ lastCommand <= FaultyCommands
    /\ restarts' = restarts + 1
    /\ browsers' = <<>> /\ commands' = <<>>
    /\ UNCHANGED <<lastBrowser, lastCommand, pageVars, netVars, ghostVars>>

\* The page is loaded again; the one that goes may still say so.
ReloadPage(farewell) ==
    /\ restarts < MaxRestarts /\ lastCommand <= FaultyCommands
    /\ restarts' = restarts + 1
    /\ registration' = None /\ syncing' = Resting
    /\ operations' = <<>> /\ detached' = {}
    /\ replies' = {}
    /\ flight' = {[m EXCEPT !.who = None] : m \in flight}
                   \cup IF farewell /\ registration # None
                        THEN {Request(None, "unregister", registration, <<>>)} ELSE {}
    /\ UNCHANGED <<serverVars, lastClaim, snapshot, timeouts, ghostVars>>

\* The age of a running command is never asked for.
Older(x) == [x EXCEPT !.age = IF @ < Retention THEN @ + 1 ELSE @]
Tick ==
    /\ browsers' = [b \in DOMAIN browsers |-> Older(browsers[b])]
    /\ commands' = [c \in DOMAIN commands |->
         IF commands[c].state = "running" THEN commands[c] ELSE Older(commands[c])]
    /\ UNCHANGED <<lastBrowser, lastCommand, pageVars, netVars, restarts, ghostVars>>

Init ==
    /\ browsers = <<>> /\ commands = <<>> /\ lastBrowser = 0 /\ lastCommand = 0
    /\ registration = None /\ syncing = Resting
    /\ operations = <<>> /\ lastClaim = 0 /\ detached = {}
    /\ snapshot = 0
    /\ flight = {} /\ replies = {} /\ timeouts = 0 /\ restarts = 0
    /\ executions = [c \in Command |-> 0]
    /\ outcomes = [c \in Command |-> None]
    /\ acknowledged = [b \in Browser |-> 0]

SyncAnswered == \E r \in replies : Registered(r) \/ HeartbeatAnswered(r) \/ CompletionAnswered(r)
HandleAnswered(c) == \E r \in replies : ClaimAnswered(c, r) \/ Acknowledged(c, r)
Finish(c) == (\E outcome \in Outcome : Executed(c, outcome)) \/ DetachedExecuted(c)

Next ==
    \/ \E m \in flight : Serve(m)
    \/ Poll
    \/ \E b \in Browser, resolve \in BOOLEAN : Submit(b, resolve)
    \/ \E c \in Command : Prepared(c) \/ PrepareFails(c)
    \/ Sync \/ SyncAnswered
    \/ \E c \in Command : HandleAnswered(c) \/ Finish(c)
    \/ \E w \in {Bridge} \cup Command : GiveUp(w)
    \/ RestartServer
    \/ \E farewell \in BOOLEAN : ReloadPage(farewell)
    \/ Tick

Spec == Init /\ [][Next]_vars

\* The page's timer and its promises go on, what is sent arrives unless the
\* page gives it up, time passes, the storage answers and some controller asks
\* for the status now and then.  Nobody has to submit, reload or restart.
Fairness ==
    /\ WF_vars(Sync) /\ WF_vars(SyncAnswered) /\ WF_vars(Tick) /\ WF_vars(Poll)
    /\ \A w \in {Bridge} \cup Command : WF_vars(\E m \in flight : m.who = w /\ Serve(m))
    /\ \A c \in Command :
         WF_vars(HandleAnswered(c)) /\ WF_vars(Finish(c)) /\ WF_vars(Prepared(c) \/ PrepareFails(c))

FairSpec == Spec /\ Fairness

-----------------------------------------------------------------------------

State == {"accepted", "running"} \cup Terminal

TypeOK ==
    /\ DOMAIN browsers \subseteq Browser /\ Cardinality(DOMAIN browsers) <= MaxBrowsers
    /\ \A b \in DOMAIN browsers :
         browsers[b] \in [age: 0..Retention, command: Command \cup {None}, snapshot: Snapshot]
    /\ DOMAIN commands \subseteq Command /\ Cardinality(DOMAIN commands) <= MaxCommands
    /\ \A c \in DOMAIN commands :
         commands[c] \in [browser: Browser, state: State, ready: BOOLEAN,
                          claim: 1..lastClaim \cup {None}, age: 0..Retention]
    /\ lastBrowser \in 0..MaxRegistrations /\ lastCommand \in 0..MaxSubmissions
    /\ registration \in Browser \cup {None}
    /\ syncing \in [stage: {"idle", "register", "heartbeat", "complete"}, target: Command \cup {None},
                     offered: Command \cup {None}, completed: SUBSET Command]
    /\ DOMAIN operations \subseteq Command
    /\ \A c \in DOMAIN operations :
         operations[c] \in [claim: 1..lastClaim, stage: {"idle", "claiming", "executing", "completing"},
                            snapshot: Snapshot, outcome: Outcome \cup {None}]
    /\ lastClaim \in Nat
    /\ detached \subseteq Command /\ snapshot \in Snapshot
    /\ \A w \in {Bridge} \cup Command :
         Cardinality({m \in flight : m.who = w} \cup {r \in replies : r.who = w}) <= 1
    /\ timeouts \in 0..MaxTimeouts /\ restarts \in 0..MaxRestarts

\* A receipt says what happened.  No page executes a command twice, however its
\* heartbeats, claims and completions are delayed, lost or repeated
\* (BrowserSimService.js:201, BrowserSimBridge.js:111); a command that is still
\* accepted, or that has failed without an outcome of the page's, has not been
\* executed and is not offered again; and the outcome of one that has succeeded
\* or failed otherwise is the page's.
ReceiptsAreTrue ==
    /\ \A c \in Command : executions[c] <= 1
    /\ \A c \in DOMAIN commands :
         /\ commands[c].state = "accepted" => executions[c] = 0
         /\ commands[c].state = "succeeded" => outcomes[c] = "succeeded"
         /\ commands[c].state = "failed" => executions[c] = 0 \/ outcomes[c] = "failed"

\* The status of a page is not older than the last completion it has
\* acknowledged, although a heartbeat sent before may be served after
\* (BrowserSimService.js:289-295).
StatusIsNotOlder == \A b \in DOMAIN browsers : browsers[b].snapshot >= acknowledged[b]

\* docs/browser-sim-api.md:99 "unresolved commands are not evicted while their
\* page remains connected": until the server restarts, no step of anyone's takes
\* away the receipt of a command whose page is there and may still claim it or
\* report on it.
UnresolvedAreKept ==
    [][\A c \in DOMAIN commands :
         /\ \/ commands[c].state \in {"running", "unknown"}
            \/ commands[c].state = "accepted" /\ commands[c].age < Wait
         /\ Connected(commands[c].browser, browsers)
         /\ restarts' = restarts
         => c \in DOMAIN commands']_vars

\* A command does not stay accepted or running for ever: the page reports its
\* outcome or its silence, or the time it was not claimed in, ends it.  Except
\* when the outcome cannot be reported: then the command stays running, and its
\* page executes nothing else, as long as the page is there.
CommandsSettle ==
    \A c \in Command :
      (c \in DOMAIN commands /\ commands[c].state \notin Terminal)
        ~> (c \in DOMAIN commands => commands[c].state \in Terminal) \/ outcomes[c] = "uncoded"
=============================================================================
