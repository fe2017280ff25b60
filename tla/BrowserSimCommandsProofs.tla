----------------------- MODULE BrowserSimCommandsProofs -----------------------
(***************************************************************************)
(* Proofs about lifecycle commands for an open page, whatever the times,   *)
(* the sizes of the registries and the number of pages, commands, lost     *)
(* requests and restarts.                                                  *)
(***************************************************************************)
EXTENDS BrowserSimCommands, FiniteSetFacts

(* The inductive invariant *)

Unresolved == {"accepted", "running", "unknown"}

\* An operation that has not begun to execute its command, and may claim it.
NotBegun(op) == op.stage = "claiming" \/ (op.stage = "idle" /\ op.outcome = None)

GoodBrowsers(bs) ==
    /\ DOMAIN bs \subseteq 1..lastBrowser /\ Cardinality(DOMAIN bs) <= MaxBrowsers
    /\ \A b \in DOMAIN bs :
         bs[b] \in [age: 0..Retention, command: Command \cup {None}, snapshot: 0..snapshot]

GoodCommands(cs) ==
    /\ DOMAIN cs \subseteq 1..lastCommand /\ Cardinality(DOMAIN cs) <= MaxCommands
    /\ \A c \in DOMAIN cs :
         cs[c] \in [browser: 1..lastBrowser, state: State, ready: BOOLEAN,
                    claim: 1..lastClaim \cup {None}, age: 0..Retention]

\* A page that is there holds the commands whose fate is open.
Held(bs, cs) ==
    \A c \in DOMAIN cs :
       cs[c].state \in Unresolved /\ cs[c].browser \in DOMAIN bs => bs[cs[c].browser].command = c

Counters ==
    /\ lastBrowser \in 0..MaxRegistrations /\ lastCommand \in 0..MaxSubmissions
    /\ lastClaim \in Nat /\ snapshot \in Snapshot
    /\ timeouts \in 0..MaxTimeouts /\ restarts \in 0..MaxRestarts

Server == GoodBrowsers(browsers) /\ GoodCommands(commands) /\ Held(browsers, commands)

\* What the ghosts say of a command: it is executed at most once, and has an
\* outcome only when it has been.
Ghosts ==
    /\ executions \in [Command -> {0, 1}]
    /\ outcomes \in [Command -> Outcome \cup {None}]
    /\ \A c \in Command : (executions[c] = 0 => outcomes[c] = None)
                       /\ (c > lastCommand => executions[c] = 0)

Receipts(cs) ==
    \A c \in DOMAIN cs :
       /\ cs[c].state = "accepted" => executions[c] = 0
       /\ cs[c].state = "succeeded" => outcomes[c] = "succeeded"
       /\ cs[c].state = "failed" => executions[c] = 0 \/ outcomes[c] = "failed"

\* An operation that may still claim its command has not executed it, and the
\* service knows no claim of its on a command that has been executed.
Operations ==
    /\ DOMAIN operations \subseteq 1..lastCommand
    /\ \A c \in DOMAIN operations :
         /\ operations[c] \in [claim: 1..lastClaim, stage: {"idle", "claiming", "executing", "completing"},
                               snapshot: 0..snapshot, outcome: Outcome \cup {None}]
         /\ operations[c].stage \in {"claiming", "executing"} => operations[c].outcome = None
         /\ operations[c].stage = "completing" => operations[c].outcome # None
         /\ operations[c].outcome # None => operations[c].outcome = outcomes[c]
         /\ operations[c].stage = "executing" => executions[c] = 1 /\ outcomes[c] = None

ClaimsAreFresh(cs) ==
    \A c \in DOMAIN operations \cap DOMAIN cs :
       NotBegun(operations[c]) /\ cs[c].claim = operations[c].claim => executions[c] = 0

\* A claim that was granted and has not been heard of yet.
GrantsAreGood(cs) ==
    \A r \in replies :
       r.who \in DOMAIN operations /\ operations[r.who].stage = "claiming" /\ r.code = "ok" =>
          /\ executions[r.who] = 0
          /\ r.who \in DOMAIN cs => cs[r.who].state \in {"running", "unknown"}

Syncing ==
    /\ registration \in Browser \cup {None}
    /\ syncing \in [stage: {"idle", "register", "heartbeat", "complete"}, target: Command \cup {None},
                    offered: 1..lastCommand \cup {None}, completed: SUBSET Command]
    /\ syncing.stage = "complete" => syncing.target \in Command

\* The executions of operations that were cleared.
Detached ==
    /\ detached \subseteq Command
    /\ \A c \in detached : executions[c] = 1 /\ (c \in DOMAIN operations => operations[c].stage # "executing")

\* Each waiter waits for one request or response.
OneAtATime ==
    /\ \A m \in flight : m.who \in {None, Bridge} \cup Command /\ m = Request(m.who, m.kind, m.browser, m.about)
    /\ \A r \in replies : r.who \in {Bridge} \cup Command
    /\ \A m, n \in flight : m.who = n.who /\ m.who # None => m = n
    /\ \A r, q \in replies : r.who = q.who => r = q
    /\ \A m \in flight, r \in replies : m.who # r.who

\* Who waits is at the stage of the request it waits for.
WaitersWait ==
    /\ \A m \in flight :
         /\ m.who = Bridge => m.kind = syncing.stage
         /\ m.who \in Command =>
              /\ m.who \in DOMAIN operations
              /\ \/ /\ operations[m.who].stage = "claiming" /\ m.kind = "claim"
                    /\ m.about.command = m.who /\ m.about.claim = operations[m.who].claim
                 \/ operations[m.who].stage = "completing" /\ m.kind = "complete"
    /\ \A r \in replies :
         /\ r.who = Bridge => syncing.stage # "idle"
         /\ r.who \in Command =>
              r.who \in DOMAIN operations /\ operations[r.who].stage \in {"claiming", "completing"}

Requests ==
    \A m \in flight :
       /\ m.kind \in {"register", "heartbeat", "claim", "complete", "unregister"}
       /\ m.kind \in {"register", "heartbeat", "complete"} => m.about.snapshot \in 0..snapshot
       /\ m.kind \in {"claim", "complete"} =>
            m.about.command \in 1..lastCommand /\ m.about.claim \in 1..lastClaim
       /\ m.kind = "complete" =>
            m.about.outcome \in Outcome /\ m.about.outcome = outcomes[m.about.command]

\* The values the service answers _sync with.
Values ==
    \A r \in replies :
       r.who = Bridge /\ r.code = "ok" =>
          /\ syncing.stage = "register" => r.value \in Browser
          /\ syncing.stage = "heartbeat" => r.value \in 1..lastCommand \cup {None}

Acknowledgements ==
    /\ acknowledged \in [Browser -> 0..snapshot]
    /\ \A b \in Browser : b > lastBrowser => acknowledged[b] = 0

\* The simulation takes one command per execution.
Begun == {c \in Command : executions[c] = 1}
Underway == {c \in DOMAIN operations : operations[c].stage = "executing"} \cup detached
Taken == snapshot + Cardinality(Underway) <= Cardinality(Begun)

Inductive ==
    /\ Counters /\ Server /\ Ghosts /\ Receipts(commands)
    /\ Operations /\ ClaimsAreFresh(commands) /\ GrantsAreGood(commands)
    /\ Syncing /\ Detached /\ OneAtATime /\ WaitersWait /\ Requests /\ Values
    /\ Acknowledgements /\ StatusIsNotOlder /\ Taken

(* Constants *)

LEMMA ConstantFacts ==
    /\ Timeout \in Nat \ {0} /\ Wait \in Nat \ {0} /\ Retention \in Nat \ {0}
    /\ Timeout < Wait /\ Wait <= Retention
    /\ MaxBrowsers \in Nat \ {0} /\ MaxCommands \in Nat \ {0}
    /\ MaxRegistrations \in Nat /\ MaxSubmissions \in Nat /\ MaxTimeouts \in Nat /\ MaxRestarts \in Nat
    /\ None \notin Nat /\ None \notin Outcome /\ None \notin Browser /\ None \notin Command /\ None # Bridge
    /\ Bridge \notin Command /\ Command \subseteq Nat /\ Browser \subseteq Nat
<1>1. /\ Timeout \in Nat \ {0} /\ Wait \in Nat \ {0} /\ Retention \in Nat \ {0}
      /\ Timeout < Wait /\ Wait <= Retention
      /\ MaxBrowsers \in Nat \ {0} /\ MaxCommands \in Nat \ {0}
      /\ MaxRegistrations \in Nat /\ MaxSubmissions \in Nat /\ MaxTimeouts \in Nat /\ MaxRestarts \in Nat
      /\ None \notin Nat
  BY BrowserSimAssumption
<1>2. None \notin Outcome
  BY BrowserSimAssumption DEF Outcome
<1>3. Command \subseteq Nat /\ Browser \subseteq Nat /\ Bridge \notin Command /\ Bridge \in Nat
  BY <1>1 DEF Command, Browser, Bridge
<1> QED
  BY <1>1, <1>2, <1>3

(* What the service does with the receipts *)

\* One receipt after a step: as it was, failed without having been claimed,
\* claimed, given up, or ended by the page's report.
Step(c, x, y) ==
    \/ y.state = x.state /\ y.claim = x.claim
    \/ x.state = "accepted" /\ y.state \in {"failed", "running"}
    \/ x.state = "running" /\ y.state = "unknown" /\ y.claim = x.claim
    \/ y.state \in {"succeeded", "failed"} /\ y.state = outcomes[c] /\ y.claim = x.claim

Evolves(cs) ==
    \A c \in DOMAIN cs :
       \/ c \in DOMAIN commands /\ Step(c, commands[c], cs[c])
       \/ c \in Command /\ c = lastCommand + 1 /\ cs[c].state = "accepted"

\* What the receipts promise survives such steps.
LEMMA Evolved ==
    ASSUME Inductive, NEW cs, Evolves(cs)
    PROVE  Receipts(cs) /\ ClaimsAreFresh(cs) /\ GrantsAreGood(cs)
<1> USE DEF Inductive
<1>1. ASSUME NEW c \in DOMAIN cs
      PROVE  \/ c \in DOMAIN commands /\ c \in Command /\ Step(c, commands[c], cs[c])
             \/ /\ c \in Command /\ c = lastCommand + 1 /\ cs[c].state = "accepted"
                /\ executions[c] = 0 /\ c \notin DOMAIN operations
  <2>1. lastCommand \in Nat /\ 1..lastCommand \subseteq Command
    BY ConstantFacts DEF Counters, Command
  <2> QED
    BY <1>1, <2>1 DEF Evolves, Ghosts, Operations, Server, GoodCommands
<1>2. \A c \in Command : executions[c] = 0 => outcomes[c] = None
  BY DEF Ghosts
<1>3. Receipts(cs)
  <2> SUFFICES ASSUME NEW c \in DOMAIN cs
               PROVE  /\ cs[c].state = "accepted" => executions[c] = 0
                      /\ cs[c].state = "succeeded" => outcomes[c] = "succeeded"
                      /\ cs[c].state = "failed" => executions[c] = 0 \/ outcomes[c] = "failed"
    BY DEF Receipts
  <2> QED
    BY <1>1 DEF Receipts, Step
<1>4. ClaimsAreFresh(cs)
  <2> SUFFICES ASSUME NEW c \in DOMAIN cs, c \in DOMAIN operations, NotBegun(operations[c]),
                      cs[c].claim = operations[c].claim
               PROVE  executions[c] = 0
    BY DEF ClaimsAreFresh
  <2>1. c \in DOMAIN commands /\ Step(c, commands[c], cs[c])
    BY <1>1
  <2>2. commands[c].state = "accepted" => executions[c] = 0
    BY <2>1 DEF Receipts
  <2> QED
    BY <2>1, <2>2 DEF ClaimsAreFresh, Step
<1>5. GrantsAreGood(cs)
  <2> SUFFICES ASSUME NEW r \in replies, r.who \in DOMAIN operations,
                      operations[r.who].stage = "claiming", r.code = "ok"
               PROVE  /\ executions[r.who] = 0
                      /\ r.who \in DOMAIN cs => cs[r.who].state \in {"running", "unknown"}
    BY DEF GrantsAreGood
  <2>1. /\ executions[r.who] = 0
        /\ r.who \in DOMAIN commands => commands[r.who].state \in {"running", "unknown"}
    BY DEF GrantsAreGood
  <2>2. ASSUME r.who \in DOMAIN cs
        PROVE  cs[r.who].state \in {"running", "unknown"}
    <3>1. /\ r.who \in DOMAIN commands /\ r.who \in Command
          /\ Step(r.who, commands[r.who], cs[r.who])
      BY <1>1, <2>2
    <3>2. outcomes[r.who] = None
      BY <1>2, <2>1, <3>1
    <3>3. None \notin {"succeeded", "failed"}
      BY ConstantFacts DEF Outcome
    <3> QED
      BY <2>1, <3>1, <3>2, <3>3 DEF Step
  <2> QED
    BY <2>1, <2>2
<1> QED
  BY <1>3, <1>4, <1>5

\* _expire ends what is unavailable, forgets what is over, and takes a command
\* that it has failed or forgotten from its page.
LEMMA Expired ==
    ASSUME Inductive
    PROVE  /\ GoodBrowsers(LiveBrowsers) /\ GoodCommands(LiveCommands)
           /\ Held(LiveBrowsers, LiveCommands)
           /\ \A c \in DOMAIN LiveCommands :
                /\ c \in DOMAIN commands /\ Step(c, commands[c], LiveCommands[c])
                /\ LiveCommands[c].state = "accepted" => commands[c].state = "accepted"
                /\ LiveCommands[c].state = "running" =>
                     commands[c].state = "running" /\ LiveCommands[c].claim = commands[c].claim
           /\ \A b \in DOMAIN LiveBrowsers :
                b \in DOMAIN browsers /\ LiveBrowsers[b].snapshot = browsers[b].snapshot
<1> USE DEF Inductive
<1>0. /\ GoodBrowsers(browsers) /\ GoodCommands(commands) /\ Held(browsers, commands)
  BY DEF Server
<1>1. DOMAIN Ended = DOMAIN commands
  BY DEF Ended
<1>2. ASSUME NEW c \in DOMAIN commands
      PROVE  /\ Ended[c] \in [browser: 1..lastBrowser, state: State, ready: BOOLEAN,
                              claim: 1..lastClaim \cup {None}, age: 0..Retention]
             /\ Ended[c].claim = commands[c].claim /\ Ended[c].browser = commands[c].browser
             /\ \/ Ended[c].state = commands[c].state
                \/ /\ Unavailable(commands[c]) /\ commands[c].state = "running" /\ Ended[c].state = "unknown"
                \/ /\ Unavailable(commands[c]) /\ commands[c].state = "accepted" /\ Ended[c].state = "failed"
  <2>1. commands[c] \in [browser: 1..lastBrowser, state: State, ready: BOOLEAN,
                         claim: 1..lastClaim \cup {None}, age: 0..Retention]
    BY <1>0 DEF GoodCommands
  <2>2. 0 \in 0..Retention
    BY ConstantFacts
  <2>3. CASE ~Unavailable(commands[c])
    BY <2>1, <2>3 DEF Ended
  <2>4. CASE Unavailable(commands[c])
    <3>1. commands[c].state \in {"accepted", "running"}
      BY <2>1, <2>4 DEF Unavailable, State, Terminal
    <3>2. Ended[c] = Finished(commands[c], IF commands[c].state = "running" THEN "unknown" ELSE "failed")
      BY <2>4 DEF Ended
    <3> QED
      BY <2>1, <2>2, <2>4, <3>1, <3>2 DEF Finished, State, Terminal
  <2> QED
    BY <2>3, <2>4
<1>3. /\ DOMAIN LiveCommands = {c \in DOMAIN commands : ~Forgotten(c)}
      /\ \A c \in DOMAIN LiveCommands : LiveCommands[c] = Ended[c]
  BY DEF LiveCommands, Restrict
<1>4. /\ DOMAIN LiveBrowsers = {b \in DOMAIN browsers : browsers[b].age < Retention}
      /\ \A b \in DOMAIN LiveBrowsers :
           LiveBrowsers[b] =
             IF browsers[b].command # None /\
                  (\/ Forgotten(browsers[b].command)
                   \/ /\ Unavailable(commands[browsers[b].command])
                      /\ Ended[browsers[b].command].state = "failed")
               THEN [browsers[b] EXCEPT !.command = None] ELSE browsers[b]
  BY DEF LiveBrowsers
<1>5. GoodCommands(LiveCommands)
  <2>1. DOMAIN LiveCommands \subseteq DOMAIN commands /\ DOMAIN commands \subseteq 1..lastCommand
        /\ lastCommand \in Nat
    BY <1>0, <1>3, ConstantFacts DEF GoodCommands, Counters
  <2>2. IsFiniteSet(DOMAIN commands) /\ Cardinality(DOMAIN commands) \in Nat
        /\ Cardinality(DOMAIN LiveCommands) \in Nat
    BY <2>1, IdsFinite
  <2>3. Cardinality(DOMAIN LiveCommands) <= Cardinality(DOMAIN commands)
    BY <2>1, <2>2, FS_Subset
  <2>4. Cardinality(DOMAIN LiveCommands) <= MaxCommands
    BY <1>0, <2>2, <2>3, ConstantFacts DEF GoodCommands
  <2> QED
    BY <1>2, <1>3, <2>1, <2>4 DEF GoodCommands
<1>6. GoodBrowsers(LiveBrowsers)
  <2>1. DOMAIN LiveBrowsers \subseteq DOMAIN browsers /\ DOMAIN browsers \subseteq 1..lastBrowser
        /\ lastBrowser \in Nat
    BY <1>0, <1>4, ConstantFacts DEF GoodBrowsers, Counters
  <2>2. IsFiniteSet(DOMAIN browsers) /\ Cardinality(DOMAIN browsers) \in Nat
        /\ Cardinality(DOMAIN LiveBrowsers) \in Nat
    BY <2>1, IdsFinite
  <2>3. Cardinality(DOMAIN LiveBrowsers) <= Cardinality(DOMAIN browsers)
    BY <2>1, <2>2, FS_Subset
  <2>4. Cardinality(DOMAIN LiveBrowsers) <= MaxBrowsers
    BY <1>0, <2>2, <2>3, ConstantFacts DEF GoodBrowsers
  <2>5. \A b \in DOMAIN LiveBrowsers :
           LiveBrowsers[b] \in [age: 0..Retention, command: Command \cup {None}, snapshot: 0..snapshot]
    BY <1>0, <1>4, <2>1 DEF GoodBrowsers
  <2> QED
    BY <2>1, <2>4, <2>5 DEF GoodBrowsers
<1>7. Held(LiveBrowsers, LiveCommands)
  <2> SUFFICES ASSUME NEW c \in DOMAIN LiveCommands, LiveCommands[c].state \in Unresolved,
                      LiveCommands[c].browser \in DOMAIN LiveBrowsers
               PROVE  LiveBrowsers[LiveCommands[c].browser].command = c
    BY DEF Held
  <2> DEFINE b == commands[c].browser
  <2>1. /\ c \in DOMAIN commands /\ ~Forgotten(c) /\ LiveCommands[c] = Ended[c]
        /\ LiveCommands[c].browser = b /\ commands[c].state \in Unresolved
        /\ Ended[c].state # "failed"
    BY <1>2, <1>3 DEF Unresolved
  <2>2. b \in DOMAIN browsers /\ browsers[b].command = c
    BY <1>0, <1>4, <2>1 DEF Held
  <2> HIDE DEF b
  <2> QED
    BY <1>4, <2>1, <2>2
<1>8. \A c \in DOMAIN LiveCommands :
        /\ c \in DOMAIN commands /\ Step(c, commands[c], LiveCommands[c])
        /\ LiveCommands[c].state = "accepted" => commands[c].state = "accepted"
        /\ LiveCommands[c].state = "running" =>
             commands[c].state = "running" /\ LiveCommands[c].claim = commands[c].claim
  BY <1>2, <1>3 DEF Step
<1>9. \A b \in DOMAIN LiveBrowsers :
        b \in DOMAIN browsers /\ LiveBrowsers[b].snapshot = browsers[b].snapshot
  BY <1>0, <1>4 DEF GoodBrowsers
<1> QED
  BY <1>5, <1>6, <1>7, <1>8, <1>9

(* The frames of the steps *)

\* A response takes the place of the request it answers.
LEMMA AnswerKeeps ==
    ASSUME Inductive, NEW m \in flight, NEW code, NEW value, Answer(m, code, value),
           UNCHANGED <<pageVars, executions, outcomes, lastCommand>>,
           GrantsAreGood(commands'),
           m.who # None /\ m.kind = "claim" /\ code = "ok" =>
              /\ executions[m.about.command] = 0
              /\ m.about.command \in DOMAIN commands' =>
                    commands'[m.about.command].state \in {"running", "unknown"},
           m.kind = "register" /\ code = "ok" => value \in Browser,
           m.kind = "heartbeat" /\ code = "ok" => value \in 1..lastCommand \cup {None}
    PROVE  OneAtATime' /\ WaitersWait' /\ Requests' /\ Values' /\ GrantsAreGood(commands)'
<1> USE DEF Inductive
<1> DEFINE reply == [who |-> m.who, code |-> code, value |-> value]
<1>1. /\ flight' = flight \ {m}
      /\ replies' = IF m.who = None THEN replies ELSE replies \cup {reply}
      /\ UNCHANGED <<registration, syncing, operations, lastClaim, detached, snapshot,
                     executions, outcomes, lastCommand>>
  BY DEF Answer, pageVars
<1>2. OneAtATime'
  BY <1>1 DEF OneAtATime
<1>3. WaitersWait'
  <2>1. m.who = Bridge => syncing.stage # "idle"
    BY DEF WaitersWait, Requests
  <2>2. m.who \in Command => m.who \in DOMAIN operations /\ operations[m.who].stage \in {"claiming", "completing"}
    BY DEF WaitersWait
  <2> QED
    BY <1>1, <2>1, <2>2 DEF WaitersWait
<1>4. Requests'
  BY <1>1 DEF Requests
<1>5. Values'
  BY <1>1 DEF Values, WaitersWait
<1>6. GrantsAreGood(commands)'
  <2> SUFFICES ASSUME NEW r \in replies', r.who \in DOMAIN operations,
                      operations[r.who].stage = "claiming", r.code = "ok"
               PROVE  /\ executions[r.who] = 0
                      /\ r.who \in DOMAIN commands' => commands'[r.who].state \in {"running", "unknown"}
    BY <1>1 DEF GrantsAreGood
  <2>1. CASE r \in replies
    BY <2>1 DEF GrantsAreGood
  <2>2. CASE r = reply
    <3>1. m.who \in Command
      BY <2>2, ConstantFacts DEF Operations, Counters, Command
    <3>2. m.kind = "claim" /\ m.about.command = m.who
      BY <2>2, <3>1 DEF WaitersWait
    <3> QED
      BY <2>2, <3>1, <3>2, ConstantFacts
  <2> QED
    BY <1>1, <2>1, <2>2
<1> QED
  BY <1>2, <1>3, <1>4, <1>5, <1>6

\* A step of the service: what the page has is as it was.
LEMMA ServiceKeeps ==
    ASSUME Inductive, UNCHANGED <<pageVars, executions, outcomes>>, Counters',
           lastCommand <= lastCommand', Server', Evolves(commands'),
           OneAtATime', WaitersWait', Requests', Values', GrantsAreGood(commands)',
           Acknowledgements', StatusIsNotOlder'
    PROVE  Inductive'
<1> USE DEF Inductive
<1>1. /\ UNCHANGED <<registration, syncing, operations, lastClaim, detached, snapshot, executions, outcomes>>
      /\ lastCommand \in Nat /\ lastCommand' \in Nat
  BY ConstantFacts DEF pageVars, Counters
<1>2. 1..lastCommand \subseteq 1..lastCommand'
  BY <1>1
<1>3. Receipts(commands') /\ ClaimsAreFresh(commands')
  BY Evolved
<1>4. Receipts(commands)' /\ ClaimsAreFresh(commands)'
  BY <1>1, <1>3 DEF Receipts, ClaimsAreFresh
<1>5. Ghosts'
  BY <1>1, ConstantFacts DEF Ghosts
<1>6. Operations'
  BY <1>1, <1>2 DEF Operations
<1>7. Syncing'
  BY <1>1, <1>2 DEF Syncing
<1>8. Detached'
  BY <1>1 DEF Detached
<1>9. Taken'
  <2>1. Underway' = Underway /\ Begun' = Begun
    BY <1>1 DEF Underway, Begun
  <2> QED
    BY <1>1, <2>1 DEF Taken
<1> QED
  BY <1>4, <1>5, <1>6, <1>7, <1>8, <1>9

\* A step of the service that answers no request and tells no page anything new.
LEMMA QuietKeeps ==
    ASSUME Inductive, UNCHANGED <<pageVars, flight, replies, timeouts, ghostVars, lastBrowser>>,
           lastCommand' \in lastCommand..MaxSubmissions, restarts' \in 0..MaxRestarts,
           Server', Evolves(commands'),
           \A b \in DOMAIN browsers' : b \in DOMAIN browsers /\ browsers'[b].snapshot = browsers[b].snapshot
    PROVE  Inductive'
<1> USE DEF Inductive
<1>1. /\ UNCHANGED <<registration, syncing, operations, lastClaim, detached, snapshot,
                     executions, outcomes, acknowledged>>
  BY DEF pageVars, ghostVars
<1>2. lastCommand \in Nat /\ lastCommand' \in Nat /\ lastCommand <= lastCommand' /\ Counters'
  BY <1>1, ConstantFacts DEF Counters
<1>3. 1..lastCommand \subseteq 1..lastCommand'
  BY <1>2
<1>4. OneAtATime' /\ WaitersWait' /\ Requests' /\ Values'
  BY <1>1, <1>3 DEF OneAtATime, WaitersWait, Requests, Values
<1>5. GrantsAreGood(commands)'
  <2>1. GrantsAreGood(commands')
    BY Evolved
  <2> QED
    BY <1>1, <2>1 DEF GrantsAreGood
<1>6. Acknowledgements' /\ StatusIsNotOlder'
  BY <1>1 DEF Acknowledgements, StatusIsNotOlder
<1> QED
  BY <1>1, <1>2, <1>4, <1>5, <1>6, ServiceKeeps DEF pageVars

(* The service's own steps and the controller's *)

\* The registries as one request or call leaves them when it only expires.
LEMMA LiveEvolves ==
    ASSUME Inductive
    PROVE  /\ Evolves(LiveCommands) /\ Evolves(commands)
           /\ DOMAIN LiveCommands \subseteq Command /\ DOMAIN LiveBrowsers \subseteq Browser
<1>1. Evolves(LiveCommands)
  BY Expired DEF Evolves
<1>2. Evolves(commands)
  BY DEF Evolves, Step
<1>3. /\ lastCommand \in 0..MaxSubmissions /\ lastBrowser \in 0..MaxRegistrations
      /\ DOMAIN LiveCommands \subseteq 1..lastCommand /\ DOMAIN LiveBrowsers \subseteq 1..lastBrowser
  BY Expired DEF Inductive, Counters, GoodCommands, GoodBrowsers
<1>4. DOMAIN LiveCommands \subseteq Command /\ DOMAIN LiveBrowsers \subseteq Browser
  BY <1>3, ConstantFacts DEF Command, Browser
<1> QED
  BY <1>1, <1>2, <1>4

LEMMA PollKeeps ==
    ASSUME Inductive, Poll
    PROVE  Inductive'
<1>1. /\ UNCHANGED <<pageVars, flight, replies, timeouts, ghostVars, lastBrowser, lastCommand, restarts>>
      /\ browsers' = LiveBrowsers /\ commands' = LiveCommands
  BY DEF Poll, Expire, netVars
<1>2. /\ lastCommand' \in lastCommand..MaxSubmissions /\ restarts' \in 0..MaxRestarts
  BY <1>1, ConstantFacts DEF Inductive, Counters
<1>3. Server'
  BY <1>1, Expired DEF Server, GoodBrowsers, GoodCommands, Held, pageVars
<1> QED
  BY <1>1, <1>2, <1>3, Expired, LiveEvolves, QuietKeeps

LEMMA PreparedKeeps ==
    ASSUME Inductive, NEW c \in Command, Prepared(c)
    PROVE  Inductive'
<1>1. /\ UNCHANGED <<pageVars, flight, replies, timeouts, ghostVars, lastBrowser, lastCommand, restarts>>
      /\ browsers' = LiveBrowsers
      /\ commands' = IF Ended[c].state = "accepted" THEN [LiveCommands EXCEPT ![c].ready = TRUE]
                                                    ELSE LiveCommands
  BY DEF Prepared, netVars
<1>2. /\ lastCommand' \in lastCommand..MaxSubmissions /\ restarts' \in 0..MaxRestarts
  BY <1>1, ConstantFacts DEF Inductive, Counters
<1>3. /\ GoodCommands(LiveCommands) /\ DOMAIN commands' = DOMAIN LiveCommands
      /\ \A d \in DOMAIN commands' : commands'[d] = LiveCommands[d] \/
                                     commands'[d] = [LiveCommands[d] EXCEPT !.ready = TRUE]
  BY <1>1, Expired
<1>4. \A d \in DOMAIN commands' :
         /\ commands'[d] \in [browser: 1..lastBrowser, state: State, ready: BOOLEAN,
                              claim: 1..lastClaim \cup {None}, age: 0..Retention]
         /\ commands'[d].state = LiveCommands[d].state /\ commands'[d].claim = LiveCommands[d].claim
         /\ commands'[d].browser = LiveCommands[d].browser
  BY <1>3 DEF GoodCommands
<1>5. Server'
  BY <1>1, <1>3, <1>4, Expired DEF Server, GoodBrowsers, GoodCommands, Held, pageVars
<1>6. Evolves(commands')
  BY <1>3, <1>4, Expired DEF Evolves, Step
<1> QED
  BY <1>1, <1>2, <1>5, <1>6, Expired, QuietKeeps

LEMMA PrepareFailsKeeps ==
    ASSUME Inductive, NEW c \in Command, PrepareFails(c)
    PROVE  Inductive'
<1> DEFINE b == commands[c].browser
<1>1. /\ UNCHANGED <<pageVars, flight, replies, timeouts, ghostVars, lastBrowser, lastCommand, restarts>>
      /\ c \in DOMAIN commands /\ commands[c].state = "accepted"
      /\ commands' = [commands EXCEPT ![c] = Finished(commands[c], "failed")]
      /\ browsers' = IF Holds(b, c, browsers) THEN [browsers EXCEPT ![b].command = None] ELSE browsers
  BY DEF PrepareFails, Preparing, netVars
<1>2. /\ lastCommand' \in lastCommand..MaxSubmissions /\ restarts' \in 0..MaxRestarts
  BY <1>1, ConstantFacts DEF Inductive, Counters
<1>3. /\ GoodCommands(commands) /\ GoodBrowsers(browsers) /\ Held(browsers, commands)
  BY DEF Inductive, Server
<1>4. /\ DOMAIN commands' = DOMAIN commands
      /\ \A d \in DOMAIN commands' :
           /\ commands'[d] \in [browser: 1..lastBrowser, state: State, ready: BOOLEAN,
                                claim: 1..lastClaim \cup {None}, age: 0..Retention]
           /\ commands'[d].claim = commands[d].claim /\ commands'[d].browser = commands[d].browser
           /\ commands'[d].state = IF d = c THEN "failed" ELSE commands[d].state
  <2> DEFINE failed == Finished(commands[c], "failed")
  <2>1. 0 \in 0..Retention
    BY ConstantFacts
  <2>2. /\ failed \in [browser: 1..lastBrowser, state: State, ready: BOOLEAN,
                        claim: 1..lastClaim \cup {None}, age: 0..Retention]
        /\ failed.claim = commands[c].claim /\ failed.browser = commands[c].browser
        /\ failed.state = "failed"
    BY <1>1, <1>3, <2>1 DEF GoodCommands, Finished, State, Terminal
  <2>3. commands' = [commands EXCEPT ![c] = failed]
    BY <1>1
  <2> HIDE DEF failed
  <2> QED
    BY <1>1, <1>3, <2>2, <2>3 DEF GoodCommands
<1>5. /\ DOMAIN browsers' = DOMAIN browsers
      /\ \A d \in DOMAIN browsers' :
           /\ browsers'[d] \in [age: 0..Retention, command: Command \cup {None}, snapshot: 0..snapshot]
           /\ browsers'[d].snapshot = browsers[d].snapshot
           /\ browsers'[d].command = IF d = b /\ browsers[d].command = c THEN None ELSE browsers[d].command
  BY <1>1, <1>3 DEF GoodBrowsers, Holds
<1>6. Server'
  <2>1. Held(browsers', commands')
    BY <1>3, <1>4, <1>5 DEF Held, Unresolved
  <2> QED
    BY <1>1, <1>3, <1>4, <1>5, <2>1 DEF Server, GoodBrowsers, GoodCommands, Held, pageVars
<1>7. Evolves(commands')
  BY <1>1, <1>4 DEF Evolves, Step
<1> QED
  BY <1>1, <1>2, <1>5, <1>6, <1>7, QuietKeeps

\* A full registry gives up the first of those it may.
LEMMA MakesRoom ==
    ASSUME NEW n \in Nat, NEW f, DOMAIN f \subseteq 1..n,
           NEW max \in Nat \ {0}, Cardinality(DOMAIN f) <= max,
           NEW S \in SUBSET DOMAIN f, Cardinality(DOMAIN f) >= max => S # {}
    PROVE  LET kept == IF Cardinality(DOMAIN f) >= max THEN Without(f, Min(S)) ELSE f IN
           /\ DOMAIN kept \subseteq DOMAIN f /\ \A x \in DOMAIN kept : kept[x] = f[x]
           /\ IsFiniteSet(DOMAIN kept) /\ Cardinality(DOMAIN kept) + 1 <= max
<1> DEFINE kept == IF Cardinality(DOMAIN f) >= max THEN Without(f, Min(S)) ELSE f
<1>1. IsFiniteSet(DOMAIN f) /\ Cardinality(DOMAIN f) \in Nat
  BY IdsFinite
<1>2. CASE Cardinality(DOMAIN f) >= max
  <2>1. Min(S) \in DOMAIN f
    BY <1>2, MinIn
  <2>2. DOMAIN kept = DOMAIN f \ {Min(S)} /\ \A x \in DOMAIN kept : kept[x] = f[x]
    BY <1>2 DEF Without, Restrict
  <2> HIDE DEF kept
  <2>3. IsFiniteSet(DOMAIN kept) /\ Cardinality(DOMAIN kept) = Cardinality(DOMAIN f) - 1
    BY <1>1, <2>1, <2>2, FS_RemoveElement
  <2>4. /\ DOMAIN kept \subseteq DOMAIN f /\ \A x \in DOMAIN kept : kept[x] = f[x]
        /\ IsFiniteSet(DOMAIN kept) /\ Cardinality(DOMAIN kept) + 1 <= max
    BY <1>1, <2>2, <2>3
  <2> QED
    BY <2>4 DEF kept
<1>3. CASE ~(Cardinality(DOMAIN f) >= max)
  BY <1>1, <1>3
<1> QED
  BY <1>2, <1>3

\* submit: the page the command goes to held none.
LEMMA SubmitKeeps ==
    ASSUME Inductive, NEW b \in Browser, NEW resolve \in BOOLEAN, Submit(b, resolve)
    PROVE  Inductive'
<1> DEFINE full == Cardinality(DOMAIN LiveCommands) >= MaxCommands
           old == {c \in DOMAIN LiveCommands :
                     LiveCommands[c].state \in Terminal /\ ~Holds(LiveCommands[c].browser, c, LiveBrowsers)}
           kept == IF full THEN Without(LiveCommands, Min(old)) ELSE LiveCommands
           c == lastCommand + 1
           new == [browser |-> b, state |-> "accepted", ready |-> ~resolve, claim |-> None, age |-> 0]
<1>1. /\ UNCHANGED <<pageVars, flight, replies, timeouts, ghostVars, lastBrowser, restarts>>
      /\ c \in Command /\ lastCommand' = c
      /\ Connected(b, LiveBrowsers) /\ LiveBrowsers[b].command = None
      /\ full => old # {}
      /\ commands' = With(kept, c, new)
      /\ browsers' = [LiveBrowsers EXCEPT ![b].command = c]
  BY DEF Submit, netVars
<1>2. /\ GoodCommands(LiveCommands) /\ GoodBrowsers(LiveBrowsers) /\ Held(LiveBrowsers, LiveCommands)
      /\ Evolves(LiveCommands) /\ lastCommand \in Nat
  BY Expired, LiveEvolves, ConstantFacts DEF Inductive, Counters
<1>3. /\ DOMAIN kept \subseteq DOMAIN LiveCommands /\ \A d \in DOMAIN kept : kept[d] = LiveCommands[d]
      /\ IsFiniteSet(DOMAIN kept) /\ Cardinality(DOMAIN kept) + 1 <= MaxCommands
  <2>1. /\ DOMAIN LiveCommands \subseteq 1..lastCommand /\ Cardinality(DOMAIN LiveCommands) <= MaxCommands
        /\ old \in SUBSET DOMAIN LiveCommands
    BY <1>2 DEF GoodCommands
  <2> HIDE DEF old
  <2> QED
    BY <1>1, <1>2, <2>1, ConstantFacts, MakesRoom
<1>4. c \notin DOMAIN kept
  BY <1>2, <1>3 DEF GoodCommands
<1> HIDE DEF kept, full, old
<1>5. /\ DOMAIN commands' = DOMAIN kept \cup {c}
      /\ commands'[c] = new /\ \A d \in DOMAIN kept : commands'[d] = LiveCommands[d]
  BY <1>1, <1>3, <1>4 DEF With
<1>6. Cardinality(DOMAIN commands') <= MaxCommands
  <2>1. Cardinality(DOMAIN kept \cup {c}) = Cardinality(DOMAIN kept) + 1
    BY <1>3, <1>4, FS_AddElement
  <2> QED
    BY <1>3, <1>5, <2>1
<1>7. b \in DOMAIN LiveBrowsers /\ b \in 1..lastBrowser /\ lastBrowser' = lastBrowser
  BY <1>1, <1>2 DEF Connected, GoodBrowsers
<1>8. new \in [browser: 1..lastBrowser, state: State, ready: BOOLEAN,
               claim: 1..lastClaim \cup {None}, age: 0..Retention]
  BY <1>7, ConstantFacts DEF State
<1>9. GoodCommands(commands)'
  <2>1. DOMAIN commands' \subseteq 1..lastCommand'
    BY <1>1, <1>2, <1>3, <1>5 DEF GoodCommands
  <2>2. lastClaim' = lastClaim
    BY <1>1 DEF pageVars
  <2> HIDE DEF new
  <2>3. \A d \in DOMAIN commands' :
           commands'[d] \in [browser: 1..lastBrowser, state: State, ready: BOOLEAN,
                             claim: 1..lastClaim \cup {None}, age: 0..Retention]
    BY <1>2, <1>3, <1>5, <1>8 DEF GoodCommands
  <2> QED
    BY <1>6, <1>7, <2>1, <2>2, <2>3 DEF GoodCommands
<1>10. /\ DOMAIN browsers' = DOMAIN LiveBrowsers
       /\ \A d \in DOMAIN browsers' :
           /\ browsers'[d] \in [age: 0..Retention, command: Command \cup {None}, snapshot: 0..snapshot]
           /\ browsers'[d].snapshot = LiveBrowsers[d].snapshot
           /\ browsers'[d].command = IF d = b THEN c ELSE LiveBrowsers[d].command
  BY <1>1, <1>2, <1>7 DEF GoodBrowsers
<1>11. GoodBrowsers(browsers)'
  BY <1>1, <1>2, <1>10 DEF GoodBrowsers, pageVars
<1>12. Held(browsers', commands')
  <2> SUFFICES ASSUME NEW d \in DOMAIN commands', commands'[d].state \in Unresolved,
                      commands'[d].browser \in DOMAIN browsers'
               PROVE  browsers'[commands'[d].browser].command = d
    BY DEF Held
  <2>1. CASE d = c
    BY <1>5, <1>10, <2>1
  <2>2. CASE d \in DOMAIN kept
    <3>1. LiveBrowsers[commands'[d].browser].command = d
      BY <1>2, <1>3, <1>5, <1>10, <2>2 DEF Held
    <3>2. d \in Command /\ commands'[d].browser # b
      BY <1>1, <1>3, <2>2, <3>1, LiveEvolves, ConstantFacts
    <3> QED
      BY <1>10, <3>1, <3>2
  <2> QED
    BY <1>5, <2>1, <2>2
<1>13. Server'
  BY <1>9, <1>11, <1>12 DEF Server, Held
<1>14. Evolves(commands')
  BY <1>1, <1>2, <1>3, <1>5 DEF Evolves
<1>15. lastCommand' \in lastCommand..MaxSubmissions /\ restarts' \in 0..MaxRestarts
  BY <1>1, <1>2, ConstantFacts DEF Command, Inductive, Counters
<1>16. \A d \in DOMAIN browsers' : d \in DOMAIN browsers /\ browsers'[d].snapshot = browsers[d].snapshot
  BY <1>10, Expired
<1> QED
  BY <1>1, <1>13, <1>14, <1>15, <1>16, QuietKeeps

LEMMA RestartServerKeeps ==
    ASSUME Inductive, RestartServer
    PROVE  Inductive'
<1>1. /\ UNCHANGED <<pageVars, flight, replies, timeouts, ghostVars, lastBrowser, lastCommand>>
      /\ browsers' = <<>> /\ commands' = <<>> /\ restarts < MaxRestarts /\ restarts' = restarts + 1
  BY DEF RestartServer, netVars
<1>2. /\ lastCommand' \in lastCommand..MaxSubmissions /\ restarts' \in 0..MaxRestarts
  BY <1>1, ConstantFacts DEF Inductive, Counters
<1>3. DOMAIN browsers' = {} /\ DOMAIN commands' = {} /\ Cardinality({}) = 0
  BY <1>1, FS_EmptySet
<1>4. Server'
  BY <1>3, ConstantFacts DEF Server, GoodBrowsers, GoodCommands, Held
<1>5. Evolves(commands')
  BY <1>3 DEF Evolves
<1> QED
  BY <1>1, <1>2, <1>3, <1>4, <1>5, QuietKeeps

LEMMA TickKeeps ==
    ASSUME Inductive, Tick
    PROVE  Inductive'
<1>1. /\ UNCHANGED <<pageVars, flight, replies, timeouts, ghostVars, lastBrowser, lastCommand, restarts>>
      /\ browsers' = [b \in DOMAIN browsers |-> Older(browsers[b])]
      /\ commands' = [c \in DOMAIN commands |->
           IF commands[c].state = "running" THEN commands[c] ELSE Older(commands[c])]
  BY DEF Tick, netVars
<1>2. /\ lastCommand' \in lastCommand..MaxSubmissions /\ restarts' \in 0..MaxRestarts
  BY <1>1, ConstantFacts DEF Inductive, Counters
<1>3. /\ GoodCommands(commands) /\ GoodBrowsers(browsers) /\ Held(browsers, commands)
  BY DEF Inductive, Server
<1>4. /\ DOMAIN commands' = DOMAIN commands
      /\ \A d \in DOMAIN commands' :
           /\ commands'[d] \in [browser: 1..lastBrowser, state: State, ready: BOOLEAN,
                                claim: 1..lastClaim \cup {None}, age: 0..Retention]
           /\ commands'[d].claim = commands[d].claim /\ commands'[d].browser = commands[d].browser
           /\ commands'[d].state = commands[d].state
  BY <1>1, <1>3, ConstantFacts DEF GoodCommands, Older
<1>5. /\ DOMAIN browsers' = DOMAIN browsers
      /\ \A d \in DOMAIN browsers' :
           /\ browsers'[d] \in [age: 0..Retention, command: Command \cup {None}, snapshot: 0..snapshot]
           /\ browsers'[d].snapshot = browsers[d].snapshot
           /\ browsers'[d].command = browsers[d].command
  BY <1>1, <1>3, ConstantFacts DEF GoodBrowsers, Older
<1>6. Server'
  BY <1>1, <1>3, <1>4, <1>5 DEF Server, GoodBrowsers, GoodCommands, Held, pageVars
<1>7. Evolves(commands')
  BY <1>4 DEF Evolves, Step
<1> QED
  BY <1>1, <1>2, <1>5, <1>6, <1>7, QuietKeeps

(* The requests of a page *)

\* The service answers a request, and leaves the registries in order.
LEMMA ServedKeeps ==
    ASSUME Inductive, NEW m \in flight, NEW code, NEW value, Answer(m, code, value),
           UNCHANGED <<pageVars, restarts, executions, outcomes, lastCommand>>,
           lastBrowser' \in lastBrowser..MaxRegistrations,
           Server', Evolves(commands'), Acknowledgements', StatusIsNotOlder',
           m.who # None /\ m.kind = "claim" /\ code = "ok" =>
              /\ executions[m.about.command] = 0
              /\ m.about.command \in DOMAIN commands' =>
                    commands'[m.about.command].state \in {"running", "unknown"},
           m.kind = "register" /\ code = "ok" => value \in Browser,
           m.kind = "heartbeat" /\ code = "ok" => value \in 1..lastCommand \cup {None}
    PROVE  Inductive'
<1>1. GrantsAreGood(commands')
  BY Evolved
<1>2. OneAtATime' /\ WaitersWait' /\ Requests' /\ Values' /\ GrantsAreGood(commands)'
  BY <1>1, AnswerKeeps
<1>3. Counters' /\ lastCommand <= lastCommand'
  BY ConstantFacts DEF Inductive, Counters, pageVars, Answer
<1> QED
  BY <1>2, <1>3, ServiceKeeps

\* What a page has acknowledged is kept when its snapshot only grows.
LEMMA StatusKeeps ==
    ASSUME Inductive, UNCHANGED <<acknowledged, snapshot, lastBrowser>>,
           \A b \in DOMAIN browsers' :
              b \in DOMAIN browsers /\ browsers'[b].snapshot \in browsers[b].snapshot..snapshot
    PROVE  Acknowledgements' /\ StatusIsNotOlder'
<1>1. Acknowledgements'
  BY DEF Inductive, Acknowledgements
<1>2. ASSUME NEW b \in DOMAIN browsers'
      PROVE  browsers'[b].snapshot >= acknowledged'[b]
  <2>1. /\ b \in DOMAIN browsers /\ browsers[b].snapshot >= acknowledged[b]
        /\ browsers'[b].snapshot \in browsers[b].snapshot..snapshot
    BY <1>2 DEF Inductive, StatusIsNotOlder
  <2>2. browsers[b].snapshot \in Nat /\ acknowledged[b] \in Nat /\ snapshot \in Nat
    <3>1. b \in Browser /\ snapshot \in Nat /\ browsers[b].snapshot \in 0..snapshot
      BY <2>1, ConstantFacts DEF Inductive, Server, GoodBrowsers, Counters, Browser, Snapshot
    <3> QED
      BY <3>1 DEF Inductive, Acknowledgements
  <2> QED
    BY <2>1, <2>2
<1> QED
  BY <1>1, <1>2 DEF StatusIsNotOlder

\* The registries after _expire, and as they were, are in order.
LEMMA LiveServer ==
    ASSUME Inductive, UNCHANGED <<lastBrowser, lastCommand, lastClaim, snapshot, acknowledged>>
    PROVE  /\ browsers' = LiveBrowsers =>
                GoodBrowsers(browsers)' /\ Acknowledgements' /\ StatusIsNotOlder'
           /\ commands' = LiveCommands => GoodCommands(commands)' /\ Evolves(commands')
           /\ browsers' = LiveBrowsers /\ commands' = LiveCommands => Server'
           /\ UNCHANGED <<browsers, commands>> =>
                Server' /\ Evolves(commands') /\ Acknowledgements' /\ StatusIsNotOlder'
<1>1. /\ GoodBrowsers(browsers) /\ GoodCommands(commands) /\ Held(browsers, commands)
      /\ snapshot \in Nat
  BY ConstantFacts DEF Inductive, Server, Counters, Snapshot
<1>2. ASSUME browsers' = LiveBrowsers
      PROVE  GoodBrowsers(browsers)' /\ Acknowledgements' /\ StatusIsNotOlder'
  <2>1. GoodBrowsers(browsers)'
    BY <1>2, Expired DEF GoodBrowsers
  <2>2. \A b \in DOMAIN browsers' :
           b \in DOMAIN browsers /\ browsers'[b].snapshot \in browsers[b].snapshot..snapshot
    BY <1>1, <1>2, Expired DEF GoodBrowsers
  <2> QED
    BY <2>1, <2>2, StatusKeeps
<1>3. ASSUME commands' = LiveCommands
      PROVE  GoodCommands(commands)' /\ Evolves(commands')
  BY <1>3, Expired, LiveEvolves DEF GoodCommands
<1>4. ASSUME browsers' = LiveBrowsers, commands' = LiveCommands
      PROVE  Server'
  BY <1>2, <1>3, <1>4, Expired DEF Server, Held
<1>5. ASSUME UNCHANGED <<browsers, commands>>
      PROVE  Server' /\ Evolves(commands') /\ Acknowledgements' /\ StatusIsNotOlder'
  <2>1. \A b \in DOMAIN browsers' :
           b \in DOMAIN browsers /\ browsers'[b].snapshot \in browsers[b].snapshot..snapshot
    BY <1>1, <1>5 DEF GoodBrowsers
  <2>2. Server'
    BY <1>1, <1>5 DEF Server, GoodBrowsers, GoodCommands, Held
  <2> QED
    BY <1>5, <2>1, <2>2, LiveEvolves, StatusKeeps
<1> QED
  BY <1>2, <1>3, <1>4, <1>5

LEMMA RegisterKeeps ==
    ASSUME Inductive, NEW m \in flight, Register(m), UNCHANGED <<pageVars, restarts, executions, outcomes>>
    PROVE  Inductive'
<1> DEFINE full == Cardinality(DOMAIN LiveBrowsers) >= MaxBrowsers
           stale == {b \in DOMAIN LiveBrowsers : ~Connected(b, LiveBrowsers)}
           kept == IF full THEN Without(LiveBrowsers, Min(stale)) ELSE LiveBrowsers
           b == lastBrowser + 1
           new == [age |-> 0, command |-> None, snapshot |-> m.about.snapshot]
<1>1. /\ m.kind = "register" /\ commands' = LiveCommands
      /\ UNCHANGED <<lastCommand, acknowledged, lastClaim, snapshot>>
      /\ \/ /\ full /\ stale = {}
            /\ browsers' = LiveBrowsers /\ Answer(m, "CAPACITY", None) /\ UNCHANGED lastBrowser
         \/ /\ full => stale # {}
            /\ lastBrowser < MaxRegistrations /\ lastBrowser' = b
            /\ browsers' = With(kept, b, new)
            /\ Answer(m, "ok", b)
  BY DEF Register, pageVars
<1>2. /\ GoodCommands(LiveCommands) /\ GoodBrowsers(LiveBrowsers) /\ Held(LiveBrowsers, LiveCommands)
      /\ lastBrowser \in 0..MaxRegistrations /\ Evolves(LiveCommands) /\ Acknowledgements
      /\ snapshot \in Nat /\ m.about.snapshot \in 0..snapshot
  BY <1>1, Expired, LiveEvolves, ConstantFacts DEF Inductive, Counters, Requests, Snapshot
<1>3. CASE full /\ stale = {}
  <2>1. browsers' = LiveBrowsers /\ Answer(m, "CAPACITY", None) /\ UNCHANGED lastBrowser
    BY <1>1, <1>3
  <2>2. Server' /\ Evolves(commands') /\ Acknowledgements' /\ StatusIsNotOlder'
    BY <1>1, <2>1, LiveServer
  <2> HIDE DEF full, stale
  <2> QED
    BY <1>1, <1>2, <2>1, <2>2, ConstantFacts, ServedKeeps
<1>4. CASE ~(full /\ stale = {})
  <2>1. /\ full => stale # {}
        /\ lastBrowser < MaxRegistrations /\ lastBrowser' = b
        /\ browsers' = With(kept, b, new)
        /\ Answer(m, "ok", b)
    BY <1>1, <1>4
  <2>2. /\ DOMAIN kept \subseteq DOMAIN LiveBrowsers /\ \A d \in DOMAIN kept : kept[d] = LiveBrowsers[d]
        /\ IsFiniteSet(DOMAIN kept) /\ Cardinality(DOMAIN kept) + 1 <= MaxBrowsers
    <3>1. /\ DOMAIN LiveBrowsers \subseteq 1..lastBrowser /\ Cardinality(DOMAIN LiveBrowsers) <= MaxBrowsers
          /\ stale \in SUBSET DOMAIN LiveBrowsers /\ lastBrowser \in Nat
      BY <1>2, ConstantFacts DEF GoodBrowsers
    <3> HIDE DEF stale
    <3> QED
      BY <2>1, <3>1, ConstantFacts, MakesRoom
  <2> HIDE DEF full, stale, kept
  <2>3. b \notin DOMAIN kept /\ b \in Browser /\ b \in 1..lastBrowser' /\ lastBrowser \in Nat
        /\ 1..lastBrowser \subseteq 1..lastBrowser'
    BY <1>2, <2>1, <2>2, ConstantFacts DEF GoodBrowsers, Browser
  <2>4. /\ DOMAIN browsers' = DOMAIN kept \cup {b}
        /\ browsers'[b] = new /\ \A d \in DOMAIN kept : browsers'[d] = LiveBrowsers[d]
    BY <2>1, <2>2, <2>3 DEF With
  <2>5. GoodBrowsers(browsers)'
    <3>1. Cardinality(DOMAIN browsers') <= MaxBrowsers
      <4>1. Cardinality(DOMAIN kept \cup {b}) = Cardinality(DOMAIN kept) + 1
        BY <2>2, <2>3, FS_AddElement
      <4> QED
        BY <2>2, <2>4, <4>1
    <3>2. DOMAIN browsers' \subseteq 1..lastBrowser'
      BY <1>2, <2>2, <2>3, <2>4 DEF GoodBrowsers
    <3>3. new \in [age: 0..Retention, command: Command \cup {None}, snapshot: 0..snapshot]
      BY <1>2, ConstantFacts
    <3> HIDE DEF new
    <3>4. \A d \in DOMAIN browsers' :
             browsers'[d] \in [age: 0..Retention, command: Command \cup {None}, snapshot: 0..snapshot]
      BY <1>2, <2>2, <2>4, <3>3 DEF GoodBrowsers
    <3> QED
      BY <1>1, <3>1, <3>2, <3>4 DEF GoodBrowsers
  <2>6. GoodCommands(commands)'
    BY <1>1, <1>2, <2>3 DEF GoodCommands
  <2>7. Held(browsers', commands')
    BY <1>1, <1>2, <2>1, <2>2, <2>4 DEF Held, GoodCommands
  <2>8. Server'
    BY <2>5, <2>6, <2>7 DEF Server, Held
  <2>9. Acknowledgements'
    BY <1>1, <1>2, <2>1 DEF Acknowledgements, Browser
  <2>10. StatusIsNotOlder'
    <3>1. acknowledged[b] = 0
      BY <1>2, <2>3 DEF Acknowledgements
    <3>2. browsers'[b].snapshot >= acknowledged[b]
      BY <1>2, <2>4, <3>1
    <3>3. \A d \in DOMAIN kept : browsers'[d].snapshot >= acknowledged[d]
      BY <2>2, <2>4, Expired DEF Inductive, StatusIsNotOlder
    <3> QED
      BY <1>1, <2>4, <3>2, <3>3 DEF StatusIsNotOlder
  <2>11. lastBrowser' \in lastBrowser..MaxRegistrations
    BY <1>2, <2>1, ConstantFacts
  <2> QED
    BY <1>1, <1>2, <2>1, <2>3, <2>8, <2>9, <2>10, <2>11, ServedKeeps
<1> QED
  BY <1>3, <1>4

LEMMA HeartbeatKeeps ==
    ASSUME Inductive, NEW m \in flight, Heartbeat(m), UNCHANGED <<pageVars, restarts, executions, outcomes>>
    PROVE  Inductive'
<1> DEFINE b == m.browser
           c == LiveBrowsers[b].command
           offered == IF /\ c \in DOMAIN LiveCommands
                         /\ LiveCommands[c].state \in {"accepted", "running"} /\ LiveCommands[c].ready
                        THEN c ELSE None
           seen == [Reported(LiveBrowsers[b], m.about.snapshot) EXCEPT !.age = 0]
<1>1. /\ m.kind = "heartbeat" /\ commands' = LiveCommands
      /\ UNCHANGED <<lastBrowser, lastCommand, acknowledged, lastClaim, snapshot>>
      /\ \/ /\ b \notin DOMAIN LiveBrowsers /\ browsers' = LiveBrowsers
            /\ Answer(m, "BROWSER_NOT_REGISTERED", None)
         \/ /\ b \in DOMAIN LiveBrowsers /\ browsers' = [LiveBrowsers EXCEPT ![b] = seen]
            /\ Answer(m, "ok", offered)
  BY DEF Heartbeat, pageVars
<1>2. /\ GoodCommands(LiveCommands) /\ GoodBrowsers(LiveBrowsers) /\ Held(LiveBrowsers, LiveCommands)
      /\ lastBrowser \in 0..MaxRegistrations /\ Evolves(LiveCommands)
      /\ snapshot \in Nat /\ m.about.snapshot \in 0..snapshot
  BY <1>1, Expired, LiveEvolves, ConstantFacts DEF Inductive, Counters, Requests, Snapshot
<1>3. lastBrowser' \in lastBrowser..MaxRegistrations
  BY <1>1, <1>2, ConstantFacts
<1>4. CASE b \notin DOMAIN LiveBrowsers
  <2>1. browsers' = LiveBrowsers /\ Answer(m, "BROWSER_NOT_REGISTERED", None)
    BY <1>1, <1>4
  <2>2. Server' /\ Evolves(commands') /\ Acknowledgements' /\ StatusIsNotOlder'
    BY <1>1, <2>1, LiveServer
  <2> QED
    BY <1>1, <1>3, <2>1, <2>2, ServedKeeps
<1>5. CASE b \in DOMAIN LiveBrowsers
  <2>1. browsers' = [LiveBrowsers EXCEPT ![b] = seen] /\ Answer(m, "ok", offered)
    BY <1>1, <1>5
  <2>2. /\ seen \in [age: 0..Retention, command: Command \cup {None}, snapshot: 0..snapshot]
        /\ seen.command = LiveBrowsers[b].command
        /\ seen.snapshot \in LiveBrowsers[b].snapshot..snapshot
    <3>1. /\ LiveBrowsers[b] \in [age: 0..Retention, command: Command \cup {None}, snapshot: 0..snapshot]
          /\ 0 \in 0..Retention
      BY <1>2, <1>5, ConstantFacts DEF GoodBrowsers
    <3> DEFINE reported == Reported(LiveBrowsers[b], m.about.snapshot)
    <3>2. /\ reported \in [age: 0..Retention, command: Command \cup {None}, snapshot: 0..snapshot]
          /\ reported.command = LiveBrowsers[b].command
          /\ reported.snapshot \in LiveBrowsers[b].snapshot..snapshot
      BY <1>2, <3>1 DEF Reported
    <3>3. seen = [reported EXCEPT !.age = 0]
      OBVIOUS
    <3> HIDE DEF seen, reported
    <3> QED
      BY <3>1, <3>2, <3>3
  <2>3. offered \in 1..lastCommand \cup {None}
    BY <1>2 DEF GoodCommands
  <2> HIDE DEF seen, offered
  <2>4. /\ DOMAIN browsers' = DOMAIN LiveBrowsers
        /\ \A d \in DOMAIN browsers' :
             /\ browsers'[d] \in [age: 0..Retention, command: Command \cup {None}, snapshot: 0..snapshot]
             /\ browsers'[d].command = LiveBrowsers[d].command
             /\ browsers'[d].snapshot \in LiveBrowsers[d].snapshot..snapshot
    BY <1>2, <2>1, <2>2 DEF GoodBrowsers
  <2>5. GoodBrowsers(browsers)'
    BY <1>1, <1>2, <2>4 DEF GoodBrowsers
  <2>6. Server'
    BY <1>1, <1>2, <2>4, <2>5 DEF Server, GoodCommands, Held
  <2>7. \A d \in DOMAIN browsers' :
           d \in DOMAIN browsers /\ browsers'[d].snapshot \in browsers[d].snapshot..snapshot
    BY <2>4, Expired
  <2>8. Acknowledgements' /\ StatusIsNotOlder'
    BY <1>1, <2>7, StatusKeeps
  <2> QED
    BY <1>1, <1>2, <1>3, <2>1, <2>3, <2>6, <2>8, ServedKeeps
<1> QED
  BY <1>4, <1>5

\* claim: a claim that is waited for is not one of an execution.
LEMMA ClaimKeeps ==
    ASSUME Inductive, NEW m \in flight, Claim(m), UNCHANGED <<pageVars, restarts, executions, outcomes>>
    PROVE  Inductive'
<1> DEFINE c == m.about.command
           open == /\ LiveCommands[c].ready
                   /\ \/ LiveCommands[c].state = "accepted"
                      \/ LiveCommands[c].state = "running" /\ LiveCommands[c].claim = m.about.claim
           claimed == [LiveCommands[c] EXCEPT !.state = "running", !.claim = m.about.claim, !.age = 0]
<1>1. /\ m.kind = "claim"
      /\ UNCHANGED <<lastBrowser, lastCommand, acknowledged, lastClaim, snapshot>>
      /\ \/ UNCHANGED <<browsers, commands>> /\ Answer(m, "BROWSER_NOT_REGISTERED", None)
         \/ browsers' = LiveBrowsers /\ commands' = LiveCommands /\ Answer(m, "COMMAND_NOT_PENDING", None)
         \/ /\ browsers' = LiveBrowsers /\ c \in DOMAIN LiveCommands /\ open
            /\ commands' = [LiveCommands EXCEPT ![c] = claimed] /\ Answer(m, "ok", None)
  BY DEF Claim, pageVars
<1>2. /\ GoodCommands(LiveCommands) /\ GoodBrowsers(LiveBrowsers) /\ Held(LiveBrowsers, LiveCommands)
      /\ Evolves(LiveCommands)
      /\ c \in 1..lastCommand /\ m.about.claim \in 1..lastClaim
  BY <1>1, Expired, LiveEvolves DEF Inductive, Requests
<1>3. lastBrowser' \in lastBrowser..MaxRegistrations
  BY <1>1, ConstantFacts DEF Inductive, Counters
<1>4. CASE UNCHANGED <<browsers, commands>> /\ Answer(m, "BROWSER_NOT_REGISTERED", None)
  <2>1. Server' /\ Evolves(commands') /\ Acknowledgements' /\ StatusIsNotOlder'
    BY <1>1, <1>4, LiveServer
  <2> QED
    BY <1>1, <1>3, <1>4, <2>1, ServedKeeps
<1>5. CASE browsers' = LiveBrowsers /\ commands' = LiveCommands /\ Answer(m, "COMMAND_NOT_PENDING", None)
  <2>1. Server' /\ Evolves(commands') /\ Acknowledgements' /\ StatusIsNotOlder'
    BY <1>1, <1>5, LiveServer
  <2> QED
    BY <1>1, <1>3, <1>5, <2>1, ServedKeeps
<1>6. CASE /\ browsers' = LiveBrowsers /\ c \in DOMAIN LiveCommands /\ open
           /\ commands' = [LiveCommands EXCEPT ![c] = claimed] /\ Answer(m, "ok", None)
  <2>1. /\ claimed \in [browser: 1..lastBrowser, state: State, ready: BOOLEAN,
                        claim: 1..lastClaim \cup {None}, age: 0..Retention]
        /\ claimed.state = "running" /\ claimed.claim = m.about.claim
        /\ claimed.browser = LiveCommands[c].browser
    <3>1. LiveCommands[c] \in [browser: 1..lastBrowser, state: State, ready: BOOLEAN,
                               claim: 1..lastClaim \cup {None}, age: 0..Retention]
      BY <1>2, <1>6 DEF GoodCommands
    <3>2. "running" \in State /\ m.about.claim \in 1..lastClaim \cup {None} /\ 0 \in 0..Retention
      BY <1>2, ConstantFacts DEF State
    <3> QED
      BY <3>1, <3>2
  <2>2. \/ LiveCommands[c].state = "accepted" /\ commands[c].state = "accepted"
        \/ /\ LiveCommands[c].state = "running" /\ commands[c].state = "running"
           /\ commands[c].claim = m.about.claim
    BY <1>6, Expired
  <2> HIDE DEF claimed
  <2>3. /\ DOMAIN commands' = DOMAIN LiveCommands
        /\ commands'[c] = claimed
        /\ \A d \in DOMAIN commands' : d # c => commands'[d] = LiveCommands[d]
    BY <1>6
  <2>4. GoodCommands(commands)'
    BY <1>1, <1>2, <2>1, <2>3 DEF GoodCommands
  <2>5. Held(browsers', commands')
    BY <1>2, <1>6, <2>1, <2>2, <2>3 DEF Held, Unresolved
  <2>6. GoodBrowsers(browsers)' /\ Acknowledgements' /\ StatusIsNotOlder'
    BY <1>1, <1>6, LiveServer
  <2>7. Server'
    BY <2>4, <2>5, <2>6 DEF Server, Held
  <2>8. Evolves(commands')
    <3>1. c \in DOMAIN commands /\ Step(c, commands[c], claimed)
      BY <1>6, <2>1, <2>2, Expired DEF Step
    <3> QED
      BY <1>2, <2>3, <3>1 DEF Evolves
  <2>9. ASSUME m.who # None
        PROVE  executions[c] = 0
    <3>1. /\ m.who = c /\ c \in DOMAIN operations /\ operations[c].stage = "claiming"
          /\ operations[c].claim = m.about.claim
      <4>1. m.who \in {Bridge} \cup Command
        BY <2>9 DEF Inductive, OneAtATime
      <4>2. m.who # Bridge
        BY <1>1 DEF Inductive, WaitersWait, Syncing
      <4> QED
        BY <1>1, <4>1, <4>2 DEF Inductive, WaitersWait
    <3>2. c \in DOMAIN commands
      BY <1>6, Expired
    <3> QED
      BY <2>2, <3>1, <3>2 DEF Inductive, Receipts, ClaimsAreFresh, NotBegun
  <2>10. commands'[c].state \in {"running", "unknown"}
    BY <2>1, <2>3
  <2> QED
    BY <1>1, <1>3, <1>6, <2>6, <2>7, <2>8, <2>9, <2>10, ServedKeeps
<1> QED
  BY <1>1, <1>4, <1>5, <1>6

\* complete: the outcome reported is the page's.
LEMMA CompleteKeeps ==
    ASSUME Inductive, NEW m \in flight, Complete(m), UNCHANGED <<pageVars, restarts, executions, outcomes>>
    PROVE  Inductive'
<1> DEFINE c == m.about.command
           b == m.browser
           done == [Finished(commands[c], m.about.outcome) EXCEPT !.ready = FALSE]
           seen == [Reported(browsers[b], m.about.snapshot) EXCEPT
                      !.age = 0, !.command = IF @ = c THEN None ELSE @]
           top == Max({acknowledged[b], m.about.snapshot})
<1>1. /\ m.kind = "complete"
      /\ UNCHANGED <<lastBrowser, lastCommand, lastClaim, snapshot>>
      /\ \/ /\ UNCHANGED <<browsers, commands, acknowledged>>
            /\ \/ Answer(m, "INVALID_REQUEST", None) \/ Answer(m, "GONE", None)
               \/ Answer(m, "WRONG_CLAIM", None) \/ Answer(m, "ok", None)
         \/ /\ m.about.outcome # "uncoded" /\ b \in DOMAIN browsers /\ c \in DOMAIN commands
            /\ Answer(m, "ok", None)
            /\ commands' = [commands EXCEPT ![c] = done]
            /\ browsers' = [browsers EXCEPT ![b] = seen]
            /\ acknowledged' = [acknowledged EXCEPT ![b] = top]
  BY DEF Complete, pageVars
<1>2. /\ GoodCommands(commands) /\ GoodBrowsers(browsers) /\ Held(browsers, commands)
      /\ c \in 1..lastCommand /\ snapshot \in Nat /\ m.about.snapshot \in 0..snapshot
      /\ m.about.outcome \in Outcome /\ m.about.outcome = outcomes[c]
  BY <1>1, ConstantFacts DEF Inductive, Server, Counters, Requests, Snapshot
<1>3. lastBrowser' \in lastBrowser..MaxRegistrations
  BY <1>1, ConstantFacts DEF Inductive, Counters
<1>4. CASE /\ UNCHANGED <<browsers, commands, acknowledged>>
           /\ \/ Answer(m, "INVALID_REQUEST", None) \/ Answer(m, "GONE", None)
              \/ Answer(m, "WRONG_CLAIM", None) \/ Answer(m, "ok", None)
  <2>1. Server' /\ Evolves(commands') /\ Acknowledgements' /\ StatusIsNotOlder'
    BY <1>1, <1>4, LiveServer
  <2> QED
    BY <1>1, <1>3, <1>4, <2>1, ServedKeeps
<1>5. CASE /\ m.about.outcome # "uncoded" /\ b \in DOMAIN browsers /\ c \in DOMAIN commands
           /\ Answer(m, "ok", None)
           /\ commands' = [commands EXCEPT ![c] = done]
           /\ browsers' = [browsers EXCEPT ![b] = seen]
           /\ acknowledged' = [acknowledged EXCEPT ![b] = top]
  <2>1. /\ done \in [browser: 1..lastBrowser, state: State, ready: BOOLEAN,
                     claim: 1..lastClaim \cup {None}, age: 0..Retention]
        /\ done.state = m.about.outcome /\ done.state \in {"succeeded", "failed"}
        /\ done.claim = commands[c].claim
    <3>1. /\ commands[c] \in [browser: 1..lastBrowser, state: State, ready: BOOLEAN,
                              claim: 1..lastClaim \cup {None}, age: 0..Retention]
          /\ 0 \in 0..Retention
      BY <1>2, <1>5, ConstantFacts DEF GoodCommands
    <3>2. m.about.outcome \in {"succeeded", "failed"} /\ m.about.outcome \in State
      BY <1>2, <1>5 DEF Outcome, State, Terminal
    <3>3. /\ Finished(commands[c], m.about.outcome) \in
               [browser: 1..lastBrowser, state: State, ready: BOOLEAN,
                claim: 1..lastClaim \cup {None}, age: 0..Retention]
          /\ Finished(commands[c], m.about.outcome).state = m.about.outcome
          /\ Finished(commands[c], m.about.outcome).claim = commands[c].claim
      BY <3>1, <3>2 DEF Finished
    <3> QED
      BY <3>2, <3>3
  <2>2. /\ seen \in [age: 0..Retention, command: Command \cup {None}, snapshot: 0..snapshot]
        /\ seen.command = IF browsers[b].command = c THEN None ELSE browsers[b].command
        /\ seen.snapshot \in browsers[b].snapshot..snapshot /\ seen.snapshot >= m.about.snapshot
    <3>1. /\ browsers[b] \in [age: 0..Retention, command: Command \cup {None}, snapshot: 0..snapshot]
          /\ 0 \in 0..Retention
      BY <1>2, <1>5, ConstantFacts DEF GoodBrowsers
    <3> DEFINE reported == Reported(browsers[b], m.about.snapshot)
    <3>2. /\ reported \in [age: 0..Retention, command: Command \cup {None}, snapshot: 0..snapshot]
          /\ reported.command = browsers[b].command
          /\ reported.snapshot \in browsers[b].snapshot..snapshot /\ reported.snapshot >= m.about.snapshot
      BY <1>2, <3>1 DEF Reported
    <3>3. seen = [reported EXCEPT !.age = 0, !.command = IF reported.command = c THEN None ELSE reported.command]
      OBVIOUS
    <3> HIDE DEF seen, reported
    <3> QED
      BY <3>1, <3>2, <3>3
  <2> HIDE DEF done, seen
  <2>3. /\ DOMAIN commands' = DOMAIN commands /\ commands'[c] = done
        /\ \A d \in DOMAIN commands' : d # c => commands'[d] = commands[d]
    BY <1>5
  <2>4. /\ DOMAIN browsers' = DOMAIN browsers /\ browsers'[b] = seen
        /\ \A d \in DOMAIN browsers' : d # b => browsers'[d] = browsers[d]
    BY <1>5
  <2>5. GoodCommands(commands)'
    BY <1>1, <1>2, <2>1, <2>3 DEF GoodCommands
  <2>6. GoodBrowsers(browsers)'
    BY <1>1, <1>2, <2>2, <2>4 DEF GoodBrowsers
  <2>7. Held(browsers', commands')
    BY <1>2, <2>1, <2>2, <2>3, <2>4 DEF Held, Unresolved
  <2>8. Server'
    BY <2>5, <2>6, <2>7 DEF Server, Held
  <2>9. Evolves(commands')
    <3>1. Step(c, commands[c], done)
      BY <1>2, <2>1 DEF Step
    <3>2. Evolves(commands)
      BY LiveEvolves
    <3> QED
      BY <1>5, <2>3, <3>1, <3>2 DEF Evolves
  <2>10. b \in Browser /\ acknowledged \in [Browser -> 0..snapshot]
    BY <1>2, <1>5, ConstantFacts DEF GoodBrowsers, Inductive, Counters, Browser, Acknowledgements
  <2>11. top \in {acknowledged[b], m.about.snapshot}
    <3>1. acknowledged[b] \in Nat /\ m.about.snapshot \in Nat
      BY <1>2, <2>10
    <3> QED
      BY <3>1, MaxOfTwo
  <2> HIDE DEF top
  <2>12. b <= lastBrowser
    BY <1>2, <1>5, ConstantFacts DEF GoodBrowsers, Inductive, Counters
  <2>13. Acknowledgements'
    <3>1. acknowledged' \in [Browser -> 0..snapshot]
      BY <1>2, <1>5, <2>10, <2>11
    <3>2. \A d \in Browser : d > lastBrowser => acknowledged'[d] = 0
      BY <1>5, <2>10, <2>12, ConstantFacts DEF Inductive, Counters, Acknowledgements, Browser
    <3> QED
      BY <1>1, <3>1, <3>2 DEF Acknowledgements
  <2>14. StatusIsNotOlder'
    <3>1. browsers[b].snapshot >= acknowledged[b] /\ browsers[b].snapshot \in 0..snapshot
      BY <1>2, <1>5 DEF Inductive, StatusIsNotOlder, GoodBrowsers
    <3>2. seen.snapshot >= acknowledged'[b]
      BY <1>2, <1>5, <2>2, <2>10, <2>11, <3>1, <2>12
    <3>3. \A d \in DOMAIN browsers' : d # b => browsers'[d].snapshot >= acknowledged'[d]
      BY <1>5, <2>4, <2>10 DEF Inductive, StatusIsNotOlder
    <3> QED
      BY <2>4, <3>2, <3>3 DEF StatusIsNotOlder
  <2> QED
    BY <1>1, <1>3, <1>5, <2>8, <2>9, <2>13, <2>14, ServedKeeps
<1> QED
  BY <1>1, <1>4, <1>5

LEMMA UnregisterKeeps ==
    ASSUME Inductive, NEW m \in flight, Unregister(m), UNCHANGED <<pageVars, restarts, executions, outcomes>>
    PROVE  Inductive'
<1> DEFINE b == m.browser
           Left(x) == IF x.browser = b /\ x.state \notin Terminal
                        THEN Finished(x, IF x.state = "running" THEN "unknown" ELSE "failed") ELSE x
<1>1. /\ m.kind = "unregister" /\ Answer(m, "ok", None)
      /\ UNCHANGED <<lastBrowser, lastCommand, acknowledged, lastClaim, snapshot>>
      /\ \/ UNCHANGED <<browsers, commands>>
         \/ /\ browsers' = Without(LiveBrowsers, b)
            /\ commands' = [c \in DOMAIN LiveCommands |-> Left(LiveCommands[c])]
  BY DEF Unregister, pageVars
<1>2. /\ GoodCommands(LiveCommands) /\ GoodBrowsers(LiveBrowsers) /\ Held(LiveBrowsers, LiveCommands)
      /\ Evolves(LiveCommands) /\ lastBrowser \in Nat /\ snapshot \in Nat
  BY Expired, LiveEvolves, ConstantFacts DEF Inductive, Counters, Snapshot
<1>3. lastBrowser' \in lastBrowser..MaxRegistrations
  BY <1>1, ConstantFacts DEF Inductive, Counters
<1>4. CASE UNCHANGED <<browsers, commands>>
  <2>1. Server' /\ Evolves(commands') /\ Acknowledgements' /\ StatusIsNotOlder'
    BY <1>1, <1>4, LiveServer
  <2> QED
    BY <1>1, <1>3, <2>1, ServedKeeps
<1>5. CASE /\ browsers' = Without(LiveBrowsers, b)
           /\ commands' = [c \in DOMAIN LiveCommands |-> Left(LiveCommands[c])]
  <2>1. /\ DOMAIN browsers' \subseteq DOMAIN LiveBrowsers /\ b \notin DOMAIN browsers'
        /\ \A d \in DOMAIN browsers' : browsers'[d] = LiveBrowsers[d]
    BY <1>5 DEF Without, Restrict
  <2>2. GoodBrowsers(browsers)'
    <3>1. IsFiniteSet(DOMAIN LiveBrowsers) /\ Cardinality(DOMAIN LiveBrowsers) \in Nat
          /\ Cardinality(DOMAIN browsers') \in Nat
      BY <1>2, <2>1, IdsFinite DEF GoodBrowsers
    <3>2. Cardinality(DOMAIN browsers') <= Cardinality(DOMAIN LiveBrowsers)
      BY <2>1, <3>1, FS_Subset
    <3>3. Cardinality(DOMAIN browsers') <= MaxBrowsers
      BY <1>2, <3>1, <3>2, ConstantFacts DEF GoodBrowsers
    <3> QED
      BY <1>1, <1>2, <2>1, <3>3 DEF GoodBrowsers
  <2>3. ASSUME NEW c \in DOMAIN LiveCommands
        PROVE  /\ Left(LiveCommands[c]) \in [browser: 1..lastBrowser, state: State, ready: BOOLEAN,
                                             claim: 1..lastClaim \cup {None}, age: 0..Retention]
               /\ Left(LiveCommands[c]).claim = LiveCommands[c].claim
               /\ Left(LiveCommands[c]).browser = LiveCommands[c].browser
               /\ \/ Left(LiveCommands[c]).state = LiveCommands[c].state
                  \/ /\ LiveCommands[c].browser = b
                     /\ \/ LiveCommands[c].state = "running" /\ Left(LiveCommands[c]).state = "unknown"
                        \/ LiveCommands[c].state = "accepted" /\ Left(LiveCommands[c]).state = "failed"
    <3>1. 0 \in 0..Retention
      BY ConstantFacts
    <3>2. LiveCommands[c] \in [browser: 1..lastBrowser, state: State, ready: BOOLEAN,
                               claim: 1..lastClaim \cup {None}, age: 0..Retention]
      BY <1>2 DEF GoodCommands
    <3> QED
      BY <3>1, <3>2 DEF Finished, State, Terminal
  <2>4. DOMAIN commands' = DOMAIN LiveCommands /\ \A c \in DOMAIN commands' : commands'[c] = Left(LiveCommands[c])
    BY <1>5
  <2> HIDE DEF Left
  <2>5. GoodCommands(commands)'
    BY <1>1, <1>2, <2>3, <2>4 DEF GoodCommands
  <2>6. Held(browsers', commands')
    BY <1>2, <2>1, <2>3, <2>4 DEF Held, Unresolved
  <2>7. Server'
    BY <2>2, <2>5, <2>6 DEF Server, Held
  <2>8. Evolves(commands')
    <3>1. ASSUME NEW c \in DOMAIN commands'
          PROVE  c \in DOMAIN commands /\ Step(c, commands[c], commands'[c])
      <4>1. /\ c \in DOMAIN commands /\ Step(c, commands[c], LiveCommands[c])
            /\ LiveCommands[c].state = "accepted" => commands[c].state = "accepted"
            /\ LiveCommands[c].state = "running" =>
                 commands[c].state = "running" /\ LiveCommands[c].claim = commands[c].claim
        BY <2>4, <3>1, Expired
      <4> QED
        BY <2>3, <2>4, <3>1, <4>1 DEF Step
    <3> QED
      BY <3>1 DEF Evolves
  <2>9. \A d \in DOMAIN browsers' :
           d \in DOMAIN browsers /\ browsers'[d].snapshot \in browsers[d].snapshot..snapshot
    BY <1>2, <2>1, Expired DEF GoodBrowsers
  <2>10. Acknowledgements' /\ StatusIsNotOlder'
    BY <1>1, <2>9, StatusKeeps
  <2> QED
    BY <1>1, <1>3, <2>7, <2>8, <2>10, ServedKeeps
<1> QED
  BY <1>1, <1>4, <1>5

LEMMA ServeKeeps ==
    ASSUME Inductive, NEW m \in flight, Serve(m)
    PROVE  Inductive'
<1>1. UNCHANGED <<pageVars, restarts, executions, outcomes>>
  BY DEF Serve
<1>2. Register(m) \/ Heartbeat(m) \/ Claim(m) \/ Complete(m) \/ Unregister(m)
  BY DEF Serve
<1> QED
  BY <1>1, <1>2, RegisterKeeps, HeartbeatKeeps, ClaimKeeps, CompleteKeeps, UnregisterKeeps

(* The page *)

\* A step of the page: the service is as it was, and what the page has executed
\* only grows.
LEMMA PageKeeps ==
    ASSUME Inductive, UNCHANGED <<serverVars, restarts, acknowledged>>,
           timeouts' \in 0..MaxTimeouts, lastClaim' \in Nat, lastClaim <= lastClaim',
           snapshot' \in snapshot..MaxSubmissions,
           Ghosts', Receipts(commands)', Operations', ClaimsAreFresh(commands)',
           GrantsAreGood(commands)', Syncing', Detached', OneAtATime', WaitersWait', Requests',
           Values', Taken'
    PROVE  Inductive'
<1> USE DEF Inductive
<1>1. /\ UNCHANGED <<browsers, commands, lastBrowser, lastCommand, restarts, acknowledged>>
      /\ lastClaim \in Nat /\ snapshot \in Nat /\ MaxSubmissions \in Nat
  BY ConstantFacts DEF serverVars, Counters, Snapshot
<1>2. Counters'
  BY <1>1 DEF Counters, Snapshot
<1>3. 1..lastClaim \subseteq 1..lastClaim' /\ 0..snapshot \subseteq 0..snapshot'
  BY <1>1
<1>4. Server'
  <2>1. GoodBrowsers(browsers)'
    BY <1>1, <1>3 DEF Server, GoodBrowsers
  <2>2. GoodCommands(commands)'
    BY <1>1, <1>3 DEF Server, GoodCommands
  <2>3. Held(browsers, commands)'
    BY <1>1 DEF Server, Held
  <2> QED
    BY <2>1, <2>2, <2>3 DEF Server
<1>5. Acknowledgements' /\ StatusIsNotOlder'
  BY <1>1, <1>3 DEF Acknowledgements, StatusIsNotOlder
<1> QED
  BY <1>1, <1>2, <1>4, <1>5

\* A request that somebody in the page sends, and waits for, in a step.
Sendable(n) ==
    /\ n.who \in {Bridge} \cup Command /\ n = Request(n.who, n.kind, n.browser, n.about)
    /\ n.who = Bridge => n.kind = syncing'.stage
    /\ n.who \in Command =>
         /\ n.who \in DOMAIN operations'
         /\ \/ /\ operations'[n.who].stage = "claiming" /\ n.kind = "claim"
               /\ n.about.command = n.who /\ n.about.claim = operations'[n.who].claim
            \/ operations'[n.who].stage = "completing" /\ n.kind = "complete"
    /\ n.kind \in {"register", "heartbeat", "claim", "complete"}
    /\ n.kind \in {"register", "heartbeat", "complete"} => n.about.snapshot \in 0..snapshot'
    /\ n.kind \in {"claim", "complete"} =>
         n.about.command \in 1..lastCommand /\ n.about.claim \in 1..lastClaim'
    /\ n.kind = "complete" => n.about.outcome \in Outcome /\ n.about.outcome = outcomes'[n.about.command]

LEMMA SendKeeps ==
    ASSUME Inductive, NEW n, Send(n), Sendable(n),
           UNCHANGED <<commands, lastCommand, lastClaim, executions>>,
           snapshot' \in Nat, snapshot <= snapshot',
           \A c \in Command : outcomes'[c] = outcomes[c] \/ outcomes[c] = None,
           \/ n.who = Bridge /\ syncing.stage = "idle"
           \/ n.who \in DOMAIN operations /\ operations[n.who].stage = "executing",
           n.who # Bridge => syncing' = syncing,
           DOMAIN operations' = DOMAIN operations,
           \A c \in DOMAIN operations : c # n.who => operations'[c] = operations[c]
    PROVE  OneAtATime' /\ WaitersWait' /\ Requests' /\ Values' /\ GrantsAreGood(commands)'
<1> USE DEF Inductive
<1>1. /\ flight' = flight \cup {n} /\ replies' = replies
      /\ snapshot \in Nat
  BY ConstantFacts DEF Send, Counters, Snapshot
<1>2. /\ \A m \in flight : m.who # n.who
      /\ \A r \in replies : r.who # n.who
  <2>1. DOMAIN operations \subseteq Command
    BY ConstantFacts DEF Operations, Counters, Command
  <2>2. CASE n.who = Bridge /\ syncing.stage = "idle"
    BY <2>2 DEF WaitersWait, Requests
  <2>3. CASE n.who \in DOMAIN operations /\ operations[n.who].stage = "executing"
    BY <2>1, <2>3 DEF WaitersWait
  <2> QED
    BY <2>2, <2>3
<1>3. OneAtATime'
  BY <1>1, <1>2, ConstantFacts DEF OneAtATime, Sendable
<1>4. n.who \in {Bridge} \cup Command /\ n.who # None
  BY ConstantFacts DEF Sendable
<1>5. WaitersWait'
  <2>1. ASSUME NEW m \in flight
        PROVE  /\ m.who = Bridge => m.kind = syncing'.stage
               /\ m.who \in Command =>
                    /\ m.who \in DOMAIN operations'
                    /\ \/ /\ operations'[m.who].stage = "claiming" /\ m.kind = "claim"
                          /\ m.about.command = m.who /\ m.about.claim = operations'[m.who].claim
                       \/ operations'[m.who].stage = "completing" /\ m.kind = "complete"
    BY <1>2 DEF WaitersWait
  <2>2. ASSUME NEW r \in replies
        PROVE  /\ r.who = Bridge => syncing'.stage # "idle"
               /\ r.who \in Command =>
                    r.who \in DOMAIN operations' /\ operations'[r.who].stage \in {"claiming", "completing"}
    BY <1>2 DEF WaitersWait
  <2> QED
    BY <1>1, <2>1, <2>2 DEF WaitersWait, Sendable
<1>6. Requests'
  <2>1. ASSUME NEW m \in flight, m.kind = "complete"
        PROVE  m.about.outcome = outcomes'[m.about.command]
    BY <2>1, ConstantFacts DEF Requests, Counters, Command
  <2> QED
    BY <1>1, <2>1 DEF Requests, Sendable
<1>7. Values'
  BY <1>1, <1>2 DEF Values
<1>8. GrantsAreGood(commands)'
  BY <1>1, <1>2 DEF GrantsAreGood
<1> QED
  BY <1>3, <1>5, <1>6, <1>7, <1>8

LEMMA ReceiveKeeps ==
    ASSUME Inductive, NEW r \in replies, NEW ms, Receive(r, ms),
           UNCHANGED <<commands, lastCommand, snapshot, outcomes>>,
           lastClaim' \in Nat, lastClaim <= lastClaim',
           r.who # Bridge => syncing' = syncing, DOMAIN operations' \subseteq Command,
           \A c \in DOMAIN operations \cap DOMAIN operations' :
              operations[c].stage \in {"claiming", "completing"} /\ c # r.who =>
                 operations'[c] = operations[c],
           \A c \in Command : c # r.who => executions'[c] = executions[c],
           \A m, n \in ms : m = n,
           \A n \in ms :
              /\ Sendable(n)
              /\ \/ n.who = r.who /\ n.who = Bridge
                 \/ /\ n.who \in Command
                    /\ n.who \in DOMAIN operations => operations[n.who].stage \notin {"claiming", "completing"}
    PROVE  OneAtATime' /\ WaitersWait' /\ Requests' /\ Values' /\ GrantsAreGood(commands)'
<1> USE DEF Inductive
<1> DEFINE gone == DOMAIN operations \ DOMAIN operations'
           Let(m) == [m EXCEPT !.who = IF m.who \in gone THEN None ELSE m.who]
<1>1. /\ flight' = {Let(m) : m \in flight} \cup ms
      /\ replies' = {q \in replies : q.who \notin gone} \ {r}
      /\ lastClaim \in Nat
  BY DEF Receive, Counters
<1>2. gone \subseteq Command /\ None \notin Command /\ Bridge \notin gone /\ None # Bridge
  BY ConstantFacts DEF Operations, Counters, Command
<1>3. ASSUME NEW m \in flight
      PROVE  /\ Let(m) = Request(Let(m).who, m.kind, m.browser, m.about)
             /\ Let(m).kind = m.kind /\ Let(m).browser = m.browser /\ Let(m).about = m.about
             /\ Let(m).who = IF m.who \in gone THEN None ELSE m.who
  <2>1. m = Request(m.who, m.kind, m.browser, m.about)
    BY DEF OneAtATime
  <2>2. m = [who |-> m.who, kind |-> m.kind, browser |-> m.browser, about |-> m.about]
    BY <2>1 DEF Request
  <2> QED
    BY <2>2 DEF Request
<1> HIDE DEF Let
<1>4. \A n \in ms :
         /\ n.who \in {Bridge} \cup Command /\ n.who # None /\ n.who \notin gone
         /\ \A m \in flight : m.who # n.who
         /\ \A q \in replies \ {r} : q.who # n.who
  <2> SUFFICES ASSUME NEW n \in ms
               PROVE  /\ n.who \in {Bridge} \cup Command /\ n.who # None /\ n.who \notin gone
                      /\ \A m \in flight : m.who # n.who
                      /\ \A q \in replies \ {r} : q.who # n.who
    OBVIOUS
  <2>1. n.who \in {Bridge} \cup Command /\ n.who # None /\ n.who \notin gone
    BY <1>2 DEF Sendable
  <2>2. CASE n.who = r.who
    BY <2>1, <2>2 DEF OneAtATime
  <2>3. CASE /\ n.who \in Command
             /\ n.who \in DOMAIN operations => operations[n.who].stage \notin {"claiming", "completing"}
    BY <2>1, <2>3 DEF WaitersWait
  <2> QED
    BY <2>1, <2>2, <2>3
<1>5. /\ \A m \in flight' : m \in ms \/ \E n \in flight : m = Let(n)
      /\ \A q \in replies' : q \in replies /\ q # r /\ q.who \notin gone /\ q.who # r.who
  BY <1>1 DEF OneAtATime
<1>6. \A m \in flight : m.who # r.who
  BY DEF OneAtATime
<1>7. OneAtATime'
  <2>1. \A m \in flight' : m.who \in {None, Bridge} \cup Command /\ m = Request(m.who, m.kind, m.browser, m.about)
    BY <1>3, <1>4, <1>5 DEF OneAtATime, Sendable
  <2>2. \A q \in replies' : q.who \in {Bridge} \cup Command
    BY <1>5 DEF OneAtATime
  <2>3. ASSUME NEW m \in flight', NEW n \in flight', m.who = n.who, m.who # None
        PROVE  m = n
    <3>1. CASE m \in ms
      BY <1>3, <1>4, <1>5, <2>3, <3>1
    <3>2. CASE \E k \in flight : m = Let(k)
      BY <1>3, <1>4, <1>5, <2>3, <3>2 DEF OneAtATime
    <3> QED
      BY <1>5, <3>1, <3>2
  <2>4. \A p, q \in replies' : p.who = q.who => p = q
    BY <1>5 DEF OneAtATime
  <2>5. ASSUME NEW m \in flight', NEW q \in replies'
        PROVE  m.who # q.who
    BY <1>2, <1>3, <1>4, <1>5, <2>2 DEF OneAtATime
  <2> QED
    BY <2>1, <2>2, <2>3, <2>4, <2>5 DEF OneAtATime
<1>8. WaitersWait'
  <2>1. ASSUME NEW m \in flight
        PROVE  /\ Let(m).who = Bridge => Let(m).kind = syncing'.stage
               /\ Let(m).who \in Command =>
                    /\ Let(m).who \in DOMAIN operations'
                    /\ \/ /\ operations'[Let(m).who].stage = "claiming" /\ Let(m).kind = "claim"
                          /\ Let(m).about.command = Let(m).who
                          /\ Let(m).about.claim = operations'[Let(m).who].claim
                       \/ operations'[Let(m).who].stage = "completing" /\ Let(m).kind = "complete"
    BY <1>2, <1>3, <1>6 DEF WaitersWait
  <2>2. ASSUME NEW q \in replies'
        PROVE  /\ q.who = Bridge => syncing'.stage # "idle"
               /\ q.who \in Command =>
                    q.who \in DOMAIN operations' /\ operations'[q.who].stage \in {"claiming", "completing"}
    <3>1. q \in replies /\ q.who \notin gone /\ q.who # r.who
      BY <1>5
    <3> QED
      BY <3>1 DEF WaitersWait
  <2>3. \A n \in ms :
          /\ n.who = Bridge => n.kind = syncing'.stage
          /\ n.who \in Command =>
               /\ n.who \in DOMAIN operations'
               /\ \/ /\ operations'[n.who].stage = "claiming" /\ n.kind = "claim"
                     /\ n.about.command = n.who /\ n.about.claim = operations'[n.who].claim
                  \/ operations'[n.who].stage = "completing" /\ n.kind = "complete"
    BY DEF Sendable
  <2> QED
    BY <1>5, <2>1, <2>2, <2>3 DEF WaitersWait
<1>9. Requests'
  BY <1>1, <1>3, <1>5 DEF Requests, Sendable
<1>10. Values'
  BY <1>5 DEF Values
<1>11. GrantsAreGood(commands)'
  <2> SUFFICES ASSUME NEW q \in replies', q.who \in DOMAIN operations',
                      operations'[q.who].stage = "claiming", q.code = "ok"
               PROVE  /\ executions'[q.who] = 0
                      /\ q.who \in DOMAIN commands => commands[q.who].state \in {"running", "unknown"}
    BY DEF GrantsAreGood
  <2>1. q \in replies /\ q.who # r.who /\ q.who \in {Bridge} \cup Command
    BY <1>5 DEF OneAtATime
  <2>2. CASE q.who \in Command
    <3>1. q.who \in DOMAIN operations /\ operations[q.who].stage \in {"claiming", "completing"}
      BY <2>1, <2>2 DEF WaitersWait
    <3>2. operations'[q.who] = operations[q.who] /\ executions'[q.who] = executions[q.who]
      BY <2>1, <2>2, <3>1
    <3> QED
      BY <2>1, <3>1, <3>2 DEF GrantsAreGood
  <2>3. CASE q.who = Bridge
    BY <2>3, ConstantFacts
  <2> QED
    BY <2>1, <2>2, <2>3
<1> QED
  BY <1>7, <1>8, <1>9, <1>10, <1>11

\* The commands that are being executed and those that have begun.
LEMMA UnderwayFacts ==
    ASSUME Inductive
    PROVE  /\ Underway \subseteq Begun /\ IsFiniteSet(Begun) /\ IsFiniteSet(Underway)
           /\ Cardinality(Begun) \in Nat /\ Cardinality(Underway) \in Nat
           /\ Cardinality(Begun) <= MaxSubmissions
           /\ snapshot \in Nat /\ MaxSubmissions \in Nat
           /\ DOMAIN operations \subseteq Command /\ 1..lastCommand \subseteq Command
           /\ lastCommand \in Nat
<1>1. /\ DOMAIN operations \subseteq Command /\ 1..lastCommand \subseteq Command
      /\ snapshot \in Nat /\ MaxSubmissions \in Nat /\ lastCommand \in Nat
  BY ConstantFacts DEF Inductive, Operations, Counters, Command, Snapshot
<1>2. Underway \subseteq Begun
  BY <1>1 DEF Inductive, Operations, Detached, Underway, Begun
<1>3. IsFiniteSet(Begun) /\ Cardinality(Begun) \in Nat /\ Cardinality(Begun) <= MaxSubmissions
  BY <1>1, IdsFinite DEF Begun, Command
<1>4. IsFiniteSet(Underway) /\ Cardinality(Underway) \in Nat
  BY <1>2, <1>3, FS_Subset, FS_CardinalityType
<1> QED
  BY <1>1, <1>2, <1>3, <1>4

\* Nothing begins, and what is under way may be forgotten.
LEMMA TakenKeeps ==
    ASSUME Inductive, UNCHANGED <<executions, snapshot>>, Underway' \subseteq Underway
    PROVE  Taken'
<1>1. Begun' = Begun
  BY DEF Begun
<1>2. Cardinality(Underway') <= Cardinality(Underway) /\ Cardinality(Underway') \in Nat
  BY UnderwayFacts, FS_Subset, FS_CardinalityType
<1> HIDE DEF Underway, Begun
<1> QED
  BY <1>1, <1>2, UnderwayFacts DEF Inductive, Taken

\* One that was under way is over.
LEMMA OneLessUnderway ==
    ASSUME Inductive, NEW c \in Underway, Underway' = Underway \ {c}, Begun' = Begun,
           snapshot' = snapshot + 1
    PROVE  Taken' /\ snapshot' \in snapshot..MaxSubmissions
<1> HIDE DEF Underway, Begun
<1>1. Cardinality(Underway') = Cardinality(Underway) - 1 /\ Cardinality(Underway') \in Nat
  BY UnderwayFacts, FS_RemoveElement, FS_CardinalityType
<1> QED
  BY <1>1, UnderwayFacts DEF Inductive, Taken

LEMMA SyncKeeps ==
    ASSUME Inductive, Sync
    PROVE  Inductive'
<1> USE DEF Inductive
<1> DEFINE registering == Request(Bridge, "register", None, [snapshot |-> snapshot])
<1>1. /\ UNCHANGED <<serverVars, registration, operations, lastClaim, detached, snapshot, restarts,
                     executions, outcomes, acknowledged>>
      /\ UNCHANGED <<commands, lastCommand, timeouts, replies>>
      /\ syncing = Resting
      /\ \/ syncing' = [Resting EXCEPT !.stage = "register"] /\ Send(registering)
         \/ syncing' = [Resting EXCEPT !.stage = "heartbeat"] /\ Send(HeartbeatRequest(registration))
  BY DEF Sync, serverVars, ghostVars, Send
<1>2. snapshot \in Nat /\ DOMAIN operations \subseteq Command
  BY UnderwayFacts
<1>3. PICK n : /\ Send(n) /\ n.who = Bridge /\ Sendable(n)
  <2>1. CASE syncing' = [Resting EXCEPT !.stage = "register"] /\ Send(registering)
    <3>1. Sendable(registering)
      BY <1>1, <1>2, <2>1, ConstantFacts DEF Sendable, Request, Resting
    <3>2. registering.who = Bridge
      BY DEF Request
    <3> QED
      BY <2>1, <3>1, <3>2
  <2>2. CASE syncing' = [Resting EXCEPT !.stage = "heartbeat"] /\ Send(HeartbeatRequest(registration))
    <3>1. Sendable(HeartbeatRequest(registration))
      BY <1>1, <1>2, <2>2, ConstantFacts DEF Sendable, HeartbeatRequest, Request, Resting
    <3>2. HeartbeatRequest(registration).who = Bridge
      BY DEF HeartbeatRequest, Request
    <3> QED
      BY <2>2, <3>1, <3>2
  <2> QED
    BY <1>1, <2>1, <2>2
<1>4. syncing.stage = "idle"
  BY <1>1 DEF Resting
<1>5. OneAtATime' /\ WaitersWait' /\ Requests' /\ Values' /\ GrantsAreGood(commands)'
  BY <1>1, <1>2, <1>3, <1>4, SendKeeps
<1>6. Syncing'
  BY <1>1 DEF Syncing, Resting
<1>7. Ghosts' /\ Receipts(commands)' /\ Operations' /\ ClaimsAreFresh(commands)' /\ Detached'
  BY <1>1 DEF Ghosts, Receipts, Operations, ClaimsAreFresh, Detached
<1>8. Taken'
  <2>1. Underway' = Underway
    BY <1>1 DEF Underway
  <2> QED
    BY <1>1, <2>1, TakenKeeps
<1>9. /\ timeouts' \in 0..MaxTimeouts /\ lastClaim' \in Nat /\ lastClaim <= lastClaim'
      /\ snapshot' \in snapshot..MaxSubmissions
  BY <1>1, ConstantFacts DEF Counters, Snapshot
<1> QED
  BY <1>1, <1>5, <1>6, <1>7, <1>8, <1>9, PageKeeps

\* _sync sends its next request, or rests.
LEMMA SyncGoesOn ==
    ASSUME Inductive, NEW r \in replies, r.who = Bridge, NEW ms, Receive(r, ms),
           UNCHANGED <<serverVars, operations, lastClaim, detached, snapshot, restarts, ghostVars>>,
           Syncing', \A m, n \in ms : m = n, \A n \in ms : Sendable(n) /\ n.who = Bridge
    PROVE  Inductive'
<1> USE DEF Inductive
<1>1. UNCHANGED <<commands, lastCommand, executions, outcomes, acknowledged, timeouts>>
  BY DEF serverVars, ghostVars, Receive
<1>2. lastClaim \in Nat /\ DOMAIN operations \subseteq Command
  BY UnderwayFacts DEF Counters
<1>3. OneAtATime' /\ WaitersWait' /\ Requests' /\ Values' /\ GrantsAreGood(commands)'
  BY <1>1, <1>2, ReceiveKeeps
<1>4. Ghosts' /\ Receipts(commands)' /\ Operations' /\ ClaimsAreFresh(commands)' /\ Detached'
  BY <1>1 DEF Ghosts, Receipts, Operations, ClaimsAreFresh, Detached
<1>5. Taken'
  <2>1. Underway' = Underway
    BY DEF Underway
  <2> QED
    BY <1>1, <2>1, TakenKeeps
<1>6. /\ timeouts' \in 0..MaxTimeouts /\ lastClaim' \in Nat /\ lastClaim <= lastClaim'
      /\ snapshot' \in snapshot..MaxSubmissions
  BY <1>1, ConstantFacts DEF Counters, Snapshot
<1> QED
  BY <1>1, <1>3, <1>4, <1>5, <1>6, PageKeeps

LEMMA RegisteredKeeps ==
    ASSUME Inductive, NEW r \in replies, Registered(r)
    PROVE  Inductive'
<1> USE DEF Inductive
<1>1. /\ UNCHANGED <<serverVars, operations, lastClaim, detached, snapshot, restarts, ghostVars>>
      /\ lastCommand' = lastCommand
      /\ r.who = Bridge /\ syncing.stage = "register"
      /\ \/ /\ r.code = "ok" /\ registration' = r.value
            /\ syncing' = [Resting EXCEPT !.stage = "heartbeat"]
            /\ Receive(r, {HeartbeatRequest(r.value)})
         \/ syncing' = Resting /\ Receive(r, {}) /\ registration' = registration
  BY DEF Registered, serverVars
<1>2. CASE /\ r.code = "ok" /\ registration' = r.value
           /\ syncing' = [Resting EXCEPT !.stage = "heartbeat"]
           /\ Receive(r, {HeartbeatRequest(r.value)})
  <2>1. r.value \in Browser
    BY <1>1, <1>2 DEF Values
  <2>2. Syncing'
    BY <1>2, <2>1 DEF Syncing, Resting
  <2>3. Sendable(HeartbeatRequest(r.value)) /\ HeartbeatRequest(r.value).who = Bridge
    <3>1. snapshot \in Nat
      BY UnderwayFacts
    <3> QED
      BY <1>1, <1>2, <3>1, ConstantFacts DEF Sendable, HeartbeatRequest, Request, Resting
  <2> QED
    BY <1>1, <1>2, <2>2, <2>3, SyncGoesOn
<1>3. CASE syncing' = Resting /\ Receive(r, {}) /\ registration' = registration
  <2>1. Syncing'
    BY <1>3 DEF Syncing, Resting
  <2> QED
    BY <1>1, <1>3, <2>1, SyncGoesOn
<1> QED
  BY <1>1, <1>2, <1>3

\* _handle takes up a command it is not working on.
LEMMA HandleKeeps ==
    ASSUME Inductive, NEW r \in replies, r.who = Bridge,
           NEW ops, DOMAIN ops \subseteq DOMAIN operations, \A d \in DOMAIN ops : ops[d] = operations[d],
           NEW c \in 1..lastCommand \cup {None}, c \in DOMAIN operations => c \in DOMAIN ops,
           Handle(r, c, ops),
           UNCHANGED <<serverVars, registration, detached, snapshot, restarts, ghostVars>>
    PROVE  Inductive'
<1> USE DEF Inductive
<1> DEFINE idle == [claim |-> lastClaim + 1, stage |-> "idle", snapshot |-> 0, outcome |-> None]
           op == IF c \in DOMAIN ops THEN ops[c] ELSE idle
           claiming == [op EXCEPT !.stage = "claiming"]
           busy == c = None \/ (c \in DOMAIN ops /\ (Working(ops[c]) \/ ops[c].outcome # None))
<1>1. /\ syncing' = Resting
      /\ UNCHANGED <<commands, lastCommand, executions, outcomes, acknowledged>>
      /\ \/ operations' = ops /\ Receive(r, {}) /\ lastClaim' = lastClaim
         \/ /\ ~busy /\ operations' = With(ops, c, claiming)
            /\ lastClaim' = IF c \in DOMAIN ops THEN lastClaim ELSE lastClaim + 1
            /\ Receive(r, {ClaimRequest(c, op.claim)})
  BY DEF Handle, serverVars, ghostVars
<1>2. lastClaim \in Nat /\ snapshot \in Nat /\ DOMAIN operations \subseteq Command /\ 1..lastCommand \subseteq Command
      /\ None \notin Command
  BY UnderwayFacts, ConstantFacts DEF Counters
<1>3. timeouts' \in 0..MaxTimeouts /\ snapshot' \in snapshot..MaxSubmissions
  BY <1>1, ConstantFacts DEF Counters, Snapshot, Receive
<1>4. Syncing' /\ Ghosts' /\ Receipts(commands)'
  BY <1>1 DEF Syncing, Resting, Ghosts, Receipts
<1>5. CASE operations' = ops /\ Receive(r, {}) /\ lastClaim' = lastClaim
  <2>1. OneAtATime' /\ WaitersWait' /\ Requests' /\ Values' /\ GrantsAreGood(commands)'
    BY <1>1, <1>2, <1>5, ReceiveKeeps
  <2>2. Operations' /\ ClaimsAreFresh(commands)' /\ Detached'
    BY <1>1, <1>5 DEF Operations, ClaimsAreFresh, Detached
  <2>3. Taken'
    <3>1. Underway' \subseteq Underway
      BY <1>5 DEF Underway
    <3> QED
      BY <1>1, <3>1, TakenKeeps
  <2> QED
    BY <1>1, <1>2, <1>3, <1>4, <1>5, <2>1, <2>2, <2>3, PageKeeps
<1>6. CASE /\ ~busy /\ operations' = With(ops, c, claiming)
           /\ lastClaim' = IF c \in DOMAIN ops THEN lastClaim ELSE lastClaim + 1
           /\ Receive(r, {ClaimRequest(c, op.claim)})
  <2>1. c \in 1..lastCommand /\ c \in Command /\ lastClaim' \in Nat /\ lastClaim <= lastClaim'
    BY <1>2, <1>6
  <2>2. c \in DOMAIN ops => ops[c].stage = "idle" /\ ops[c].outcome = None
    BY <1>6 DEF Working
  <2>3. op \in [claim: 1..lastClaim', stage: {"idle", "claiming", "executing", "completing"},
                snapshot: 0..snapshot, outcome: Outcome \cup {None}]
    <3>1. CASE c \in DOMAIN ops
      BY <1>2, <1>6, <2>1, <3>1 DEF Operations
    <3>2. CASE c \notin DOMAIN ops
      BY <1>2, <1>6, <3>2
    <3> QED
      BY <3>1, <3>2
  <2>4. op.outcome = None
    BY <2>2
  <2>5. /\ claiming \in [claim: 1..lastClaim', stage: {"idle", "claiming", "executing", "completing"},
                         snapshot: 0..snapshot, outcome: Outcome \cup {None}]
        /\ claiming.stage = "claiming" /\ claiming.outcome = None /\ claiming.claim = op.claim
    <3> HIDE DEF op
    <3> QED
      BY <2>3, <2>4
  <2>6. /\ DOMAIN operations' = DOMAIN ops \cup {c}
        /\ operations'[c] = claiming
        /\ \A d \in DOMAIN ops : d # c => operations'[d] = operations[d]
    BY <1>6 DEF With
  <2>7. \/ c \in DOMAIN operations /\ operations[c] = op /\ operations[c].stage = "idle"
        \/ c \notin DOMAIN operations /\ op.claim = lastClaim + 1
    BY <2>2
  <2> HIDE DEF busy, claiming, op
  <2>8. Sendable(ClaimRequest(c, op.claim)) /\ ClaimRequest(c, op.claim).who = c
    BY <1>1, <1>2, <2>1, <2>3, <2>5, <2>6, ConstantFacts DEF Sendable, ClaimRequest, Request
  <2>9. OneAtATime' /\ WaitersWait' /\ Requests' /\ Values' /\ GrantsAreGood(commands)'
    <3>1. \A d \in DOMAIN operations \cap DOMAIN operations' :
            operations[d].stage \in {"claiming", "completing"} /\ d # r.who => operations'[d] = operations[d]
      BY <2>6, <2>7
    <3>2. c \in DOMAIN operations => operations[c].stage \notin {"claiming", "completing"}
      BY <2>7
    <3>3. DOMAIN operations' \subseteq Command
      BY <1>2, <2>1, <2>6
    <3> QED
      BY <1>1, <1>6, <2>1, <2>8, <3>1, <3>2, <3>3, ReceiveKeeps
  <2>10. Operations'
    <3>1. DOMAIN operations' \subseteq 1..lastCommand'
      BY <1>1, <2>1, <2>6 DEF Operations
    <3>2. ASSUME NEW d \in DOMAIN operations'
          PROVE  /\ operations'[d] \in [claim: 1..lastClaim', stage: {"idle", "claiming", "executing", "completing"},
                                        snapshot: 0..snapshot, outcome: Outcome \cup {None}]
                 /\ operations'[d].stage \in {"claiming", "executing"} => operations'[d].outcome = None
                 /\ operations'[d].stage = "completing" => operations'[d].outcome # None
                 /\ operations'[d].outcome # None => operations'[d].outcome = outcomes[d]
                 /\ operations'[d].stage = "executing" => executions[d] = 1 /\ outcomes[d] = None
      <4>1. CASE d = c
        BY <2>5, <2>6, <4>1
      <4>2. CASE d # c
        BY <1>2, <2>1, <2>6, <4>2 DEF Operations
      <4> QED
        BY <4>1, <4>2
    <3> QED
      BY <1>1, <3>1, <3>2 DEF Operations
  <2>11. ClaimsAreFresh(commands)'
    <3> SUFFICES ASSUME NEW d \in DOMAIN operations', d \in DOMAIN commands, NotBegun(operations'[d]),
                        commands[d].claim = operations'[d].claim
                 PROVE  executions[d] = 0
      BY <1>1 DEF ClaimsAreFresh, NotBegun
    <3>1. CASE d # c
      BY <2>6, <3>1 DEF ClaimsAreFresh
    <3>2. CASE d = c /\ c \in DOMAIN operations /\ operations[c] = op /\ operations[c].stage = "idle"
      BY <2>4, <2>5, <2>6, <3>2 DEF ClaimsAreFresh, NotBegun
    <3>3. CASE d = c /\ op.claim = lastClaim + 1
      <4>1. commands[d].claim \in 1..lastClaim \cup {None}
        BY DEF Server, GoodCommands
      <4>2. commands[d].claim = lastClaim + 1
        BY <2>5, <2>6, <3>3
      <4> QED
        BY <1>2, <4>1, <4>2, ConstantFacts
    <3> QED
      BY <2>7, <3>1, <3>2, <3>3
  <2>12. Detached'
    BY <1>1, <2>5, <2>6 DEF Detached
  <2>13. Taken'
    <3>1. Underway' \subseteq Underway
      BY <2>5, <2>6 DEF Underway
    <3> QED
      BY <1>1, <3>1, TakenKeeps
  <2> QED
    BY <1>1, <1>2, <1>3, <1>4, <2>1, <2>9, <2>10, <2>11, <2>12, <2>13, PageKeeps
<1> QED
  BY <1>1, <1>5, <1>6

\* _sync sends the next completion, or turns to the command it was offered.
LEMMA GoOnKeeps ==
    ASSUME Inductive, NEW r \in replies, r.who = Bridge,
           NEW ops, DOMAIN ops \subseteq DOMAIN operations, \A d \in DOMAIN ops : ops[d] = operations[d],
           NEW done \in SUBSET Command, DOMAIN operations \subseteq DOMAIN ops \cup done,
           NEW offered \in 1..lastCommand \cup {None}, GoOn(r, ops, done, offered),
           UNCHANGED <<serverVars, registration, detached, snapshot, restarts, ghostVars>>
    PROVE  Inductive'
<1> USE DEF Inductive
<1> DEFINE todo == {c \in DOMAIN ops : ops[c].outcome # None} \ done
           next == Min(todo)
<1>1. \/ todo = {} /\ Handle(r, IF offered \in done THEN None ELSE offered, ops)
      \/ /\ todo # {}
         /\ syncing' = [stage |-> "complete", target |-> next, offered |-> offered, completed |-> done]
         /\ operations' = ops
         /\ Receive(r, {CompleteRequest(Bridge, next, ops[next])})
         /\ UNCHANGED lastClaim
  BY DEF GoOn
<1>2. lastClaim \in Nat /\ snapshot \in Nat /\ DOMAIN operations \subseteq Command /\ 1..lastCommand \subseteq Command
      /\ None \notin Command /\ Command \subseteq Nat
  BY UnderwayFacts, ConstantFacts DEF Counters
<1>3. CASE todo = {} /\ Handle(r, IF offered \in done THEN None ELSE offered, ops)
  <2> DEFINE c == IF offered \in done THEN None ELSE offered
  <2>1. Handle(r, c, ops) /\ c \in 1..lastCommand \cup {None} /\ (c \in DOMAIN operations => c \in DOMAIN ops)
    BY <1>2, <1>3
  <2> HIDE DEF c, todo, next
  <2> QED
    BY <2>1, HandleKeeps
<1>4. CASE /\ todo # {}
           /\ syncing' = [stage |-> "complete", target |-> next, offered |-> offered, completed |-> done]
           /\ operations' = ops
           /\ Receive(r, {CompleteRequest(Bridge, next, ops[next])})
           /\ UNCHANGED lastClaim
  <2>1. next \in todo
    <3>1. todo \in SUBSET Nat
      BY <1>2
    <3> HIDE DEF todo
    <3> QED
      BY <1>4, <3>1, MinIn
  <2>2. /\ next \in DOMAIN ops /\ next \in DOMAIN operations /\ ops[next] = operations[next]
        /\ operations[next].outcome # None
    BY <2>1
  <2> HIDE DEF todo, next
  <2>3. UNCHANGED <<commands, lastCommand, executions, outcomes, acknowledged>>
    BY DEF serverVars, ghostVars
  <2> DEFINE n == CompleteRequest(Bridge, next, ops[next])
  <2>4. /\ n = Request(Bridge, "complete", registration,
                       [command |-> next, claim |-> ops[next].claim, snapshot |-> ops[next].snapshot,
                        outcome |-> ops[next].outcome])
        /\ next \in 1..lastCommand /\ ops[next].claim \in 1..lastClaim /\ ops[next].snapshot \in 0..snapshot
        /\ ops[next].outcome \in Outcome /\ ops[next].outcome = outcomes[next]
    BY <2>2 DEF CompleteRequest, Operations
  <2>5. Sendable(n) /\ n.who = Bridge
    BY <1>2, <1>4, <2>3, <2>4, ConstantFacts DEF Sendable, Request
  <2> HIDE DEF n
  <2>6. Receive(r, {n})
    BY <1>4 DEF n
  <2>7. OneAtATime' /\ WaitersWait' /\ Requests' /\ Values' /\ GrantsAreGood(commands)'
    BY <1>2, <1>4, <2>3, <2>5, <2>6, ReceiveKeeps
  <2>8. Syncing'
    BY <1>2, <1>4, <2>2, <2>3 DEF Syncing
  <2>9. Ghosts' /\ Receipts(commands)' /\ Operations' /\ ClaimsAreFresh(commands)' /\ Detached'
    BY <1>4, <2>3 DEF Ghosts, Receipts, Operations, ClaimsAreFresh, Detached
  <2>10. Taken'
    <3>1. Underway' \subseteq Underway
      BY <1>4 DEF Underway
    <3> QED
      BY <2>3, <3>1, TakenKeeps
  <2>11. timeouts' \in 0..MaxTimeouts /\ snapshot' \in snapshot..MaxSubmissions
    BY <2>6, ConstantFacts DEF Counters, Snapshot, Receive
  <2> QED
    BY <1>2, <1>4, <2>3, <2>7, <2>8, <2>9, <2>10, <2>11, PageKeeps
<1> QED
  BY <1>1, <1>3, <1>4

LEMMA HeartbeatAnsweredKeeps ==
    ASSUME Inductive, NEW r \in replies, HeartbeatAnswered(r)
    PROVE  Inductive'
<1> USE DEF Inductive
<1>1. /\ UNCHANGED <<serverVars, snapshot, restarts, ghostVars>>
      /\ UNCHANGED <<commands, lastCommand, executions, outcomes, acknowledged>>
      /\ r.who = Bridge /\ syncing.stage = "heartbeat"
      /\ \/ r.code = "ok" /\ GoOn(r, operations, {}, r.value) /\ UNCHANGED <<registration, detached>>
         \/ /\ registration' = None
            /\ detached' = detached \cup {c \in DOMAIN operations : operations[c].stage = "executing"}
            /\ operations' = <<>> /\ syncing' = Resting /\ Receive(r, {}) /\ lastClaim' = lastClaim
  BY DEF HeartbeatAnswered, serverVars, ghostVars
<1>2. CASE r.code = "ok" /\ GoOn(r, operations, {}, r.value) /\ UNCHANGED <<registration, detached>>
  <2>1. r.value \in 1..lastCommand \cup {None}
    BY <1>1, <1>2 DEF Values
  <2> QED
    BY <1>1, <1>2, <2>1, GoOnKeeps
<1>3. CASE /\ registration' = None
           /\ detached' = detached \cup {c \in DOMAIN operations : operations[c].stage = "executing"}
           /\ operations' = <<>> /\ syncing' = Resting /\ Receive(r, {}) /\ lastClaim' = lastClaim
  <2>1. DOMAIN operations' = {}
    BY <1>3
  <2>2. lastClaim \in Nat /\ DOMAIN operations \subseteq Command
    BY UnderwayFacts DEF Counters
  <2>3. OneAtATime' /\ WaitersWait' /\ Requests' /\ Values' /\ GrantsAreGood(commands)'
    BY <1>1, <1>3, <2>1, <2>2, ReceiveKeeps
  <2>4. Syncing' /\ Ghosts' /\ Receipts(commands)' /\ Operations' /\ ClaimsAreFresh(commands)'
    BY <1>1, <1>3, <2>1 DEF Syncing, Resting, Ghosts, Receipts, Operations, ClaimsAreFresh
  <2>5. Detached'
    BY <1>1, <1>3, <2>1, <2>2 DEF Detached, Operations
  <2>6. Taken'
    <3>1. Underway' \subseteq Underway
      BY <1>3, <2>1 DEF Underway
    <3> QED
      BY <1>1, <3>1, TakenKeeps
  <2>7. timeouts' \in 0..MaxTimeouts /\ snapshot' \in snapshot..MaxSubmissions
    BY <1>1, <1>3, ConstantFacts DEF Counters, Snapshot, Receive
  <2> QED
    BY <1>1, <1>3, <2>2, <2>3, <2>4, <2>5, <2>6, <2>7, PageKeeps
<1> QED
  BY <1>1, <1>2, <1>3

LEMMA CompletionAnsweredKeeps ==
    ASSUME Inductive, NEW r \in replies, CompletionAnswered(r)
    PROVE  Inductive'
<1> USE DEF Inductive
<1> DEFINE c == syncing.target
           ops == Without(operations, c)
<1>1. /\ UNCHANGED <<serverVars, registration, detached, snapshot, restarts, ghostVars>>
      /\ UNCHANGED lastCommand
      /\ r.who = Bridge /\ syncing.stage = "complete"
      /\ \/ GoOn(r, ops, syncing.completed \cup {c}, syncing.offered)
         \/ syncing' = Resting /\ UNCHANGED <<operations, lastClaim>> /\ Receive(r, {})
  BY DEF CompletionAnswered, serverVars
<1>2. CASE GoOn(r, ops, syncing.completed \cup {c}, syncing.offered)
  <2>1. /\ syncing.completed \cup {c} \in SUBSET Command /\ syncing.offered \in 1..lastCommand \cup {None}
    BY <1>1 DEF Syncing
  <2>2. DOMAIN ops = DOMAIN operations \ {c} /\ \A d \in DOMAIN ops : ops[d] = operations[d]
    BY DEF Without, Restrict
  <2> HIDE DEF ops
  <2> QED
    BY <1>1, <1>2, <2>1, <2>2, GoOnKeeps
<1>3. CASE syncing' = Resting /\ UNCHANGED <<operations, lastClaim>> /\ Receive(r, {})
  <2>1. Syncing'
    BY <1>1, <1>3 DEF Syncing, Resting
  <2> QED
    BY <1>1, <1>3, <2>1, SyncGoesOn
<1> QED
  BY <1>1, <1>2, <1>3

\* A claim was granted, and the command begins, or it was refused.
LEMMA ClaimAnsweredKeeps ==
    ASSUME Inductive, NEW c \in Command, NEW r \in replies, ClaimAnswered(c, r)
    PROVE  Inductive'
<1> USE DEF Inductive
<1>1. /\ UNCHANGED <<serverVars, registration, syncing, lastClaim, detached, snapshot, restarts,
                     outcomes, acknowledged>>
      /\ UNCHANGED <<commands, lastCommand>>
      /\ c \in DOMAIN operations /\ operations[c].stage = "claiming" /\ r.who = c /\ Receive(r, {})
      /\ \/ /\ r.code = "ok" /\ operations' = [operations EXCEPT ![c].stage = "executing"]
            /\ executions' = [executions EXCEPT ![c] = executions[c] + 1]
         \/ operations' = Without(operations, c) /\ executions' = executions
  BY DEF ClaimAnswered, serverVars
<1>2. lastClaim \in Nat /\ DOMAIN operations \subseteq Command /\ c # Bridge
  BY UnderwayFacts, ConstantFacts DEF Counters
<1>3. /\ timeouts' \in 0..MaxTimeouts /\ lastClaim' \in Nat /\ lastClaim <= lastClaim'
      /\ snapshot' \in snapshot..MaxSubmissions
  BY <1>1, ConstantFacts DEF Counters, Snapshot, Receive
<1>4. Syncing'
  BY <1>1 DEF Syncing
<1>5. CASE r.code = "ok" /\ operations' = [operations EXCEPT ![c].stage = "executing"]
           /\ executions' = [executions EXCEPT ![c] = executions[c] + 1]
  <2>1. executions[c] = 0 /\ outcomes[c] = None /\ c \notin detached
    BY <1>1, <1>5 DEF GrantsAreGood, Ghosts, Detached
  <2>2. c \in DOMAIN commands => commands[c].state \in {"running", "unknown"}
    BY <1>1, <1>5 DEF GrantsAreGood
  <2>3. /\ DOMAIN operations' = DOMAIN operations
        /\ operations'[c] = [operations[c] EXCEPT !.stage = "executing"]
        /\ \A d \in DOMAIN operations : d # c => operations'[d] = operations[d]
    BY <1>1, <1>5
  <2>4. /\ executions' \in [Command -> {0, 1}] /\ executions'[c] = 1
        /\ \A d \in Command : d # c => executions'[d] = executions[d]
    BY <1>5, <2>1 DEF Ghosts
  <2>5. /\ operations[c] \in [claim: 1..lastClaim, stage: {"idle", "claiming", "executing", "completing"},
                              snapshot: 0..snapshot, outcome: Outcome \cup {None}]
        /\ operations[c].outcome = None
    BY <1>1 DEF Operations
  <2>6. /\ operations'[c] \in [claim: 1..lastClaim, stage: {"idle", "claiming", "executing", "completing"},
                               snapshot: 0..snapshot, outcome: Outcome \cup {None}]
        /\ operations'[c].stage = "executing" /\ operations'[c].outcome = None
    BY <2>3, <2>5
  <2>7. OneAtATime' /\ WaitersWait' /\ Requests' /\ Values' /\ GrantsAreGood(commands)'
    BY <1>1, <1>2, <1>3, <2>3, <2>4, ReceiveKeeps
  <2>8. Ghosts'
    <3>1. c <= lastCommand /\ c \in Nat /\ lastCommand \in Nat
      BY <1>1, <1>2, ConstantFacts DEF Operations, Counters
    <3> QED
      BY <1>1, <2>4, <3>1 DEF Ghosts
  <2>9. Receipts(commands)'
    <3>1. DOMAIN commands \subseteq Command
      BY UnderwayFacts DEF Server, GoodCommands
    <3> QED
      BY <1>1, <2>2, <2>4, <3>1 DEF Receipts
  <2>10. Operations'
    <3>1. ASSUME NEW d \in DOMAIN operations'
          PROVE  /\ operations'[d] \in [claim: 1..lastClaim, stage: {"idle", "claiming", "executing", "completing"},
                                        snapshot: 0..snapshot, outcome: Outcome \cup {None}]
                 /\ operations'[d].stage \in {"claiming", "executing"} => operations'[d].outcome = None
                 /\ operations'[d].stage = "completing" => operations'[d].outcome # None
                 /\ operations'[d].outcome # None => operations'[d].outcome = outcomes[d]
                 /\ operations'[d].stage = "executing" => executions'[d] = 1 /\ outcomes[d] = None
      <4>1. CASE d = c
        BY <2>1, <2>4, <2>6, <4>1
      <4>2. CASE d # c
        BY <1>2, <2>3, <2>4, <4>2 DEF Operations
      <4> QED
        BY <4>1, <4>2
    <3> QED
      BY <1>1, <2>3, <3>1 DEF Operations
  <2>11. ClaimsAreFresh(commands)'
    BY <1>1, <1>2, <2>3, <2>4, <2>6 DEF ClaimsAreFresh, NotBegun
  <2>12. Detached'
    BY <1>1, <2>1, <2>3, <2>4 DEF Detached
  <2>13. Taken'
    <3>1. Begun' = Begun \cup {c} /\ c \notin Begun
      BY <2>1, <2>4 DEF Begun
    <3>2. Underway' = Underway \cup {c}
      BY <1>1, <2>3, <2>6 DEF Underway
    <3>3. c \notin Underway
      BY <3>1, UnderwayFacts
    <3> HIDE DEF Begun, Underway
    <3>4. /\ Cardinality(Begun') = Cardinality(Begun) + 1
          /\ Cardinality(Underway') = Cardinality(Underway) + 1
      BY <3>1, <3>2, <3>3, UnderwayFacts, FS_AddElement
    <3> QED
      BY <1>1, <3>4, UnderwayFacts DEF Taken
  <2> QED
    BY <1>1, <1>3, <1>4, <2>7, <2>8, <2>9, <2>10, <2>11, <2>12, <2>13, PageKeeps
<1>6. CASE operations' = Without(operations, c) /\ executions' = executions
  <2>1. DOMAIN operations' = DOMAIN operations \ {c} /\ \A d \in DOMAIN operations' : operations'[d] = operations[d]
    BY <1>6 DEF Without, Restrict
  <2>2. OneAtATime' /\ WaitersWait' /\ Requests' /\ Values' /\ GrantsAreGood(commands)'
    BY <1>1, <1>2, <1>3, <1>6, <2>1, ReceiveKeeps
  <2>3. Ghosts' /\ Receipts(commands)' /\ Operations' /\ ClaimsAreFresh(commands)' /\ Detached'
    BY <1>1, <1>6, <2>1 DEF Ghosts, Receipts, Operations, ClaimsAreFresh, Detached
  <2>4. Taken'
    <3>1. Underway' \subseteq Underway
      BY <1>1, <2>1 DEF Underway
    <3> QED
      BY <1>1, <1>6, <3>1, TakenKeeps
  <2> QED
    BY <1>1, <1>3, <1>4, <2>2, <2>3, <2>4, PageKeeps
<1> QED
  BY <1>1, <1>5, <1>6

\* The simulation takes a command.
LEMMA ExecutedKeeps ==
    ASSUME Inductive, NEW c \in Command, NEW outcome \in Outcome, Executed(c, outcome)
    PROVE  Inductive'
<1> USE DEF Inductive
<1> DEFINE op == [operations[c] EXCEPT !.stage = "completing", !.snapshot = snapshot + 1, !.outcome = outcome]
           n == CompleteRequest(c, c, op)
<1>1. /\ UNCHANGED <<serverVars, registration, syncing, lastClaim, detached, restarts, executions, acknowledged>>
      /\ UNCHANGED <<commands, lastCommand>>
      /\ c \in DOMAIN operations /\ operations[c].stage = "executing"
      /\ snapshot' = snapshot + 1
      /\ outcomes' = [outcomes EXCEPT ![c] = outcome]
      /\ operations' = [operations EXCEPT ![c] = op]
      /\ Send(n)
  BY DEF Executed, serverVars
<1>2. /\ DOMAIN operations \subseteq Command /\ snapshot \in Nat /\ lastClaim \in Nat
      /\ c # Bridge /\ None \notin Outcome
  BY UnderwayFacts, ConstantFacts DEF Counters
<1>3. /\ operations[c] \in [claim: 1..lastClaim, stage: {"idle", "claiming", "executing", "completing"},
                            snapshot: 0..snapshot, outcome: Outcome \cup {None}]
      /\ executions[c] = 1 /\ outcomes[c] = None /\ c \notin detached /\ c \in 1..lastCommand
  BY <1>1 DEF Operations, Detached
<1>4. /\ op \in [claim: 1..lastClaim, stage: {"idle", "claiming", "executing", "completing"},
                 snapshot: 0..snapshot', outcome: Outcome \cup {None}]
      /\ op.stage = "completing" /\ op.outcome = outcome /\ op.snapshot \in 0..snapshot'
      /\ op.claim \in 1..lastClaim
  <2>1. snapshot + 1 \in 0..snapshot' /\ 0..snapshot \subseteq 0..snapshot'
    BY <1>1, <1>2
  <2> QED
    BY <1>3, <2>1
<1>5. n = Request(c, "complete", registration,
                  [command |-> c, claim |-> op.claim, snapshot |-> op.snapshot, outcome |-> op.outcome])
  BY DEF CompleteRequest
<1> HIDE DEF op, n
<1>6. /\ DOMAIN operations' = DOMAIN operations /\ operations'[c] = op
      /\ \A d \in DOMAIN operations : d # c => operations'[d] = operations[d]
  BY <1>1
<1>7. /\ outcomes' \in [Command -> Outcome \cup {None}] /\ outcomes'[c] = outcome
      /\ \A d \in Command : d # c => outcomes'[d] = outcomes[d]
  BY <1>1 DEF Ghosts
<1>8. Sendable(n) /\ n.who = c
  BY <1>1, <1>2, <1>3, <1>4, <1>5, <1>6, <1>7 DEF Sendable, Request
<1>9. OneAtATime' /\ WaitersWait' /\ Requests' /\ Values' /\ GrantsAreGood(commands)'
  BY <1>1, <1>2, <1>3, <1>6, <1>7, <1>8, SendKeeps
<1>10. Ghosts'
  BY <1>1, <1>3, <1>7 DEF Ghosts
<1>11. Receipts(commands)'
  <2>1. DOMAIN commands \subseteq Command /\ None \notin {"succeeded", "failed"}
    BY UnderwayFacts, ConstantFacts DEF Server, GoodCommands, Outcome
  <2> QED
    BY <1>1, <1>3, <1>7, <2>1 DEF Receipts
<1>12. Operations'
  <2>1. 0..snapshot \subseteq 0..snapshot'
    BY <1>1, <1>2
  <2>2. ASSUME NEW d \in DOMAIN operations
        PROVE  /\ operations'[d] \in [claim: 1..lastClaim, stage: {"idle", "claiming", "executing", "completing"},
                                      snapshot: 0..snapshot', outcome: Outcome \cup {None}]
               /\ operations'[d].stage \in {"claiming", "executing"} => operations'[d].outcome = None
               /\ operations'[d].stage = "completing" => operations'[d].outcome # None
               /\ operations'[d].outcome # None => operations'[d].outcome = outcomes'[d]
               /\ operations'[d].stage = "executing" => executions[d] = 1 /\ outcomes'[d] = None
    <3>1. CASE d = c
      BY <1>2, <1>4, <1>6, <1>7, <3>1
    <3>2. CASE d # c
      BY <1>2, <1>6, <1>7, <2>1, <3>2 DEF Operations
    <3> QED
      BY <3>1, <3>2
  <2> QED
    BY <1>1, <1>6, <2>2 DEF Operations
<1>13. ClaimsAreFresh(commands)'
  BY <1>1, <1>4, <1>6 DEF ClaimsAreFresh, NotBegun
<1>14. Detached' /\ Syncing'
  BY <1>1, <1>3, <1>6 DEF Detached, Syncing
<1>15. Underway' = Underway \ {c} /\ c \in Underway /\ Begun' = Begun
  BY <1>1, <1>3, <1>4, <1>6 DEF Underway, Begun
<1>16. Taken' /\ snapshot' \in snapshot..MaxSubmissions
  BY <1>1, <1>15, OneLessUnderway
<1>17. /\ timeouts' \in 0..MaxTimeouts /\ lastClaim' \in Nat /\ lastClaim <= lastClaim'
  BY <1>1, <1>2 DEF Counters, Send
<1> QED
  BY <1>1, <1>9, <1>10, <1>11, <1>12, <1>13, <1>14, <1>16, <1>17, PageKeeps

LEMMA DetachedExecutedKeeps ==
    ASSUME Inductive, NEW c \in Command, DetachedExecuted(c)
    PROVE  Inductive'
<1> USE DEF Inductive
<1>1. /\ UNCHANGED <<serverVars, registration, syncing, operations, lastClaim, restarts,
                     flight, replies, timeouts, executions, outcomes, acknowledged>>
      /\ UNCHANGED <<commands, lastCommand>>
      /\ c \in detached /\ detached' = detached \ {c} /\ snapshot' = snapshot + 1
  BY DEF DetachedExecuted, serverVars, netVars, ghostVars
<1>2. snapshot \in Nat /\ 0..snapshot \subseteq 0..snapshot'
  BY <1>1, UnderwayFacts
<1>3. OneAtATime' /\ WaitersWait' /\ Values' /\ GrantsAreGood(commands)'
  BY <1>1 DEF OneAtATime, WaitersWait, Values, GrantsAreGood
<1>4. Requests'
  BY <1>1, <1>2 DEF Requests
<1>5. Operations'
  BY <1>1, <1>2 DEF Operations
<1>6. Ghosts' /\ Receipts(commands)' /\ ClaimsAreFresh(commands)' /\ Detached' /\ Syncing'
  BY <1>1 DEF Ghosts, Receipts, ClaimsAreFresh, Detached, Syncing
<1>7. Underway' = Underway \ {c} /\ c \in Underway /\ Begun' = Begun
  BY <1>1 DEF Underway, Begun, Detached
<1>8. Taken' /\ snapshot' \in snapshot..MaxSubmissions
  BY <1>1, <1>7, OneLessUnderway
<1>9. timeouts' \in 0..MaxTimeouts /\ lastClaim' \in Nat /\ lastClaim <= lastClaim'
  BY <1>1 DEF Counters
<1> QED
  BY <1>1, <1>3, <1>4, <1>5, <1>6, <1>8, <1>9, PageKeeps

LEMMA AcknowledgedKeeps ==
    ASSUME Inductive, NEW c \in Command, NEW r \in replies, Acknowledged(c, r)
    PROVE  Inductive'
<1> USE DEF Inductive
<1>1. /\ UNCHANGED <<serverVars, registration, syncing, lastClaim, detached, snapshot, restarts, ghostVars>>
      /\ UNCHANGED <<commands, lastCommand, executions, outcomes, acknowledged>>
      /\ c \in DOMAIN operations /\ operations[c].stage = "completing" /\ r.who = c /\ Receive(r, {})
      /\ \/ operations' = Without(operations, c)
         \/ operations' = [operations EXCEPT ![c].stage = "idle"]
  BY DEF Acknowledged, serverVars, ghostVars
<1>2. lastClaim \in Nat /\ DOMAIN operations \subseteq Command /\ c # Bridge
  BY UnderwayFacts, ConstantFacts DEF Counters
<1>3. /\ operations[c] \in [claim: 1..lastClaim, stage: {"idle", "claiming", "executing", "completing"},
                            snapshot: 0..snapshot, outcome: Outcome \cup {None}]
      /\ operations[c].outcome # None /\ operations[c].outcome = outcomes[c]
  BY <1>1 DEF Operations
<1>4. /\ DOMAIN operations' \subseteq DOMAIN operations
      /\ \A d \in DOMAIN operations' : d # c => operations'[d] = operations[d]
      /\ c \in DOMAIN operations' =>
           /\ operations'[c] \in [claim: 1..lastClaim, stage: {"idle", "claiming", "executing", "completing"},
                                  snapshot: 0..snapshot, outcome: Outcome \cup {None}]
           /\ operations'[c].stage = "idle" /\ operations'[c].outcome = operations[c].outcome
  <2>1. CASE operations' = Without(operations, c)
    BY <2>1 DEF Without, Restrict
  <2>2. CASE operations' = [operations EXCEPT ![c].stage = "idle"]
    BY <1>1, <1>3, <2>2
  <2> QED
    BY <1>1, <2>1, <2>2
<1>5. OneAtATime' /\ WaitersWait' /\ Requests' /\ Values' /\ GrantsAreGood(commands)'
  BY <1>1, <1>2, <1>4, ReceiveKeeps
<1>6. Ghosts' /\ Receipts(commands)' /\ Syncing'
  BY <1>1 DEF Ghosts, Receipts, Syncing
<1>7. Operations'
  BY <1>1, <1>3, <1>4 DEF Operations
<1>8. ClaimsAreFresh(commands)'
  BY <1>1, <1>3, <1>4 DEF ClaimsAreFresh, NotBegun
<1>9. Detached'
  BY <1>1, <1>4 DEF Detached
<1>10. Taken'
  <2>1. Underway' \subseteq Underway
    BY <1>1, <1>4 DEF Underway
  <2> QED
    BY <1>1, <2>1, TakenKeeps
<1>11. /\ timeouts' \in 0..MaxTimeouts /\ lastClaim' \in Nat /\ lastClaim <= lastClaim'
       /\ snapshot' \in snapshot..MaxSubmissions
  BY <1>1, ConstantFacts DEF Counters, Snapshot, Receive
<1> QED
  BY <1>1, <1>5, <1>6, <1>7, <1>8, <1>9, <1>10, <1>11, PageKeeps

\* A request that nobody waits for any longer.
Abandon(m) == [m EXCEPT !.who = None]

LEMMA Abandoned ==
    ASSUME Inductive, NEW m \in flight
    PROVE  /\ Abandon(m) = Request(Abandon(m).who, Abandon(m).kind, Abandon(m).browser, Abandon(m).about)
           /\ Abandon(m).who = None /\ Abandon(m).kind = m.kind /\ Abandon(m).about = m.about
<1>1. m = Request(m.who, m.kind, m.browser, m.about)
  BY DEF Inductive, OneAtATime
<1>2. m = [who |-> m.who, kind |-> m.kind, browser |-> m.browser, about |-> m.about]
  BY <1>1 DEF Request
<1> QED
  BY <1>2 DEF Request, Abandon

LEMMA GiveUpKeeps ==
    ASSUME Inductive, NEW w \in {Bridge} \cup Command, GiveUp(w)
    PROVE  Inductive'
<1> USE DEF Inductive
<1>1. /\ UNCHANGED <<serverVars, registration, lastClaim, detached, snapshot, restarts, ghostVars>>
      /\ UNCHANGED <<commands, lastCommand, executions, outcomes, acknowledged>>
      /\ \/ \E m \in flight :
              /\ m.who = w
              /\ flight' \in {flight \ {m}, (flight \ {m}) \cup {Abandon(m)}}
              /\ replies' = replies
         \/ \E r \in replies :
              r.who = w /\ replies' = replies \ {r} /\ flight' = flight
      /\ timeouts < MaxTimeouts /\ timeouts' = timeouts + 1
      /\ \/ w = Bridge /\ syncing' = Resting /\ operations' = operations
         \/ w # Bridge /\ operations' = [operations EXCEPT ![w].stage = "idle"] /\ syncing' = syncing
  BY DEF GiveUp, serverVars, ghostVars, Abandon
<1>2. lastClaim \in Nat /\ DOMAIN operations \subseteq Command
      /\ None \notin Command /\ None # Bridge /\ Bridge \notin Command
  BY UnderwayFacts, ConstantFacts DEF Counters
<1>3. w # Bridge => w \in DOMAIN operations /\ operations[w].stage \in {"claiming", "completing"}
  BY <1>1 DEF WaitersWait
<1>4. /\ \A m \in flight' : m.who # w
      /\ \A q \in replies' : q \in replies /\ q.who # w
      /\ \A m \in flight' : m \in flight \/ \E n \in flight :
           /\ m.who = None /\ m = Request(m.who, m.kind, m.browser, m.about)
           /\ m.kind = n.kind /\ m.about = n.about
  BY <1>1, <1>2, Abandoned DEF OneAtATime
<1>5. OneAtATime'
  <2>1. \A m \in flight' : m.who \in {None, Bridge} \cup Command /\ m = Request(m.who, m.kind, m.browser, m.about)
    BY <1>4 DEF OneAtATime
  <2>2. \A m, n \in flight' : m.who = n.who /\ m.who # None => m = n
    BY <1>4 DEF OneAtATime
  <2>3. \A m \in flight', r \in replies' : m.who # r.who
    BY <1>2, <1>4 DEF OneAtATime
  <2> QED
    BY <1>4, <2>1, <2>2, <2>3 DEF OneAtATime
<1>6. /\ DOMAIN operations' = DOMAIN operations
      /\ \A d \in DOMAIN operations : d # w => operations'[d] = operations[d]
      /\ w \in DOMAIN operations =>
           /\ operations'[w] \in [claim: 1..lastClaim, stage: {"idle", "claiming", "executing", "completing"},
                                  snapshot: 0..snapshot, outcome: Outcome \cup {None}]
           /\ operations'[w].stage = "idle" /\ operations'[w].claim = operations[w].claim
           /\ operations'[w].outcome = operations[w].outcome
  BY <1>1, <1>2, <1>3 DEF Operations
<1>7. w # Bridge => syncing' = syncing
  BY <1>1
<1>8. WaitersWait'
  BY <1>2, <1>4, <1>6, <1>7 DEF WaitersWait
<1>9. Requests'
  BY <1>1, <1>4 DEF Requests
<1>10. Values'
  BY <1>1, <1>4, <1>7 DEF Values
<1>11. GrantsAreGood(commands)'
  BY <1>1, <1>4, <1>6 DEF GrantsAreGood
<1>12. Syncing'
  BY <1>1 DEF Syncing, Resting
<1>13. Ghosts' /\ Receipts(commands)'
  BY <1>1 DEF Ghosts, Receipts
<1>14. Operations'
  BY <1>1, <1>3, <1>6 DEF Operations
<1>15. ClaimsAreFresh(commands)'
  <2>1. w \in DOMAIN operations /\ operations'[w].outcome = None => operations[w].stage = "claiming"
    BY <1>2, <1>3, <1>6 DEF Operations
  <2> QED
    BY <1>1, <1>6, <2>1 DEF ClaimsAreFresh, NotBegun
<1>16. Detached'
  BY <1>1, <1>6 DEF Detached
<1>17. Taken'
  <2>1. Underway' \subseteq Underway
    BY <1>1, <1>6 DEF Underway
  <2> QED
    BY <1>1, <2>1, TakenKeeps
<1>18. /\ timeouts' \in 0..MaxTimeouts /\ lastClaim' \in Nat /\ lastClaim <= lastClaim'
       /\ snapshot' \in snapshot..MaxSubmissions
  BY <1>1, <1>2, ConstantFacts DEF Counters, Snapshot
<1> QED
  BY <1>1, <1>5, <1>8, <1>9, <1>10, <1>11, <1>12, <1>13, <1>14, <1>15, <1>16, <1>17, <1>18, PageKeeps

LEMMA ReloadPageKeeps ==
    ASSUME Inductive, NEW farewell \in BOOLEAN, ReloadPage(farewell)
    PROVE  Inductive'
<1> USE DEF Inductive
<1> DEFINE parting == Request(None, "unregister", registration, <<>>)
<1>1. /\ UNCHANGED <<commands, lastCommand, executions, outcomes, acknowledged, snapshot, lastClaim, timeouts>>
      /\ UNCHANGED <<browsers, lastBrowser>>
      /\ restarts < MaxRestarts /\ restarts' = restarts + 1
      /\ registration' = None /\ syncing' = Resting /\ operations' = <<>> /\ detached' = {} /\ replies' = {}
      /\ \/ flight' = {Abandon(m) : m \in flight}
         \/ flight' = {Abandon(m) : m \in flight} \cup {parting}
  BY DEF ReloadPage, serverVars, ghostVars, Abandon
<1>2. /\ DOMAIN operations' = {} /\ None \notin Command /\ None # Bridge
      /\ parting.who = None /\ parting.kind = "unregister"
      /\ parting = Request(parting.who, parting.kind, parting.browser, parting.about)
  BY <1>1, ConstantFacts DEF Request
<1> HIDE DEF parting
<1>3. \A m \in flight' :
         /\ m.who = None /\ m = Request(m.who, m.kind, m.browser, m.about)
         /\ \/ m.kind = "unregister"
            \/ \E n \in flight : m.kind = n.kind /\ m.about = n.about
  BY <1>1, <1>2, Abandoned
<1>4. OneAtATime' /\ WaitersWait' /\ Values' /\ GrantsAreGood(commands)'
  BY <1>1, <1>2, <1>3 DEF OneAtATime, WaitersWait, Values, GrantsAreGood
<1>5. Requests'
  BY <1>1, <1>3 DEF Requests
<1>6. Syncing' /\ Ghosts' /\ Receipts(commands)' /\ Operations' /\ ClaimsAreFresh(commands)' /\ Detached'
  BY <1>1, <1>2 DEF Syncing, Resting, Ghosts, Receipts, Operations, ClaimsAreFresh, Detached
<1>7. Taken'
  <2>1. Underway' \subseteq Underway
    BY <1>1, <1>2 DEF Underway
  <2> QED
    BY <1>1, <2>1, TakenKeeps
<1>8. restarts' \in 0..MaxRestarts
  BY <1>1, ConstantFacts DEF Counters
<1>9. Counters'
  BY <1>1, <1>8 DEF Counters
<1>10. Server' /\ Acknowledgements' /\ StatusIsNotOlder'
  BY <1>1 DEF Server, GoodBrowsers, GoodCommands, Held, Acknowledgements, StatusIsNotOlder
<1> QED
  BY <1>4, <1>5, <1>6, <1>7, <1>9, <1>10

(* The specification keeps the invariant *)

LEMMA InitInductive == Init => Inductive
<1> SUFFICES ASSUME Init PROVE Inductive
  OBVIOUS
<1>1. /\ browsers = <<>> /\ commands = <<>> /\ operations = <<>> /\ detached = {} /\ flight = {} /\ replies = {}
      /\ DOMAIN browsers = {} /\ DOMAIN commands = {} /\ DOMAIN operations = {}
      /\ lastBrowser = 0 /\ lastCommand = 0 /\ lastClaim = 0 /\ snapshot = 0 /\ timeouts = 0 /\ restarts = 0
      /\ registration = None /\ syncing = Resting
      /\ executions = [c \in Command |-> 0] /\ outcomes = [c \in Command |-> None]
      /\ acknowledged = [b \in Browser |-> 0]
  BY DEF Init
<1>2. Cardinality({}) = 0
  BY FS_EmptySet
<1>3. Counters /\ Server
  BY <1>1, <1>2, ConstantFacts DEF Counters, Snapshot, Server, GoodBrowsers, GoodCommands, Held
<1>4. Ghosts /\ Receipts(commands)
  BY <1>1 DEF Ghosts, Receipts
<1>5. Operations /\ ClaimsAreFresh(commands) /\ GrantsAreGood(commands)
  BY <1>1 DEF Operations, ClaimsAreFresh, GrantsAreGood
<1>6. Syncing /\ Detached /\ OneAtATime /\ WaitersWait /\ Requests /\ Values
  BY <1>1 DEF Syncing, Resting, Detached, OneAtATime, WaitersWait, Requests, Values
<1>7. Acknowledgements /\ StatusIsNotOlder
  BY <1>1 DEF Acknowledgements, StatusIsNotOlder
<1>8. Taken
  <2>1. Underway = {} /\ Begun = {}
    BY <1>1 DEF Underway, Begun
  <2> QED
    BY <1>1, <1>2, <2>1 DEF Taken
<1> QED
  BY <1>3, <1>4, <1>5, <1>6, <1>7, <1>8 DEF Inductive

LEMMA StutterKeeps ==
    ASSUME Inductive, UNCHANGED vars
    PROVE  Inductive'
<1>1. UNCHANGED <<pageVars, flight, replies, timeouts, ghostVars, lastBrowser, browsers, commands,
                  lastCommand, restarts>>
  BY DEF vars, serverVars, netVars
<1>2. Server' /\ Evolves(commands')
  <2>1. Server'
    BY <1>1 DEF Inductive, Server, GoodBrowsers, GoodCommands, Held, pageVars
  <2> QED
    BY <1>1, <2>1, LiveEvolves
<1>3. lastCommand' \in lastCommand..MaxSubmissions /\ restarts' \in 0..MaxRestarts
  BY <1>1, ConstantFacts DEF Inductive, Counters
<1> QED
  BY <1>1, <1>2, <1>3, QuietKeeps

LEMMA StepKeeps == Inductive /\ [Next]_vars => Inductive'
<1> SUFFICES ASSUME Inductive, [Next]_vars PROVE Inductive'
  OBVIOUS
<1>1. CASE \E m \in flight : Serve(m)
  BY <1>1, ServeKeeps
<1>2. CASE Poll
  BY <1>2, PollKeeps
<1>3. CASE \E b \in Browser, resolve \in BOOLEAN : Submit(b, resolve)
  BY <1>3, SubmitKeeps
<1>4. CASE \E c \in Command : Prepared(c) \/ PrepareFails(c)
  BY <1>4, PreparedKeeps, PrepareFailsKeeps
<1>5. CASE Sync
  BY <1>5, SyncKeeps
<1>6. CASE SyncAnswered
  BY <1>6, RegisteredKeeps, HeartbeatAnsweredKeeps, CompletionAnsweredKeeps DEF SyncAnswered
<1>7. CASE \E c \in Command : HandleAnswered(c)
  BY <1>7, ClaimAnsweredKeeps, AcknowledgedKeeps DEF HandleAnswered
<1>8. CASE \E c \in Command : Finish(c)
  BY <1>8, ExecutedKeeps, DetachedExecutedKeeps DEF Finish
<1>9. CASE \E w \in {Bridge} \cup Command : GiveUp(w)
  BY <1>9, GiveUpKeeps
<1>10. CASE RestartServer
  BY <1>10, RestartServerKeeps
<1>11. CASE \E farewell \in BOOLEAN : ReloadPage(farewell)
  BY <1>11, ReloadPageKeeps
<1>12. CASE Tick
  BY <1>12, TickKeeps
<1>13. CASE UNCHANGED vars
  BY <1>13, StutterKeeps
<1> QED
  BY <1>1, <1>2, <1>3, <1>4, <1>5, <1>6, <1>7, <1>8, <1>9, <1>10, <1>11, <1>12, <1>13 DEF Next

LEMMA InductiveHolds == Spec => []Inductive
  BY InitInductive, StepKeeps, PTL DEF Spec

-----------------------------------------------------------------------------

\* Every variable has its type; in particular the registries do not outgrow
\* their limits (BrowserSimService.js:145, 381), the snapshot of a page counts
\* at most the commands accepted, and nobody in the page waits for two answers.
THEOREM BrowserSimTypeCorrect == Spec => []TypeOK
<1>1. Inductive => TypeOK
  <2> SUFFICES ASSUME Inductive PROVE TypeOK
    OBVIOUS
  <2> USE DEF Inductive
  <2>1. /\ 1..lastCommand \subseteq Command /\ 1..lastBrowser \subseteq Browser /\ 0..snapshot \subseteq Snapshot
        /\ DOMAIN operations \subseteq Command
    BY UnderwayFacts, ConstantFacts DEF Counters, Browser, Snapshot
  <2>2. /\ DOMAIN browsers \subseteq Browser /\ Cardinality(DOMAIN browsers) <= MaxBrowsers
        /\ \A b \in DOMAIN browsers :
             browsers[b] \in [age: 0..Retention, command: Command \cup {None}, snapshot: Snapshot]
    BY <2>1 DEF Server, GoodBrowsers
  <2>3. /\ DOMAIN commands \subseteq Command /\ Cardinality(DOMAIN commands) <= MaxCommands
        /\ \A c \in DOMAIN commands :
             commands[c] \in [browser: Browser, state: State, ready: BOOLEAN,
                              claim: 1..lastClaim \cup {None}, age: 0..Retention]
    BY <2>1 DEF Server, GoodCommands
  <2>4. /\ registration \in Browser \cup {None}
        /\ syncing \in [stage: {"idle", "register", "heartbeat", "complete"}, target: Command \cup {None},
                        offered: Command \cup {None}, completed: SUBSET Command]
    BY <2>1 DEF Syncing
  <2>5. \A c \in DOMAIN operations :
          operations[c] \in [claim: 1..lastClaim, stage: {"idle", "claiming", "executing", "completing"},
                             snapshot: Snapshot, outcome: Outcome \cup {None}]
    BY <2>1 DEF Operations
  <2>6. ASSUME NEW w \in {Bridge} \cup Command
        PROVE  Cardinality({m \in flight : m.who = w} \cup {r \in replies : r.who = w}) <= 1
    <3> DEFINE waits == {m \in flight : m.who = w} \cup {r \in replies : r.who = w}
    <3>1. w # None
      BY <2>6, ConstantFacts
    <3>2. \A x, y \in waits : x = y
      BY <3>1 DEF OneAtATime
    <3> HIDE DEF waits
    <3>3. waits = {} \/ \E x : waits = {x}
      BY <3>2
    <3>4. Cardinality({}) = 0 /\ \A x : Cardinality({x}) = 1
      BY FS_EmptySet, FS_Singleton
    <3>5. Cardinality(waits) = 0 \/ Cardinality(waits) = 1
      BY Zenon, <3>3, <3>4
    <3>6. Cardinality(waits) <= 1
      BY <3>5
    <3> QED
      BY <3>6 DEF waits
  <2> QED
    BY <2>1, <2>2, <2>3, <2>4, <2>5, <2>6 DEF TypeOK, Counters, Detached
<1> QED
  BY <1>1, InductiveHolds, PTL

\* However requests are delayed, lost, repeated or served after the page has
\* given them up, no page executes a command twice, and a receipt says what
\* happened: claimId and the page's operations (BrowserSimService.js:201,
\* BrowserSimBridge.js:111) are enough for any number of commands and faults.
THEOREM PagesExecuteOnce == Spec => []ReceiptsAreTrue
<1>1. Inductive => ReceiptsAreTrue
  <2> SUFFICES ASSUME Inductive PROVE ReceiptsAreTrue
    OBVIOUS
  <2>1. \A c \in Command : executions[c] <= 1
    <3>1. \A c \in Command : executions[c] \in {0, 1}
      BY DEF Inductive, Ghosts
    <3> QED
      BY <3>1
  <2> QED
    BY <2>1 DEF Inductive, Receipts, ReceiptsAreTrue
<1> QED
  BY <1>1, InductiveHolds, PTL

\* The status of a page never falls behind a completion it has acknowledged
\* (_reportSnapshot, BrowserSimService.js:289-295).
THEOREM StatusOnlyAdvances == Spec => []StatusIsNotOlder
<1>1. Inductive => StatusIsNotOlder
  BY DEF Inductive
<1> QED
  BY <1>1, InductiveHolds, PTL

(* Receipts that are kept *)

\* A command whose page may still claim it or report on it.
Pending(c) ==
    /\ \/ commands[c].state \in {"running", "unknown"}
       \/ commands[c].state = "accepted" /\ commands[c].age < Wait
    /\ Connected(commands[c].browser, browsers)

\* _expire leaves such a command alone, and its page holds it.
LEMMA PendingIsLive ==
    ASSUME Inductive, NEW c \in DOMAIN commands, Pending(c)
    PROVE  /\ c \in DOMAIN LiveCommands
           /\ Holds(LiveCommands[c].browser, c, LiveBrowsers) \/ LiveCommands[c].state \notin Terminal
<1> DEFINE x == commands[c]
           b == commands[c].browser
<1>1. /\ x \in [browser: 1..lastBrowser, state: State, ready: BOOLEAN,
                claim: 1..lastClaim \cup {None}, age: 0..Retention]
      /\ Timeout \in Nat /\ Wait \in Nat /\ Retention \in Nat /\ Timeout < Wait /\ Wait <= Retention
  BY ConstantFacts DEF Inductive, Server, GoodCommands
<1>2. b \in DOMAIN browsers /\ browsers[b].age < Timeout /\ browsers[b].age \in Nat
  BY ConstantFacts DEF Pending, Connected, Inductive, Server, GoodBrowsers
<1>3. browsers[b].command = c
  BY <1>2 DEF Pending, Inductive, Server, Held, Unresolved
<1>4. ~Unavailable(x)
  BY <1>1 DEF Pending, Unavailable, Terminal
<1>5. Ended[c] = x
  BY <1>4 DEF Ended
<1>6. ~Forgotten(c)
  BY <1>1, <1>2, <1>3, <1>5 DEF Forgotten, Holds
<1>7. c \in DOMAIN LiveCommands /\ LiveCommands[c] = x
  BY <1>5, <1>6 DEF LiveCommands, Restrict
<1>8. b \in DOMAIN LiveBrowsers
  BY <1>1, <1>2 DEF LiveBrowsers
<1>9. CASE x.state \in Unresolved
  BY <1>7, <1>8, <1>9, Expired DEF Held, Holds
<1>10. CASE x.state \notin Unresolved
  BY <1>10 DEF Pending, Unresolved
<1> QED
  BY <1>7, <1>9, <1>10

\* submit gives up none of them.
LEMMA PendingIsKept ==
    ASSUME Inductive, NEW c \in DOMAIN commands, Pending(c), Next, restarts' = restarts
    PROVE  c \in DOMAIN commands'
<1>1. c \in DOMAIN LiveCommands
  BY PendingIsLive
<1>2. CASE DOMAIN LiveCommands \subseteq DOMAIN commands'
  BY <1>1, <1>2
<1>3. CASE DOMAIN commands' = DOMAIN commands
  BY <1>3
<1>4. ASSUME NEW m \in flight, Serve(m)
      PROVE  DOMAIN commands' = DOMAIN LiveCommands \/ DOMAIN commands' = DOMAIN commands
  BY <1>4 DEF Serve, Register, Heartbeat, Claim, Complete, Unregister
<1>5. ASSUME NEW b \in Browser, NEW resolve \in BOOLEAN, Submit(b, resolve)
      PROVE  c \in DOMAIN commands'
  <2> DEFINE full == Cardinality(DOMAIN LiveCommands) >= MaxCommands
             old == {d \in DOMAIN LiveCommands :
                       LiveCommands[d].state \in Terminal /\ ~Holds(LiveCommands[d].browser, d, LiveBrowsers)}
             kept == IF full THEN Without(LiveCommands, Min(old)) ELSE LiveCommands
             new == [browser |-> b, state |-> "accepted", ready |-> ~resolve, claim |-> None, age |-> 0]
  <2>1. /\ full => old # {}
        /\ commands' = With(kept, lastCommand + 1, new)
    BY <1>5 DEF Submit
  <2>2. c \notin old
    BY PendingIsLive
  <2>3. full => Min(old) \in old
    <3>1. old \in SUBSET Nat
      BY Expired, ConstantFacts DEF GoodCommands
    <3> HIDE DEF old
    <3> QED
      BY <2>1, <3>1, MinIn
  <2>4. c \in DOMAIN kept
    <3> HIDE DEF old
    <3> QED
      BY <1>1, <2>2, <2>3 DEF Without, Restrict
  <2> QED
    BY <2>1, <2>4 DEF With
<1>6. CASE Poll
  BY <1>1, <1>6 DEF Poll, Expire
<1>7. CASE \E d \in Command : Prepared(d) \/ PrepareFails(d)
  BY <1>1, <1>7 DEF Prepared, PrepareFails
<1>8. CASE Tick
  BY <1>8 DEF Tick
<1>9. CASE RestartServer
  <2>1. restarts' = restarts + 1 /\ restarts \in Nat
    BY <1>9, ConstantFacts DEF RestartServer, Inductive, Counters
  <2> QED
    BY <2>1
<1>10. CASE \/ Sync \/ SyncAnswered
            \/ \E d \in Command : HandleAnswered(d) \/ Finish(d)
            \/ \E w \in {Bridge} \cup Command : GiveUp(w)
            \/ \E farewell \in BOOLEAN : ReloadPage(farewell)
  <2>1. commands' = commands
    BY <1>10 DEF Sync, SyncAnswered, Registered, HeartbeatAnswered, CompletionAnswered, HandleAnswered,
                 ClaimAnswered, Acknowledged, Finish, Executed, DetachedExecuted, GiveUp, ReloadPage, serverVars
  <2> QED
    BY <2>1
<1> QED
  BY <1>1, <1>4, <1>5, <1>6, <1>7, <1>8, <1>9, <1>10 DEF Next

\* docs/browser-sim-api.md:99: whatever happens, the receipt of a command whose
\* page is there and may still claim it or report on it is kept by the service
\* as long as the service itself goes on (BrowserSimService.js:381-396).
THEOREM UnresolvedReceiptsAreKept == Spec => UnresolvedAreKept
<1>1. ASSUME Inductive, [Next]_vars
      PROVE  [\A c \in DOMAIN commands :
                /\ \/ commands[c].state \in {"running", "unknown"}
                   \/ commands[c].state = "accepted" /\ commands[c].age < Wait
                /\ Connected(commands[c].browser, browsers)
                /\ restarts' = restarts
                => c \in DOMAIN commands']_vars
  <2>1. CASE Next
    BY <1>1, <2>1, PendingIsKept DEF Pending
  <2>2. CASE UNCHANGED vars
    BY <2>2
  <2> QED
    BY <1>1, <2>1, <2>2
<1> QED
  BY <1>1, InductiveHolds, PTL DEF Spec, UnresolvedAreKept
===============================================================================
