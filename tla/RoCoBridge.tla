----------------------------- MODULE RoCoBridge -----------------------------
(***************************************************************************)
(* The LeRobot bridge: one RoCoBridgeServer, which owns the simulator and  *)
(* an EpisodeStateMachine, and the RoCoGymEnv objects that call it through *)
(* a RemoteRoCoClient.  Requests and replies cross a ZeroMQ REQ/REP pair:  *)
(* the server answers one request at a time, a client has one outstanding, *)
(* and a client that stops waiting keeps a socket it can no longer use.    *)
(* An episode id (a fresh UUID) is the position of its reset in `issued`.  *)
(***************************************************************************)
EXTENDS Naturals, Sequences

CONSTANTS
    Clients,              \* RoCoGymEnv objects, each built once
    MaxEpisodeSteps,      \* config.max_episode_steps of the server
    ClientMaxSteps,       \* client -> its own max_episode_steps
    AllowRemoteShutdown,  \* config.allow_remote_shutdown
    MaxEpisodes,          \* bound: episodes issued before clients stop resetting
    MaxRaises,            \* bound: calls of env.step that raise in an episode
    MaxRestarts           \* bound: restarts of the server process

ASSUME BridgeAssumption ==
    /\ MaxEpisodeSteps \in Nat \ {0}
    /\ ClientMaxSteps \in [Clients -> Nat \ {0}]
    /\ AllowRemoteShutdown \in BOOLEAN
    /\ MaxEpisodes \in Nat /\ MaxRaises \in Nat /\ MaxRestarts \in Nat

VARIABLES
    running,              \* self._running: serve_forever is in its loop
    state,                \* self.episode.state
    episode_id,           \* self.episode.episode_id, or NoEpisode
    step_index,           \* self.episode.step_index
    issued,               \* history: the client each episode was issued to
    trajectory,           \* history: the env.step calls since the last episode was issued
    restarts,
    requests,             \* sent and not yet handled
    replies,              \* sent to a client that still waits
    call,                 \* client -> the method it is in
    socket,               \* client -> its REQ socket
    client_episode,       \* client -> self._episode_id
    client_step,          \* client -> self._step_index
    client_done,          \* client -> self._episode_done
    refused,              \* client -> its last call raised EPISODE_ALREADY_ACTIVE
    disturbed,            \* history: clients that gave up a call or were never told of a reset
    owed                  \* history: clients not yet told that their step raised

serverVars == <<running, state, episode_id, step_index, issued, trajectory, restarts>>
clientVars == <<call, socket, client_episode, client_step, client_done, refused>>
vars == <<serverVars, requests, replies, clientVars, disturbed, owed>>

NoEpisode == 0
Commands == {"QUERY", "RESET", "STEP", "CLOSE_EPISODE"}
EpisodeStatus == {"READY", "EPISODE_ACTIVE", "EPISODE_TERMINATED", "CLOSED"}
Errors == {"none", "EPISODE_ALREADY_ACTIVE", "FAILED"}

\* The calls a client is in while it waits for a reply.
Waiting == {"connecting", "close_then_reset", "resetting", "stepping", "querying", "closing"}

Request == [client : Clients, command : Commands, episode_id : Nat, step_index : Nat]
Reply == [client : Clients, error : Errors, episode_id : Nat, step_index : Nat,
          done : BOOLEAN]

\* The server has been started and no client exists.
Init ==
    /\ running = TRUE /\ state = "READY" /\ episode_id = NoEpisode /\ step_index = 0
    /\ issued = <<>> /\ trajectory = <<>> /\ restarts = 0
    /\ requests = {} /\ replies = {}
    /\ call = [c \in Clients |-> "absent"]
    /\ socket = [c \in Clients |-> "ready"]
    /\ client_episode = [c \in Clients |-> NoEpisode]
    /\ client_step = [c \in Clients |-> 0]
    /\ client_done = [c \in Clients |-> FALSE]
    /\ refused = [c \in Clients |-> FALSE]
    /\ disturbed = {} /\ owed = {}

-----------------------------------------------------------------------------
(* The server: serve_forever takes a request, handle_request answers it.   *)

Received(r, command) == running /\ r \in requests /\ r.command = command

\* The reply of a request whose client gave up waiting is never read.
Answer(r, e, id, index, done) ==
    /\ requests' = requests \ {r}
    /\ replies' = IF socket[r.client] = "waiting"
                    THEN replies \cup {[client |-> r.client, error |-> e, episode_id |-> id,
                                        step_index |-> index, done |-> done]}
                    ELSE replies

Refuse(r, e) ==
    /\ Answer(r, e, NoEpisode, 0, FALSE)
    /\ UNCHANGED <<serverVars, clientVars, disturbed, owed>>

\* PING, HELLO, GET_SPEC, RENDER and GET_STATE_DIGEST change nothing.
HandleQuery(r) == Received(r, "QUERY") /\ \E e \in {"none", "FAILED"} : Refuse(r, e)

RefuseReset(r) ==
    /\ Received(r, "RESET") /\ state = "EPISODE_ACTIVE"
    /\ Refuse(r, "EPISODE_ALREADY_ACTIVE")

\* The agent is not the server's, or seeding or resetting the simulator raises.
ResetFails(r) ==
    /\ Received(r, "RESET") /\ state # "EPISODE_ACTIVE"
    /\ Refuse(r, "FAILED")

\* The episode is active before its first observation is rendered: when that
\* raises, the client is told of the error and never of the episode.
ResetEpisode(r) ==
    /\ Received(r, "RESET") /\ state # "EPISODE_ACTIVE"
    /\ state' = "EPISODE_ACTIVE"
    /\ issued' = Append(issued, r.client)
    /\ episode_id' = Len(issued) + 1
    /\ step_index' = 0
    /\ trajectory' = <<>>
    /\ \/ Answer(r, "none", Len(issued) + 1, 0, FALSE) /\ UNCHANGED disturbed
       \/ Answer(r, "FAILED", NoEpisode, 0, FALSE) /\ disturbed' = disturbed \cup {r.client}
    /\ UNCHANGED <<running, restarts, clientVars, owed>>

\* Mutant of ValidateStep: the step index is not compared.
ValidateEpisodeOnly(r) == state = "EPISODE_ACTIVE" /\ r.episode_id = episode_id

ValidateStep(r) ==
    /\ state = "EPISODE_ACTIVE"
    /\ r.episode_id = episode_id
    /\ r.step_index = step_index

RefuseStep(r) == Received(r, "STEP") /\ ~ValidateStep(r) /\ Refuse(r, "FAILED")

\* The action is rejected before the simulator is touched.
StepFails(r) == Received(r, "STEP") /\ ValidateStep(r) /\ Refuse(r, "FAILED")

\* A call of env.step: whole when it returned and the index was advanced.
Stepped(r, whole) ==
    trajectory' = Append(trajectory,
                         [client |-> r.client, step_index |-> r.step_index, whole |-> whole])

\* env.step raises, or the success test after it does, when the simulator may
\* have moved already; the index stays where it was and is accepted again.
StepRaises(r) ==
    /\ Received(r, "STEP") /\ ValidateStep(r)
    /\ Len(trajectory) < step_index + MaxRaises
    /\ Stepped(r, FALSE)
    /\ owed' = owed \cup {r.client}
    /\ Answer(r, "FAILED", NoEpisode, 0, FALSE)
    /\ UNCHANGED <<running, state, episode_id, step_index, issued, restarts, clientVars,
                   disturbed>>

\* done is env.step's answer, or the is_success derived from its reward.
Truncated(done) == step_index + 1 >= MaxEpisodeSteps /\ ~done

StepEpisode(r, done) ==
    /\ Received(r, "STEP") /\ ValidateStep(r)
    /\ Stepped(r, TRUE)
    /\ step_index' = step_index + 1
    /\ state' = IF done \/ Truncated(done) THEN "EPISODE_TERMINATED" ELSE state
    /\ \/ Answer(r, "none", episode_id, step_index + 1, done \/ Truncated(done))
       \/ Answer(r, "FAILED", NoEpisode, 0, FALSE)
    /\ UNCHANGED <<running, episode_id, issued, restarts, clientVars, disturbed, owed>>

\* CLOSE_EPISODE names no episode: it ends whichever one is open.
CloseEpisode(r) ==
    /\ Received(r, "CLOSE_EPISODE")
    /\ state' = "READY" /\ episode_id' = NoEpisode /\ step_index' = 0
    /\ Answer(r, "none", NoEpisode, 0, FALSE)
    /\ UNCHANGED <<running, issued, trajectory, restarts, clientVars, disturbed, owed>>

\* SHUTDOWN, sent by an operator's own client: the loop ends.
Shutdown ==
    /\ AllowRemoteShutdown /\ running
    /\ running' = FALSE
    /\ state' = "CLOSED" /\ episode_id' = NoEpisode /\ step_index' = 0
    /\ UNCHANGED <<issued, trajectory, restarts, requests, replies, clientVars, disturbed, owed>>

\* The process ends, by SHUTDOWN or by an exception serve_forever does not
\* catch, and is started again: messages on their way may survive it.
Restart ==
    /\ restarts < MaxRestarts
    /\ restarts' = restarts + 1
    /\ running' = TRUE
    /\ state' = "READY" /\ episode_id' = NoEpisode /\ step_index' = 0 /\ trajectory' = <<>>
    /\ requests' \in SUBSET requests
    /\ replies' \in SUBSET replies
    /\ UNCHANGED <<issued, clientVars, disturbed, owed>>

-----------------------------------------------------------------------------
(* The clients: RoCoGymEnv over RemoteRoCoClient.                          *)

\* RemoteRoCoClient.request: the socket sends only when nothing is awaited.
Send(c, pc, command, id, index) ==
    /\ socket[c] = "ready"
    /\ call' = [call EXCEPT ![c] = pc]
    /\ socket' = [socket EXCEPT ![c] = "waiting"]
    /\ requests' = requests \cup {[client |-> c, command |-> command,
                                   episode_id |-> id, step_index |-> index]}
    /\ UNCHANGED <<replies, serverVars, client_episode, client_step, client_done, refused,
                   disturbed, owed>>

\* The constructor's HELLO and GET_SPEC, as one query.
Construct(c) == call[c] = "absent" /\ Send(c, "connecting", "QUERY", NoEpisode, 0)

BeginReset(c) ==
    /\ call[c] = "idle" /\ Len(issued) < MaxEpisodes
    /\ IF client_episode[c] = NoEpisode
         THEN Send(c, "resetting", "RESET", NoEpisode, 0)
         ELSE Send(c, "close_then_reset", "CLOSE_EPISODE", NoEpisode, 0)

BeginStep(c) ==
    /\ call[c] = "idle"
    /\ client_episode[c] # NoEpisode /\ ~client_done[c]
    /\ Send(c, "stepping", "STEP", client_episode[c], client_step[c])

BeginRender(c) == call[c] = "idle" /\ Send(c, "querying", "QUERY", NoEpisode, 0)

BeginClose(c) ==
    /\ call[c] = "idle" /\ client_episode[c] # NoEpisode
    /\ Send(c, "closing", "CLOSE_EPISODE", NoEpisode, 0)

\* A call raises before anything is sent: no active episode, an action that
\* does not fit the action space, or a socket that cannot send.
RaiseAtOnce(c) ==
    /\ call[c] = "idle"
    /\ refused' = [refused EXCEPT ![c] = FALSE]
    /\ UNCHANGED <<serverVars, requests, replies, call, socket, client_episode, client_step,
                   client_done, disturbed, owed>>

\* reset() on a socket that cannot send: close_episode() swallows the error,
\* the episode is forgotten, and the RESET raises.
ForgetEpisode(c) ==
    /\ call[c] = "idle" /\ socket[c] = "stuck"
    /\ client_episode' = [client_episode EXCEPT ![c] = NoEpisode]
    /\ refused' = [refused EXCEPT ![c] = FALSE]
    /\ UNCHANGED <<serverVars, requests, replies, call, socket, client_step, client_done,
                   disturbed, owed>>

\* The env object is finished with.  What it awaited is dropped with its socket
\* (LINGER 0); a request still on its way may or may not be.
Leave(c, pc) ==
    /\ call' = [call EXCEPT ![c] = pc]
    /\ socket' = [socket EXCEPT ![c] = "closed"]
    /\ client_episode' = [client_episode EXCEPT ![c] = NoEpisode]
    /\ replies' = {p \in replies : p.client # c}
    /\ requests' \in {requests, {r \in requests : r.client # c}}
    /\ UNCHANGED <<client_step, client_done>>

\* Mutant of CloseAtOnce: never ends the episode first.
CloseWithoutEnding(c) ==
    /\ call[c] = "idle"
    /\ Leave(c, "closed")
    /\ UNCHANGED <<serverVars, refused, disturbed, owed>>

\* close() without an episode to end, or without a socket to say so.
CloseAtOnce(c) ==
    /\ call[c] = "idle"
    /\ client_episode[c] = NoEpisode \/ socket[c] = "stuck"
    /\ Leave(c, "closed")
    /\ UNCHANGED <<serverVars, refused, disturbed, owed>>

\* The client's process dies, in a call or between two.
Crash(c) ==
    /\ call[c] \notin {"absent", "closed", "dead"}
    /\ Leave(c, "dead")
    /\ disturbed' = disturbed \cup {c}
    /\ UNCHANGED <<serverVars, refused, owed>>

\* The call raises; what the env knows of its episode is left alone.
Raise(c, e) ==
    /\ call' = [call EXCEPT ![c] = "idle"]
    /\ refused' = [refused EXCEPT ![c] = e = "EPISODE_ALREADY_ACTIVE"]
    /\ UNCHANGED <<client_step, client_done>>

\* Mutant of Timeout: the socket is rebuilt, so the call can be made again.
TimeoutRebuilds(c) ==
    /\ socket[c] = "waiting" /\ call[c] \in {"resetting", "stepping", "querying"}
    /\ disturbed' = disturbed \cup {c}
    /\ socket' = [socket EXCEPT ![c] = "ready"]
    /\ replies' = {p \in replies : p.client # c}
    /\ Raise(c, "FAILED")
    /\ UNCHANGED <<serverVars, requests, client_episode, owed>>

\* RCVTIMEO: the socket still awaits the reply, so every later send fails.
Timeout(c) ==
    /\ socket[c] = "waiting"
    /\ disturbed' = disturbed \cup {c}
    /\ \/ /\ call[c] \in {"resetting", "stepping", "querying", "close_then_reset"}
          /\ socket' = [socket EXCEPT ![c] = "stuck"]
          /\ replies' = {p \in replies : p.client # c}
          /\ client_episode' = IF call[c] = "close_then_reset"
                                 THEN [client_episode EXCEPT ![c] = NoEpisode]
                                 ELSE client_episode
          /\ Raise(c, "FAILED")
          /\ UNCHANGED requests
       \/ call[c] = "connecting" /\ Leave(c, "dead") /\ UNCHANGED refused
       \/ call[c] = "closing" /\ Leave(c, "closed") /\ UNCHANGED refused
    /\ UNCHANGED <<serverVars, owed>>

\* request() returns or raises with the reply; the socket can send again.
Receive(c, p) ==
    /\ p \in replies /\ p.client = c /\ socket[c] = "waiting"
    /\ replies' = replies \ {p}
    /\ socket' = [socket EXCEPT ![c] = "ready"]

Constructed(c, p) ==
    /\ call[c] = "connecting" /\ p.error = "none" /\ Receive(c, p)
    /\ call' = [call EXCEPT ![c] = "idle"]
    /\ UNCHANGED <<serverVars, requests, client_episode, client_step, client_done, refused,
                   disturbed, owed>>

ConstructorRaises(c, p) ==
    /\ call[c] = "connecting" /\ p \in replies /\ p.client = c
    /\ Leave(c, "dead")
    /\ UNCHANGED <<serverVars, refused, disturbed, owed>>

\* close_episode() has answered, with or without an error: now the RESET.
ResetAfterClose(c, p) ==
    /\ call[c] = "close_then_reset"
    /\ p \in replies /\ p.client = c
    /\ replies' = replies \ {p}
    /\ client_episode' = [client_episode EXCEPT ![c] = NoEpisode]
    /\ call' = [call EXCEPT ![c] = "resetting"]
    /\ requests' = requests \cup {[client |-> c, command |-> "RESET",
                                   episode_id |-> NoEpisode, step_index |-> 0]}
    /\ UNCHANGED <<serverVars, socket, client_step, client_done, refused, disturbed, owed>>

\* The reply is an error, or its observation is not in the observation space.
CallRaises(c, p) ==
    /\ call[c] \in {"resetting", "stepping", "querying"} /\ Receive(c, p)
    /\ \/ p.error # "none" /\ Raise(c, p.error) /\ owed' = owed \ {c} /\ UNCHANGED disturbed
       \/ /\ p.error = "none" /\ call[c] # "querying"
          /\ Raise(c, "FAILED")
          /\ disturbed' = IF call[c] = "resetting" THEN disturbed \cup {c} ELSE disturbed
          /\ UNCHANGED owed
    /\ UNCHANGED <<serverVars, requests, client_episode>>

Returned(c) ==
    /\ call' = [call EXCEPT ![c] = "idle"]
    /\ refused' = [refused EXCEPT ![c] = FALSE]

Rendered(c, p) ==
    /\ call[c] = "querying" /\ p.error = "none" /\ Receive(c, p)
    /\ Returned(c)
    /\ UNCHANGED <<serverVars, requests, client_episode, client_step, client_done, disturbed, owed>>

ResetReturns(c, p) ==
    /\ call[c] = "resetting" /\ p.error = "none" /\ Receive(c, p)
    /\ client_episode' = [client_episode EXCEPT ![c] = p.episode_id]
    /\ client_step' = [client_step EXCEPT ![c] = p.step_index]
    /\ client_done' = [client_done EXCEPT ![c] = FALSE]
    /\ Returned(c)
    /\ UNCHANGED <<serverVars, requests, disturbed, owed>>

\* Mutant of StepReturns: the server's verdict on the episode is not mirrored.
StepReturnsByLimit(c, p) ==
    /\ call[c] = "stepping" /\ p.error = "none" /\ Receive(c, p)
    /\ client_step' = [client_step EXCEPT ![c] = p.step_index]
    /\ client_done' = [client_done EXCEPT ![c] = p.step_index >= ClientMaxSteps[c]]
    /\ Returned(c)
    /\ UNCHANGED <<serverVars, requests, client_episode, disturbed, owed>>

\* The client's own limit ends the episode here, not on the server.
StepReturns(c, p) ==
    /\ call[c] = "stepping" /\ p.error = "none" /\ Receive(c, p)
    /\ client_step' = [client_step EXCEPT ![c] = p.step_index]
    /\ client_done' = [client_done EXCEPT
                          ![c] = p.done \/ p.step_index >= ClientMaxSteps[c]]
    /\ Returned(c)
    /\ UNCHANGED <<serverVars, requests, client_episode, disturbed, owed>>

Closed(c, p) ==
    /\ call[c] = "closing" /\ p \in replies /\ p.client = c
    /\ Leave(c, "closed")
    /\ UNCHANGED <<serverVars, refused, disturbed, owed>>

-----------------------------------------------------------------------------
Handle(r) ==
    \/ HandleQuery(r)
    \/ RefuseReset(r) \/ ResetFails(r) \/ ResetEpisode(r)
    \/ RefuseStep(r) \/ StepFails(r) \/ StepRaises(r)
    \/ \E done \in BOOLEAN : StepEpisode(r, done)
    \/ CloseEpisode(r)

Begin(c) ==
    \/ Construct(c) \/ BeginReset(c) \/ BeginStep(c) \/ BeginRender(c) \/ BeginClose(c)
    \/ RaiseAtOnce(c) \/ ForgetEpisode(c) \/ CloseAtOnce(c)

Resume(c, p) ==
    \/ Constructed(c, p) \/ ConstructorRaises(c, p)
    \/ ResetAfterClose(c, p) \/ ResetReturns(c, p) \/ StepReturns(c, p)
    \/ Rendered(c, p) \/ CallRaises(c, p) \/ Closed(c, p)

Next ==
    \/ \E r \in requests : Handle(r)
    \/ Shutdown \/ Restart
    \/ \E c \in Clients : Begin(c) \/ Crash(c) \/ Timeout(c)
    \/ \E c \in Clients, p \in replies : Resume(c, p)

Spec == Init /\ [][Next]_vars

-----------------------------------------------------------------------------
(* Properties.                                                             *)

EpisodeIds == 0 .. Len(issued)

TypeOK ==
    /\ running \in BOOLEAN /\ state \in EpisodeStatus
    /\ step_index \in Nat /\ restarts \in Nat
    /\ issued \in Seq(Clients) /\ episode_id \in EpisodeIds
    /\ trajectory \in Seq([client : Clients, step_index : Nat, whole : BOOLEAN])
    /\ requests \subseteq Request /\ replies \subseteq Reply
    /\ call \in [Clients -> Waiting \cup {"absent", "idle", "closed", "dead"}]
    /\ socket \in [Clients -> {"ready", "waiting", "stuck", "closed"}]
    /\ client_episode \in [Clients -> EpisodeIds]
    /\ client_step \in [Clients -> Nat] /\ client_done \in [Clients -> BOOLEAN]
    /\ refused \in [Clients -> BOOLEAN]
    /\ disturbed \subseteq Clients /\ owed \subseteq Clients

Open == state \in {"EPISODE_ACTIVE", "EPISODE_TERMINATED"}

\* The index of the step the server takes after the k-th call of env.step.
Following(k) ==
    IF k = 0 THEN 0
    ELSE IF trajectory[k].whole THEN trajectory[k].step_index + 1 ELSE trajectory[k].step_index

\* While an episode is open, env.step has been called for its steps in order,
\* none left out and none again once it returned, and only at the request of
\* the client whose reset opened it: no request that was delayed, repeated or
\* meant for another episode gets past validate_step.  A step in which env.step
\* raised is called for again, from wherever the simulator was left: that is
\* what the code does (server.py _handle_step, _transition_response).
StepsRunInOrder ==
    Open =>
        /\ step_index = Following(Len(trajectory))
        /\ \A k \in 1 .. Len(trajectory) :
              /\ trajectory[k].client = issued[episode_id]
              /\ trajectory[k].step_index = Following(k - 1)

\* A client whose step raised makes no other until it has read that it did:
\* a call given up or repeated never runs a step once more behind its back
\* (the socket of a call that timed out is never used again, client.py).
RepeatsAreKnown ==
    [][Len(trajectory') > Len(trajectory) =>
          trajectory'[Len(trajectory')].client \notin owed]_vars

\* A client that still believes in the server's episode is at most one step
\* behind it, and knows that it is over unless the step it missed ended it or
\* its own limit is the shorter one (env.py step, the mirrored episode state).
MirrorIsCurrent ==
    \A c \in Clients : client_episode[c] # NoEpisode /\ client_episode[c] = episode_id =>
        /\ client_step[c] <= step_index /\ step_index <= client_step[c] + 1
        /\ state = "EPISODE_TERMINATED" /\ ~client_done[c] =>
              step_index = client_step[c] + 1
        /\ state = "EPISODE_ACTIVE" /\ client_done[c] =>
              client_step[c] >= ClientMaxSteps[c]

\* An active episode has a step left, a terminated one has taken at least one
\* and none has taken more than the server's limit; a client whose episode is
\* not done has a step left by both limits (the two truncation tests).
LimitsAreKept ==
    /\ state = "EPISODE_ACTIVE" => step_index < MaxEpisodeSteps
    /\ state = "EPISODE_TERMINATED" => step_index \in 1 .. MaxEpisodeSteps
    /\ \A c \in Clients : client_episode[c] # NoEpisode /\ ~client_done[c] =>
          client_step[c] < MaxEpisodeSteps /\ client_step[c] < ClientMaxSteps[c]

\* An active episode is one its own client knows of or is about to be told of,
\* unless that very client gave up a call, died, or was refused the reply of its
\* reset: whatever happens to others, the server is not left occupied by nobody
\* (env.py reset closes before it forgets, close() before it leaves).
NoOrphans ==
    state = "EPISODE_ACTIVE" /\ issued[episode_id] \notin disturbed =>
        \/ client_episode[issued[episode_id]] = episode_id
        \/ \E p \in replies : p.client = issued[episode_id] /\ p.episode_id = episode_id

=============================================================================
