-------------------------- MODULE RoCoBridge_proofs --------------------------
(***************************************************************************)
(* Proofs about the bridge, for any set of clients, step limits, number of *)
(* episodes and restarts.                                                  *)
(***************************************************************************)
EXTENDS RoCoBridge, SequenceTheorems, TLAPS

-----------------------------------------------------------------------------
(* The inductive invariant, in parts.                                      *)

\* The command a client waits for the answer of.
CommandOf == [pc \in Waiting |->
                CASE pc \in {"connecting", "querying"} -> "QUERY"
                  [] pc \in {"close_then_reset", "closing"} -> "CLOSE_EPISODE"
                  [] pc = "resetting" -> "RESET"
                  [] pc = "stepping" -> "STEP"]

\* A client and its socket agree on whether something is awaited.
SocketInv ==
    \A c \in Clients :
        /\ call[c] \in Waiting <=> socket[c] = "waiting"
        /\ call[c] = "absent" => socket[c] = "ready"
        /\ call[c] \in {"closed", "dead"} => socket[c] = "closed"
        /\ socket[c] = "stuck" => c \in disturbed

\* A client has at most one message under way, and it belongs to its call.
OutstandingInv ==
    /\ \A r \in requests :
          /\ socket[r.client] # "ready"
          /\ socket[r.client] = "waiting" => r.command = CommandOf[call[r.client]]
          /\ \A q \in requests : q.client = r.client => q = r
    /\ \A p \in replies :
          /\ socket[p.client] = "waiting"
          /\ \A q \in replies : q.client = p.client => q = p
          /\ \A r \in requests : r.client # p.client

\* Whatever names an episode is the client it was issued to, or its message.
OwnerInv ==
    /\ \A c \in Clients : client_episode[c] # NoEpisode => issued[client_episode[c]] = c
    /\ \A r \in requests : r.command = "STEP" =>
          r.episode_id \in 1 .. Len(issued) /\ issued[r.episode_id] = r.client
    /\ \A p \in replies : p.episode_id # NoEpisode =>
          p.episode_id \in 1 .. Len(issued) /\ issued[p.episode_id] = p.client

\* The server's own state: an open episode has an id and its steps.
ServerInv ==
    /\ Open <=> episode_id # NoEpisode
    /\ StepsRunInOrder
    /\ state = "EPISODE_ACTIVE" => step_index < MaxEpisodeSteps
    /\ state = "EPISODE_TERMINATED" => step_index \in 1 .. MaxEpisodeSteps

\* What each call leaves of the mirrored episode while it waits.
CallInv ==
    \A c \in Clients :
        /\ call[c] \in {"absent", "connecting", "resetting", "closed", "dead"} =>
              client_episode[c] = NoEpisode
        /\ call[c] = "stepping" => client_episode[c] # NoEpisode /\ ~client_done[c]

\* What a request for a step says, compared with its sender.
RequestFits(r) ==
    r.command = "STEP" =>
        /\ call[r.client] = "stepping" => r.episode_id = client_episode[r.client]
        /\ client_episode[r.client] = r.episode_id => r.step_index = client_step[r.client]

\* What a reply says, compared with its reader and with the server.
ReplyFits(p) ==
    /\ p.episode_id # NoEpisode =>
          p.error = "none" /\ call[p.client] \in {"resetting", "stepping"}
    /\ p.error = "none" /\ call[p.client] = "resetting" =>
          /\ p.episode_id # NoEpisode /\ p.step_index = 0
          /\ p.episode_id = episode_id => state = "EPISODE_ACTIVE" /\ step_index = 0
    /\ p.error = "none" /\ call[p.client] = "stepping" =>
          /\ p.episode_id = client_episode[p.client]
          /\ p.step_index = client_step[p.client] + 1
          /\ ~p.done => p.step_index < MaxEpisodeSteps
          /\ p.episode_id = episode_id =>
                step_index = p.step_index /\ (p.done <=> state = "EPISODE_TERMINATED")
    /\ call[p.client] \in {"close_then_reset", "closing"} =>
          client_episode[p.client] # episode_id \/ episode_id = NoEpisode

MessageInv ==
    /\ \A r \in requests : RequestFits(r)
    /\ \A p \in replies : ReplyFits(p)

\* The client's part of LimitsAreKept; the server's is in ServerInv.
ClientLimits ==
    \A c \in Clients : client_episode[c] # NoEpisode /\ ~client_done[c] =>
        client_step[c] < MaxEpisodeSteps /\ client_step[c] < ClientMaxSteps[c]

\* A client that has given up no call waits for the answer of its request.
QuietInv == \A r \in requests : r.client \notin disturbed => socket[r.client] = "waiting"

\* A client whose step raised is about to read so, or cannot send any more.
OwedInv ==
    \A c \in owed :
        /\ \A r \in requests : r.client # c
        /\ \A p \in replies : p.client = c => p.error # "none"
        /\ call[c] = "stepping" \/ socket[c] \in {"stuck", "closed"}

IInv ==
    /\ TypeOK /\ SocketInv /\ OutstandingInv /\ OwnerInv /\ ServerInv /\ CallInv
    /\ MessageInv /\ MirrorIsCurrent /\ ClientLimits /\ QuietInv /\ NoOrphans /\ OwedInv

-----------------------------------------------------------------------------
(* What a step can be: the actions, with those that change the same state  *)
(* in the same way taken together.                                         *)

\* A request is answered and changes nothing that a reply tells of; only a query
\* may succeed so, and only a step that raises has been in the simulator.
Refusal ==
    \E r \in requests, e \in Errors :
        /\ Answer(r, e, NoEpisode, 0, FALSE)
        /\ UNCHANGED <<running, state, episode_id, step_index, issued, restarts, clientVars,
                       disturbed>>
        /\ UNCHANGED <<trajectory, owed>> \/ StepRaises(r)
        /\ r.command # "CLOSE_EPISODE" /\ (e = "none" => r.command = "QUERY")

\* A client starts a call with a request.
Sending ==
    \E c \in Clients, pc \in Waiting, r \in Request :
        /\ r.client = c /\ r.command = CommandOf[pc]
        /\ call[c] \in {"absent", "idle"}
        /\ pc \in {"connecting", "resetting"} => client_episode[c] = NoEpisode
        /\ pc = "stepping" =>
              /\ client_episode[c] # NoEpisode /\ ~client_done[c]
              /\ r.episode_id = client_episode[c] /\ r.step_index = client_step[c]
        /\ Send(c, pc, r.command, r.episode_id, r.step_index)

\* An env object is finished with, and if nothing was lost it holds no episode
\* or has just been told that its episode is closed.
Leaving ==
    \E c \in Clients, pc \in {"closed", "dead"} :
        /\ Leave(c, pc) /\ UNCHANGED <<serverVars, refused, owed>>
        /\ disturbed' \in {disturbed, disturbed \cup {c}}
        /\ \/ c \in disturbed'
           \/ call[c] = "idle" /\ socket[c] # "waiting" /\ client_episode[c] = NoEpisode
           \/ call[c] \in {"connecting", "closing"} /\ \E p \in replies : p.client = c

\* A call raises and leaves the socket unusable.
GivingUp ==
    \E c \in Clients :
        /\ call[c] \in {"resetting", "stepping", "querying", "close_then_reset"}
        /\ socket' = [socket EXCEPT ![c] = "stuck"]
        /\ replies' = {p \in replies : p.client # c}
        /\ client_episode' \in {client_episode, [client_episode EXCEPT ![c] = NoEpisode]}
        /\ Raise(c, "FAILED")
        /\ disturbed' = disturbed \cup {c}
        /\ UNCHANGED <<serverVars, requests, owed>>

LEMMA SendingIntro ==
    ASSUME NEW c \in Clients, NEW pc \in Waiting, NEW id \in Nat, NEW index \in Nat,
           call[c] \in {"absent", "idle"},
           pc \in {"connecting", "resetting"} => client_episode[c] = NoEpisode,
           pc = "stepping" =>
              /\ client_episode[c] # NoEpisode /\ ~client_done[c]
              /\ id = client_episode[c] /\ index = client_step[c],
           Send(c, pc, CommandOf[pc], id, index)
    PROVE  Sending
<1> DEFINE r == [client |-> c, command |-> CommandOf[pc], episode_id |-> id,
                 step_index |-> index]
<1>1. r \in Request
  BY DEF Request, CommandOf, Commands, Waiting
<1>2. /\ r.client = c /\ r.command = CommandOf[pc]
      /\ r.episode_id = id /\ r.step_index = index
  OBVIOUS
<1> HIDE DEF r
<1>3. QED
  BY <1>1, <1>2, Zenon DEF Sending

LEMMA LeavingIntro ==
    ASSUME NEW c \in Clients, NEW pc \in {"closed", "dead"},
           Leave(c, pc), UNCHANGED <<serverVars, refused, owed>>,
           disturbed' \in {disturbed, disturbed \cup {c}},
           \/ c \in disturbed'
           \/ call[c] = "idle" /\ socket[c] # "waiting" /\ client_episode[c] = NoEpisode
           \/ call[c] \in {"connecting", "closing"} /\ \E p \in replies : p.client = c
    PROVE  Leaving
BY Zenon DEF Leaving

LEMMA StepCases ==
    ASSUME TypeOK, SocketInv, CallInv, Next
    PROVE  \/ Refusal \/ Sending \/ Leaving \/ GivingUp
           \/ \E r \in requests : ResetEpisode(r) \/ CloseEpisode(r)
                                   \/ \E done \in BOOLEAN : StepEpisode(r, done)
           \/ Shutdown \/ Restart
           \/ \E c \in Clients : RaiseAtOnce(c) \/ ForgetEpisode(c)
           \/ \E c \in Clients, p \in replies :
                 \/ Constructed(c, p) \/ ResetAfterClose(c, p) \/ ResetReturns(c, p)
                 \/ StepReturns(c, p) \/ Rendered(c, p) \/ CallRaises(c, p)
<1>1. ASSUME NEW r \in requests, Handle(r)
      PROVE  \/ Refusal \/ ResetEpisode(r) \/ CloseEpisode(r)
             \/ \E done \in BOOLEAN : StepEpisode(r, done)
  <2>1. ASSUME NEW e \in Errors, Refuse(r, e), r.command # "CLOSE_EPISODE",
               e = "none" => r.command = "QUERY"
        PROVE  Refusal
    BY <2>1, Zenon DEF Refuse, Refusal, serverVars
  <2>2. CASE StepRaises(r)
    <3>1. /\ Answer(r, "FAILED", NoEpisode, 0, FALSE) /\ "FAILED" \in Errors
          /\ UNCHANGED <<running, state, episode_id, step_index, issued, restarts, clientVars,
                         disturbed>>
          /\ r.command # "CLOSE_EPISODE" /\ "FAILED" # "none"
      BY <2>2 DEF StepRaises, Received, Errors
    <3>2. QED
      BY <2>2, <3>1, Zenon DEF Refusal
  <2>3. QED
    BY <1>1, <2>1, <2>2 DEF Handle, HandleQuery, RefuseReset, ResetFails, RefuseStep, StepFails,
                            Received, Errors
<1>2. ASSUME NEW c \in Clients, Begin(c)
      PROVE  Sending \/ Leaving \/ RaiseAtOnce(c) \/ ForgetEpisode(c)
  <2>1. /\ NoEpisode \in Nat /\ 0 \in Nat
        /\ client_episode[c] \in Nat /\ client_step[c] \in Nat
    BY DEF NoEpisode, TypeOK, EpisodeIds
  <2>2. ASSUME NEW pc \in Waiting
        PROVE  CommandOf[pc] =
                 CASE pc \in {"connecting", "querying"} -> "QUERY"
                   [] pc \in {"close_then_reset", "closing"} -> "CLOSE_EPISODE"
                   [] pc = "resetting" -> "RESET"
                   [] pc = "stepping" -> "STEP"
    BY DEF CommandOf
  <2>3. CASE Construct(c)
    <3>1. "connecting" \in Waiting /\ CommandOf["connecting"] = "QUERY"
      BY <2>2 DEF Waiting
    <3>2. call[c] = "absent" /\ client_episode[c] = NoEpisode
      BY <2>3 DEF Construct, CallInv
    <3>3. QED
      BY <2>1, <2>3, <3>1, <3>2, SendingIntro DEF Construct
  <2>4. CASE BeginReset(c)
    <3>1. /\ "resetting" \in Waiting /\ CommandOf["resetting"] = "RESET"
          /\ "close_then_reset" \in Waiting
          /\ CommandOf["close_then_reset"] = "CLOSE_EPISODE"
      BY <2>2 DEF Waiting
    <3>2. QED
      BY <2>1, <2>4, <3>1, SendingIntro DEF BeginReset
  <2>5. CASE BeginStep(c)
    <3>1. "stepping" \in Waiting /\ CommandOf["stepping"] = "STEP"
      BY <2>2 DEF Waiting
    <3>2. QED
      BY <2>1, <2>5, <3>1, SendingIntro DEF BeginStep
  <2>6. CASE BeginRender(c)
    <3>1. "querying" \in Waiting /\ CommandOf["querying"] = "QUERY"
      BY <2>2 DEF Waiting
    <3>2. QED
      BY <2>1, <2>6, <3>1, SendingIntro DEF BeginRender
  <2>7. CASE BeginClose(c)
    <3>1. "closing" \in Waiting /\ CommandOf["closing"] = "CLOSE_EPISODE"
      BY <2>2 DEF Waiting
    <3>2. QED
      BY <2>1, <2>7, <3>1, SendingIntro DEF BeginClose
  <2>8. CASE CloseAtOnce(c)
    <3>1. socket[c] = "stuck" => c \in disturbed
      BY DEF SocketInv
    <3>2. socket[c] # "waiting"
      BY <2>8 DEF CloseAtOnce, SocketInv, Waiting
    <3>3. QED
      BY <2>8, <3>1, <3>2, LeavingIntro DEF CloseAtOnce
  <2>9. QED
    BY <1>2, <2>3, <2>4, <2>5, <2>6, <2>7, <2>8 DEF Begin
<1>3. ASSUME NEW c \in Clients, Crash(c) \/ Timeout(c)
      PROVE  Leaving \/ GivingUp
  <2>1. CASE Crash(c)
    BY <2>1, LeavingIntro DEF Crash
  <2>2. CASE Timeout(c) /\ call[c] \in {"connecting", "closing"}
    BY <2>2, LeavingIntro DEF Timeout
  <2>3. CASE Timeout(c) /\ call[c] \notin {"connecting", "closing"}
    <3>1. /\ call[c] \in {"resetting", "stepping", "querying", "close_then_reset"}
          /\ socket' = [socket EXCEPT ![c] = "stuck"]
          /\ replies' = {p \in replies : p.client # c}
          /\ Raise(c, "FAILED") /\ disturbed' = disturbed \cup {c}
          /\ client_episode' = IF call[c] = "close_then_reset"
                                 THEN [client_episode EXCEPT ![c] = NoEpisode]
                                 ELSE client_episode
          /\ UNCHANGED <<serverVars, requests, owed>>
      BY <2>3 DEF Timeout
    <3>2. client_episode' \in {client_episode, [client_episode EXCEPT ![c] = NoEpisode]}
      BY <3>1
    <3>3. QED
      BY <3>1, <3>2, Zenon DEF GivingUp
  <2>4. QED
    BY <1>3, <2>1, <2>2, <2>3
<1>4. ASSUME NEW c \in Clients, NEW p \in replies, Resume(c, p)
      PROVE  \/ Leaving
             \/ Constructed(c, p) \/ ResetAfterClose(c, p) \/ ResetReturns(c, p)
             \/ StepReturns(c, p) \/ Rendered(c, p) \/ CallRaises(c, p)
  <2>2. CASE ConstructorRaises(c, p)
    BY <2>2, LeavingIntro DEF ConstructorRaises
  <2>3. CASE Closed(c, p)
    BY <2>3, LeavingIntro DEF Closed
  <2>4. QED
    BY <1>4, <2>2, <2>3 DEF Resume
<1>5. QED
  BY <1>1, <1>2, <1>3, <1>4, Zenon DEF Next

-----------------------------------------------------------------------------
(* Types.                                                                  *)

LEMMA AnswerType ==
    ASSUME TypeOK, NEW r \in requests, NEW e \in Errors, NEW id \in Nat, NEW index \in Nat,
           NEW done \in BOOLEAN, Answer(r, e, id, index, done)
    PROVE  requests' \subseteq Request /\ replies' \subseteq Reply
<1>1. r \in Request /\ requests \subseteq Request /\ replies \subseteq Reply
  BY DEF TypeOK
<1>2. [client |-> r.client, error |-> e, episode_id |-> id, step_index |-> index,
       done |-> done] \in Reply
  BY <1>1 DEF Request, Reply
<1>3. QED
  BY <1>1, <1>2 DEF Answer

LEMMA TypeStep ==
    ASSUME TypeOK, SocketInv, CallInv, OwnerInv, Next
    PROVE  TypeOK'
<1>0. Len(issued) \in Nat /\ 0 \in 0 .. Len(issued) /\ Len(issued) + 1 \in Nat
  BY DEF TypeOK
<1> USE DEF TypeOK, EpisodeIds, NoEpisode
<1>1. CASE Refusal
  <2>1. PICK r \in requests, e \in Errors :
             /\ Answer(r, e, NoEpisode, 0, FALSE)
             /\ UNCHANGED <<running, state, episode_id, step_index, issued, restarts,
                            clientVars, disturbed>>
             /\ UNCHANGED <<trajectory, owed>> \/ StepRaises(r)
    BY <1>1, Zenon DEF Refusal
  <2>2. requests' \subseteq Request /\ replies' \subseteq Reply
    BY <2>1, AnswerType
  <2>3. /\ trajectory' \in Seq([client : Clients, step_index : Nat, whole : BOOLEAN])
        /\ owed' \subseteq Clients
    <3>1. CASE UNCHANGED <<trajectory, owed>>
      BY <3>1
    <3>2. CASE \E q \in requests : StepRaises(q)
      BY <3>2 DEF StepRaises, Stepped, Request
    <3>3. QED
      BY <2>1, <3>1, <3>2
  <2>4. QED
    BY <2>1, <2>2, <2>3 DEF clientVars
<1>2. CASE Sending
  <2>1. PICK c \in Clients, pc \in Waiting, r \in Request :
             r.client = c /\ Send(c, pc, r.command, r.episode_id, r.step_index)
    BY <1>2 DEF Sending
  <2>2. [client |-> c, command |-> r.command, episode_id |-> r.episode_id,
         step_index |-> r.step_index] \in Request
    BY DEF Request
  <2>3. QED
    BY <2>1, <2>2 DEF Send, serverVars
<1>3. CASE Leaving
  BY <1>3 DEF Leaving, Leave, serverVars
<1>4. CASE GivingUp
  <2>1. client_episode' \in [Clients -> 0 .. Len(issued)]
    BY <1>4, <1>0 DEF GivingUp
  <2>2. QED
    BY <1>4, <2>1 DEF GivingUp, Raise, serverVars
<1>5. ASSUME NEW r \in requests, ResetEpisode(r)
      PROVE  TypeOK'
  <2>1. requests' \subseteq Request /\ replies' \subseteq Reply
    BY <1>5, <1>0, AnswerType DEF ResetEpisode, Errors
  <2>2. r.client \in Clients
    BY DEF Request
  <2>3. issued' \in Seq(Clients) /\ Len(issued') = Len(issued) + 1
    BY <1>5, <2>2 DEF ResetEpisode
  <2>4. client_episode' \in [Clients -> 0 .. Len(issued')]
    BY <1>5, <1>0, <2>3 DEF ResetEpisode, clientVars
  <2>5. disturbed' \subseteq Clients
    BY <1>5, <2>2 DEF ResetEpisode
  <2>6. QED
    BY <1>5, <1>0, <2>1, <2>3, <2>4, <2>5 DEF ResetEpisode, clientVars, EpisodeStatus
<1>6. ASSUME NEW r \in requests, CloseEpisode(r)
      PROVE  TypeOK'
  <2>1. requests' \subseteq Request /\ replies' \subseteq Reply
    BY <1>6, AnswerType DEF CloseEpisode, Errors
  <2>2. QED
    BY <1>6, <1>0, <2>1 DEF CloseEpisode, clientVars, EpisodeStatus
<1>7. ASSUME NEW r \in requests, NEW done \in BOOLEAN, StepEpisode(r, done)
      PROVE  TypeOK'
  <2>1. requests' \subseteq Request /\ replies' \subseteq Reply
    <3>1. (done \/ Truncated(done)) \in BOOLEAN
      BY DEF Truncated
    <3>2. episode_id \in Nat /\ step_index + 1 \in Nat
      BY <1>0
    <3>3. QED
      BY <1>7, <3>1, <3>2, AnswerType DEF StepEpisode, Errors
  <2>2. trajectory' \in Seq([client : Clients, step_index : Nat, whole : BOOLEAN])
    BY <1>7 DEF StepEpisode, Stepped, Request
  <2>3. QED
    BY <1>7, <2>1, <2>2 DEF StepEpisode, clientVars, EpisodeStatus
<1>8. CASE Shutdown
  BY <1>8, <1>0 DEF Shutdown, clientVars, EpisodeStatus
<1>9. CASE Restart
  BY <1>9, <1>0 DEF Restart, clientVars, EpisodeStatus
<1>10. ASSUME NEW c \in Clients, RaiseAtOnce(c)
      PROVE  TypeOK'
  BY <1>10, <1>0  DEF RaiseAtOnce, Receive, Returned, serverVars, clientVars, Waiting
<1>11. ASSUME NEW c \in Clients, ForgetEpisode(c)
      PROVE  TypeOK'
  BY <1>11, <1>0  DEF ForgetEpisode, Receive, Returned, serverVars, clientVars, Waiting
<1>12. ASSUME NEW c \in Clients, NEW p \in replies, Constructed(c, p)
      PROVE  TypeOK'
  BY <1>12, <1>0  DEF Constructed, Receive, Returned, serverVars, clientVars, Waiting
<1>13. ASSUME NEW c \in Clients, NEW p \in replies, ResetAfterClose(c, p)
      PROVE  TypeOK'
  <2>1. [client |-> c, command |-> "RESET", episode_id |-> NoEpisode, step_index |-> 0]
          \in Request
    BY DEF Request, Commands
  <2>2. QED
    BY <1>13, <1>0, <2>1 DEF ResetAfterClose, serverVars, Waiting
<1>14. ASSUME NEW c \in Clients, NEW p \in replies, ResetReturns(c, p)
      PROVE  TypeOK'
  <2>1. p.episode_id \in 0 .. Len(issued) /\ p.step_index \in Nat
    BY DEF OwnerInv, Reply
  <2>2. QED
    BY <1>14, <2>1 DEF ResetReturns, Receive, Returned, serverVars
<1>15. ASSUME NEW c \in Clients, NEW p \in replies, StepReturns(c, p)
      PROVE  TypeOK'
  <2>1. p.step_index \in Nat /\ p.done \in BOOLEAN
    BY DEF Reply
  <2>2. (p.done \/ p.step_index >= ClientMaxSteps[c]) \in BOOLEAN
    OBVIOUS
  <2>3. QED
    BY <1>15, <2>1, <2>2 DEF StepReturns, Receive, Returned, serverVars
<1>16. ASSUME NEW c \in Clients, NEW p \in replies, Rendered(c, p)
      PROVE  TypeOK'
  BY <1>16, <1>0  DEF Rendered, Receive, Returned, serverVars, clientVars, Waiting
<1>17. ASSUME NEW c \in Clients, NEW p \in replies, CallRaises(c, p)
      PROVE  TypeOK'
  BY <1>17 DEF CallRaises, Raise, Receive, serverVars
<1>18. QED
  BY <1>1, <1>2, <1>3, <1>4, <1>5, <1>6, <1>7, <1>8, <1>9, <1>10, <1>11, <1>12, <1>13,
     <1>14, <1>15, <1>16, <1>17, StepCases, Zenon




-----------------------------------------------------------------------------
(* Sockets and calls.                                                      *)

LEMMA SocketStep ==
    ASSUME TypeOK, SocketInv, CallInv, Next
    PROVE  SocketInv'
<1>1. CASE Refusal
  BY <1>1 DEF Refusal, clientVars, SocketInv
<1>2. CASE Sending
  <2>1. PICK c \in Clients, pc \in Waiting, r \in Request :
             Send(c, pc, r.command, r.episode_id, r.step_index)
    BY <1>2, Zenon DEF Sending
  <2>2. /\ socket' = [socket EXCEPT ![c] = "waiting"]
        /\ call' = [call EXCEPT ![c] = pc] /\ disturbed' = disturbed
    BY <2>1 DEF Send
  <2>3. QED
    BY <2>2 DEF TypeOK, SocketInv, Waiting
<1>3. CASE Leaving
  BY <1>3 DEF Leaving, Leave, TypeOK, SocketInv, Waiting
<1>4. CASE GivingUp
  BY <1>4 DEF GivingUp, Raise, TypeOK, SocketInv, Waiting
<1>5. ASSUME NEW r \in requests, ResetEpisode(r)
      PROVE  SocketInv'
  <2>1. call' = call /\ socket' = socket
    BY <1>5 DEF ResetEpisode, clientVars
  <2>2. disturbed \subseteq disturbed'
    BY <1>5 DEF ResetEpisode
  <2>3. QED
    BY <2>1, <2>2 DEF SocketInv
<1>6. ASSUME NEW r \in requests, CloseEpisode(r)
      PROVE  SocketInv'
  BY <1>6 DEF CloseEpisode, Receive, Returned, Raise, clientVars,
              TypeOK, SocketInv, Waiting
<1>7. ASSUME NEW r \in requests, NEW done \in BOOLEAN, StepEpisode(r, done)
      PROVE  SocketInv'
  BY <1>7 DEF StepEpisode, Receive, Returned, Raise, clientVars,
              TypeOK, SocketInv, Waiting
<1>8. CASE Shutdown
  BY <1>8 DEF Shutdown, Receive, Returned, Raise, clientVars,
              TypeOK, SocketInv, Waiting
<1>9. CASE Restart
  BY <1>9 DEF Restart, Receive, Returned, Raise, clientVars,
              TypeOK, SocketInv, Waiting
<1>10. ASSUME NEW c \in Clients, RaiseAtOnce(c)
      PROVE  SocketInv'
  BY <1>10 DEF RaiseAtOnce, Receive, Returned, Raise, clientVars,
              TypeOK, SocketInv, Waiting
<1>11. ASSUME NEW c \in Clients, ForgetEpisode(c)
      PROVE  SocketInv'
  BY <1>11 DEF ForgetEpisode, Receive, Returned, Raise, clientVars,
              TypeOK, SocketInv, Waiting
<1>12. ASSUME NEW c \in Clients, NEW p \in replies, Constructed(c, p)
      PROVE  SocketInv'
  BY <1>12 DEF Constructed, Receive, Returned, Raise, clientVars,
              TypeOK, SocketInv, Waiting
<1>13. ASSUME NEW c \in Clients, NEW p \in replies, ResetAfterClose(c, p)
      PROVE  SocketInv'
  BY <1>13 DEF ResetAfterClose, Receive, Returned, Raise, clientVars,
              TypeOK, SocketInv, Waiting
<1>14. ASSUME NEW c \in Clients, NEW p \in replies, ResetReturns(c, p)
      PROVE  SocketInv'
  BY <1>14 DEF ResetReturns, Receive, Returned, Raise, clientVars,
              TypeOK, SocketInv, Waiting
<1>15. ASSUME NEW c \in Clients, NEW p \in replies, StepReturns(c, p)
      PROVE  SocketInv'
  BY <1>15 DEF StepReturns, Receive, Returned, Raise, clientVars,
              TypeOK, SocketInv, Waiting
<1>16. ASSUME NEW c \in Clients, NEW p \in replies, Rendered(c, p)
      PROVE  SocketInv'
  BY <1>16 DEF Rendered, Receive, Returned, Raise, clientVars,
              TypeOK, SocketInv, Waiting
<1>17. ASSUME NEW c \in Clients, NEW p \in replies, CallRaises(c, p)
      PROVE  SocketInv'
  BY <1>17 DEF CallRaises, Receive, Returned, Raise, clientVars,
              TypeOK, SocketInv, Waiting
<1>18. QED
  BY <1>1, <1>2, <1>3, <1>4, <1>5, <1>6, <1>7, <1>8, <1>9, <1>10, <1>11, <1>12, <1>13,
     <1>14, <1>15, <1>16, <1>17, StepCases, Zenon

LEMMA CallStep ==
    ASSUME TypeOK, SocketInv, CallInv, Next
    PROVE  CallInv'
<1> USE DEF TypeOK, SocketInv, CallInv, Waiting, NoEpisode
<1>1. CASE Refusal
  BY <1>1 DEF Refusal, clientVars, SocketInv
<1>2. CASE Sending
  BY <1>2 DEF Sending, Send
<1>3. CASE Leaving
  BY <1>3 DEF Leaving, Leave, TypeOK, SocketInv, Waiting
<1>4. CASE GivingUp
  BY <1>4 DEF GivingUp, Raise, TypeOK, SocketInv, Waiting
<1>5. ASSUME NEW r \in requests, ResetEpisode(r)
      PROVE  CallInv'
  BY <1>5 DEF ResetEpisode, Receive, Returned, Raise, clientVars
<1>6. ASSUME NEW r \in requests, CloseEpisode(r)
      PROVE  CallInv'
  BY <1>6 DEF CloseEpisode, Receive, Returned, Raise, clientVars
<1>7. ASSUME NEW r \in requests, NEW done \in BOOLEAN, StepEpisode(r, done)
      PROVE  CallInv'
  BY <1>7 DEF StepEpisode, Receive, Returned, Raise, clientVars
<1>8. CASE Shutdown
  BY <1>8 DEF Shutdown, Receive, Returned, Raise, clientVars
<1>9. CASE Restart
  BY <1>9 DEF Restart, Receive, Returned, Raise, clientVars
<1>10. ASSUME NEW c \in Clients, RaiseAtOnce(c)
      PROVE  CallInv'
  BY <1>10 DEF RaiseAtOnce, Receive, Returned, Raise, clientVars
<1>11. ASSUME NEW c \in Clients, ForgetEpisode(c)
      PROVE  CallInv'
  BY <1>11 DEF ForgetEpisode, Receive, Returned, Raise, clientVars
<1>12. ASSUME NEW c \in Clients, NEW p \in replies, Constructed(c, p)
      PROVE  CallInv'
  BY <1>12 DEF Constructed, Receive, Returned, Raise, clientVars
<1>13. ASSUME NEW c \in Clients, NEW p \in replies, ResetAfterClose(c, p)
      PROVE  CallInv'
  BY <1>13 DEF ResetAfterClose, Receive, Returned, Raise, clientVars
<1>14. ASSUME NEW c \in Clients, NEW p \in replies, ResetReturns(c, p)
      PROVE  CallInv'
  BY <1>14 DEF ResetReturns, Receive, Returned, Raise, clientVars
<1>15. ASSUME NEW c \in Clients, NEW p \in replies, StepReturns(c, p)
      PROVE  CallInv'
  BY <1>15 DEF StepReturns, Receive, Returned, Raise, clientVars
<1>16. ASSUME NEW c \in Clients, NEW p \in replies, Rendered(c, p)
      PROVE  CallInv'
  BY <1>16 DEF Rendered, Receive, Returned, Raise, clientVars
<1>17. ASSUME NEW c \in Clients, NEW p \in replies, CallRaises(c, p)
      PROVE  CallInv'
  BY <1>17 DEF CallRaises, Receive, Returned, Raise, clientVars
<1>18. QED
  BY <1>1, <1>2, <1>3, <1>4, <1>5, <1>6, <1>7, <1>8, <1>9, <1>10, <1>11, <1>12, <1>13,
     <1>14, <1>15, <1>16, <1>17, StepCases, Zenon

-----------------------------------------------------------------------------
(* Outstanding: one message under way per client.                          *)

LEMMA AnswerKeepsOutstanding ==
    ASSUME TypeOK, OutstandingInv, UNCHANGED <<call, socket>>,
           NEW r \in requests, NEW e, NEW id, NEW index, NEW done,
           Answer(r, e, id, index, done)
    PROVE  OutstandingInv'
<1> DEFINE p == [client |-> r.client, error |-> e, episode_id |-> id, step_index |-> index,
                 done |-> done]
<1>1. /\ requests' = requests \ {r}
      /\ replies' = IF socket[r.client] = "waiting" THEN replies \cup {p} ELSE replies
  BY DEF Answer
<1>2. p.client = r.client
  OBVIOUS
<1> HIDE DEF p
<1>3. QED
  BY <1>1, <1>2 DEF OutstandingInv

LEMMA OutstandingStep ==
    ASSUME TypeOK, SocketInv, CallInv, OutstandingInv, Next
    PROVE  OutstandingInv'
<1> USE DEF TypeOK, OutstandingInv, Request, Reply
<1>1. CASE Refusal
  <2>1. PICK r \in requests, e \in Errors :
             Answer(r, e, NoEpisode, 0, FALSE) /\ UNCHANGED clientVars
    BY <1>1, Zenon DEF Refusal
  <2>2. QED
    BY <2>1, AnswerKeepsOutstanding DEF clientVars
<1>2. CASE Sending
  <2>1. PICK c \in Clients, pc \in Waiting, r \in Request :
             /\ r.command = CommandOf[pc]
             /\ Send(c, pc, r.command, r.episode_id, r.step_index)
    BY <1>2, Zenon DEF Sending
  <2> DEFINE new == [client |-> c, command |-> r.command, episode_id |-> r.episode_id,
                     step_index |-> r.step_index]
  <2>2. /\ socket[c] = "ready" /\ requests' = requests \cup {new} /\ replies' = replies
        /\ socket' = [socket EXCEPT ![c] = "waiting"] /\ call' = [call EXCEPT ![c] = pc]
    BY <2>1 DEF Send
  <2>3. new.client = c /\ new.command = CommandOf[pc]
    BY <2>1
  <2>4. /\ \A q \in requests : q.client # c
        /\ \A q \in replies : q.client # c
    BY <2>2
  <2> HIDE DEF new
  <2>5. QED
    BY <2>2, <2>3, <2>4
<1>3. CASE Leaving
  <2>1. PICK c \in Clients, pc \in {"closed", "dead"} : Leave(c, pc)
    BY <1>3, Zenon DEF Leaving
  <2>2. QED
    BY <2>1 DEF Leave
<1>4. CASE GivingUp
  BY <1>4 DEF GivingUp, Raise
<1>5. ASSUME NEW r \in requests, ResetEpisode(r)
      PROVE  OutstandingInv'
  BY <1>5, AnswerKeepsOutstanding DEF ResetEpisode, clientVars
<1>6. ASSUME NEW r \in requests, CloseEpisode(r)
      PROVE  OutstandingInv'
  BY <1>6, AnswerKeepsOutstanding DEF CloseEpisode, clientVars
<1>7. ASSUME NEW r \in requests, NEW done \in BOOLEAN, StepEpisode(r, done)
      PROVE  OutstandingInv'
  BY <1>7, AnswerKeepsOutstanding DEF StepEpisode, clientVars
<1>8. CASE Shutdown
  BY <1>8 DEF Shutdown, clientVars
<1>9. CASE Restart
  BY <1>9 DEF Restart, clientVars
<1>10. ASSUME NEW c \in Clients, RaiseAtOnce(c)
      PROVE  OutstandingInv'
  BY <1>10 DEF RaiseAtOnce
<1>11. ASSUME NEW c \in Clients, ForgetEpisode(c)
      PROVE  OutstandingInv'
  BY <1>11 DEF ForgetEpisode
<1>12. ASSUME NEW c \in Clients, NEW p \in replies, Constructed(c, p)
      PROVE  OutstandingInv'
  BY <1>12 DEF Constructed, Receive, Returned, Raise
<1>13. ASSUME NEW c \in Clients, NEW p \in replies, ResetAfterClose(c, p)
      PROVE  OutstandingInv'
  <2> DEFINE new == [client |-> c, command |-> "RESET", episode_id |-> NoEpisode,
                     step_index |-> 0]
  <2>1. /\ requests' = requests \cup {new} /\ replies' = replies \ {p} /\ p.client = c
        /\ socket' = socket /\ call' = [call EXCEPT ![c] = "resetting"]
    BY <1>13 DEF ResetAfterClose
  <2>2. new.client = c /\ new.command = CommandOf["resetting"]
    BY DEF CommandOf, Waiting
  <2>3. /\ \A q \in requests : q.client # c
        /\ \A q \in replies \ {p} : q.client # c
    BY <2>1
  <2> HIDE DEF new
  <2>4. QED
    BY <2>1, <2>2, <2>3
<1>14. ASSUME NEW c \in Clients, NEW p \in replies, ResetReturns(c, p)
      PROVE  OutstandingInv'
  BY <1>14 DEF ResetReturns, Receive, Returned, Raise
<1>15. ASSUME NEW c \in Clients, NEW p \in replies, StepReturns(c, p)
      PROVE  OutstandingInv'
  BY <1>15 DEF StepReturns, Receive, Returned, Raise
<1>16. ASSUME NEW c \in Clients, NEW p \in replies, Rendered(c, p)
      PROVE  OutstandingInv'
  BY <1>16 DEF Rendered, Receive, Returned, Raise
<1>17. ASSUME NEW c \in Clients, NEW p \in replies, CallRaises(c, p)
      PROVE  OutstandingInv'
  BY <1>17 DEF CallRaises, Receive, Returned, Raise
<1>18. QED
  BY <1>1, <1>2, <1>3, <1>4, <1>5, <1>6, <1>7, <1>8, <1>9, <1>10, <1>11, <1>12, <1>13,
     <1>14, <1>15, <1>16, <1>17, StepCases, Zenon





-----------------------------------------------------------------------------
(* Owners: no message or client names an episode of another client.        *)

LEMMA AnswerKeepsOwners ==
    ASSUME TypeOK, OwnerInv, UNCHANGED client_episode,
           NEW r \in requests, NEW e, NEW id, NEW index, NEW done,
           Answer(r, e, id, index, done),
           \A i \in 1 .. Len(issued) : i \in 1 .. Len(issued') /\ issued'[i] = issued[i],
           id # NoEpisode => id \in 1 .. Len(issued') /\ issued'[id] = r.client
    PROVE  OwnerInv'
<1> DEFINE p == [client |-> r.client, error |-> e, episode_id |-> id, step_index |-> index,
                 done |-> done]
<1>1. requests' \subseteq requests /\ replies' \subseteq replies \cup {p}
  BY DEF Answer
<1>2. p.client = r.client /\ p.episode_id = id
  OBVIOUS
<1>3. \A c \in Clients : client_episode[c] # NoEpisode => client_episode[c] \in 1 .. Len(issued)
  BY DEF TypeOK, EpisodeIds, NoEpisode
<1> HIDE DEF p
<1>4. QED
  BY <1>1, <1>2, <1>3 DEF OwnerInv, NoEpisode

LEMMA OwnerStep ==
    ASSUME TypeOK, SocketInv, CallInv, OwnerInv, Next
    PROVE  OwnerInv'
<1>0. Len(issued) \in Nat /\ requests \subseteq Request
  BY DEF TypeOK
<1>1. CASE Refusal
  <2>1. PICK r \in requests, e \in Errors :
             Answer(r, e, NoEpisode, 0, FALSE) /\ UNCHANGED <<issued, clientVars>>
    BY <1>1, Zenon DEF Refusal
  <2>2. Answer(r, e, NoEpisode, 0, FALSE) /\ UNCHANGED <<issued, client_episode>>
    BY <2>1 DEF clientVars
  <2>3. QED
    BY <1>0, <2>2, AnswerKeepsOwners
<1>2. CASE Sending
  <2>1. PICK c \in Clients, pc \in Waiting, r \in Request :
             /\ r.command = CommandOf[pc]
             /\ pc = "stepping" => client_episode[c] # NoEpisode /\ r.episode_id = client_episode[c]
             /\ Send(c, pc, r.command, r.episode_id, r.step_index)
    BY <1>2, Zenon DEF Sending
  <2> DEFINE new == [client |-> c, command |-> r.command, episode_id |-> r.episode_id,
                     step_index |-> r.step_index]
  <2>2. /\ requests' = requests \cup {new} /\ replies' = replies
        /\ issued' = issued /\ client_episode' = client_episode
    BY <2>1 DEF Send, serverVars
  <2>3. new.client = c /\ new.command = CommandOf[pc] /\ new.episode_id = r.episode_id
    BY <2>1
  <2>4. CommandOf[pc] = "STEP" => pc = "stepping"
    BY DEF CommandOf, Waiting
  <2>5. client_episode[c] # NoEpisode =>
           client_episode[c] \in 1 .. Len(issued) /\ issued[client_episode[c]] = c
    BY <1>0 DEF TypeOK, OwnerInv, EpisodeIds, NoEpisode
  <2> HIDE DEF new
  <2>6. QED
    BY <2>1, <2>2, <2>3, <2>4, <2>5 DEF OwnerInv
<1>3. CASE Leaving
  <2>1. PICK c \in Clients, pc \in {"closed", "dead"} :
             Leave(c, pc) /\ UNCHANGED serverVars
    BY <1>3, Zenon DEF Leaving
  <2>2. QED
    BY <2>1 DEF Leave, serverVars, TypeOK, OwnerInv, NoEpisode
<1>4. CASE GivingUp
  BY <1>4 DEF GivingUp, Raise, serverVars, TypeOK, OwnerInv, NoEpisode
<1>5. ASSUME NEW r \in requests, ResetEpisode(r)
      PROVE  OwnerInv'
  <2>1. r.client \in Clients
    BY <1>0 DEF Request
  <2>2. issued' = Append(issued, r.client) /\ client_episode' = client_episode
    BY <1>5 DEF ResetEpisode, clientVars
  <2>3. /\ Len(issued') = Len(issued) + 1 /\ issued'[Len(issued) + 1] = r.client
        /\ \A i \in 1 .. Len(issued) : issued'[i] = issued[i]
    BY <2>1, <2>2 DEF TypeOK
  <2>4. /\ Len(issued) + 1 \in 1 .. Len(issued')
        /\ \A i \in 1 .. Len(issued) : i \in 1 .. Len(issued') /\ issued'[i] = issued[i]
    BY <2>3, <1>0
  <2>5. QED
    <3>1. PICK e \in Errors, id \in {NoEpisode, Len(issued) + 1} : Answer(r, e, id, 0, FALSE)
      BY <1>5 DEF ResetEpisode, Errors
    <3>2. QED
      BY <2>2, <2>3, <2>4, <3>1, AnswerKeepsOwners
<1>6. ASSUME NEW r \in requests, CloseEpisode(r)
      PROVE  OwnerInv'
  <2>1. Answer(r, "none", NoEpisode, 0, FALSE) /\ UNCHANGED <<issued, client_episode>>
    BY <1>6 DEF CloseEpisode, clientVars
  <2>2. QED
    BY <1>0, <2>1, AnswerKeepsOwners
<1>7. ASSUME NEW r \in requests, NEW done \in BOOLEAN, StepEpisode(r, done)
      PROVE  OwnerInv'
  <2>1. /\ issued' = issued /\ client_episode' = client_episode
        /\ r.command = "STEP" /\ r.episode_id = episode_id
    BY <1>7 DEF StepEpisode, Received, ValidateStep, clientVars
  <2>2. episode_id \in 1 .. Len(issued) /\ issued[episode_id] = r.client
    BY <2>1, <1>0 DEF OwnerInv
  <2>3. QED
    <3>1. PICK e, id, index, d :
               Answer(r, e, id, index, d) /\ id \in {NoEpisode, episode_id}
      BY <1>7 DEF StepEpisode
    <3>2. QED
      BY <1>0, <2>1, <2>2, <3>1, AnswerKeepsOwners
<1>8. CASE Shutdown
  BY <1>8 DEF Shutdown, clientVars, OwnerInv
<1>9. CASE Restart
  BY <1>9 DEF Restart, clientVars, OwnerInv
<1>10. ASSUME NEW c \in Clients, RaiseAtOnce(c)
      PROVE  OwnerInv'
  BY <1>10, <1>0 DEF RaiseAtOnce, Receive, Returned, Raise, serverVars,
              TypeOK, OwnerInv, Reply, EpisodeIds, NoEpisode
<1>11. ASSUME NEW c \in Clients, ForgetEpisode(c)
      PROVE  OwnerInv'
  BY <1>11, <1>0 DEF ForgetEpisode, Receive, Returned, Raise, serverVars,
              TypeOK, OwnerInv, Reply, EpisodeIds, NoEpisode
<1>12. ASSUME NEW c \in Clients, NEW p \in replies, Constructed(c, p)
      PROVE  OwnerInv'
  BY <1>12, <1>0 DEF Constructed, Receive, Returned, Raise, serverVars,
              TypeOK, OwnerInv, Reply, EpisodeIds, NoEpisode
<1>13. ASSUME NEW c \in Clients, NEW p \in replies, ResetAfterClose(c, p)
      PROVE  OwnerInv'
  <2> DEFINE new == [client |-> c, command |-> "RESET", episode_id |-> NoEpisode,
                     step_index |-> 0]
  <2>1. /\ requests' = requests \cup {new} /\ replies' = replies \ {p} /\ issued' = issued
        /\ client_episode' = [client_episode EXCEPT ![c] = NoEpisode]
    BY <1>13 DEF ResetAfterClose, serverVars
  <2>2. new.command = "RESET"
    OBVIOUS
  <2> HIDE DEF new
  <2>3. QED
    BY <2>1, <2>2 DEF TypeOK, OwnerInv, NoEpisode
<1>14. ASSUME NEW c \in Clients, NEW p \in replies, ResetReturns(c, p)
      PROVE  OwnerInv'
  BY <1>14, <1>0 DEF ResetReturns, Receive, Returned, Raise, serverVars,
              TypeOK, OwnerInv, Reply, EpisodeIds, NoEpisode
<1>15. ASSUME NEW c \in Clients, NEW p \in replies, StepReturns(c, p)
      PROVE  OwnerInv'
  BY <1>15, <1>0 DEF StepReturns, Receive, Returned, Raise, serverVars,
              TypeOK, OwnerInv, Reply, EpisodeIds, NoEpisode
<1>16. ASSUME NEW c \in Clients, NEW p \in replies, Rendered(c, p)
      PROVE  OwnerInv'
  BY <1>16, <1>0 DEF Rendered, Receive, Returned, Raise, serverVars,
              TypeOK, OwnerInv, Reply, EpisodeIds, NoEpisode
<1>17. ASSUME NEW c \in Clients, NEW p \in replies, CallRaises(c, p)
      PROVE  OwnerInv'
  BY <1>17, <1>0 DEF CallRaises, Receive, Returned, Raise, serverVars,
              TypeOK, OwnerInv, Reply, EpisodeIds, NoEpisode
<1>18. QED
  BY <1>1, <1>2, <1>3, <1>4, <1>5, <1>6, <1>7, <1>8, <1>9, <1>10, <1>11, <1>12, <1>13,
     <1>14, <1>15, <1>16, <1>17, StepCases, Zenon

-----------------------------------------------------------------------------
(* Server: the open episode and its trajectory.                            *)

\* A call of env.step for the index validate_step has accepted keeps the order.
LEMMA StepKeepsOrder ==
    ASSUME TypeOK, OwnerInv, StepsRunInOrder,
           NEW r \in requests, NEW whole \in BOOLEAN,
           r.command = "STEP", ValidateStep(r), Stepped(r, whole),
           step_index' = IF whole THEN step_index + 1 ELSE step_index,
           UNCHANGED <<issued, episode_id>>
    PROVE  StepsRunInOrder'
<1>0. PICK n \in Nat : n = Len(trajectory)
  BY DEF TypeOK
<1> DEFINE e == [client |-> r.client, step_index |-> r.step_index, whole |-> whole]
<1>1. /\ step_index \in Nat
      /\ trajectory \in Seq([client : Clients, step_index : Nat, whole : BOOLEAN])
      /\ e \in [client : Clients, step_index : Nat, whole : BOOLEAN]
  BY DEF TypeOK, Request
<1>2. /\ Len(trajectory') = n + 1
      /\ \A k \in 1 .. n : trajectory'[k] = trajectory[k]
      /\ trajectory'[n + 1] = e
  <2>1. trajectory' = Append(trajectory, e)
    BY DEF Stepped
  <2> HIDE DEF e
  <2>2. QED
    BY <1>0, <1>1, <2>1, AppendProperties
<1>3. /\ r.step_index = step_index /\ issued[episode_id] = r.client /\ Open
  BY DEF ValidateStep, OwnerInv, Open
<1>4. /\ e.client = issued[episode_id] /\ e.step_index = step_index /\ e.whole = whole
  BY <1>3
<1>5. /\ step_index = Following(n)
      /\ \A k \in 1 .. n : /\ trajectory[k].client = issued[episode_id]
                           /\ trajectory[k].step_index = Following(k - 1)
  BY <1>0, <1>3 DEF StepsRunInOrder
<1> HIDE DEF e
<1>6. \A k \in 0 .. n : Following(k)' = Following(k)
  BY <1>1, <1>2 DEF Following
<1>7. Following(n + 1)' = step_index'
  <2>1. n + 1 # 0 /\ trajectory'[n + 1].whole = whole
        /\ trajectory'[n + 1].step_index = step_index
    BY <1>2, <1>4
  <2>2. QED
    BY <2>1 DEF Following
<1>8. \A k \in 1 .. (n + 1) :
         /\ trajectory'[k].client = issued'[episode_id']
         /\ trajectory'[k].step_index = Following(k - 1)'
  <2>1. ASSUME NEW k \in 1 .. n
        PROVE  /\ trajectory'[k].client = issued'[episode_id']
               /\ trajectory'[k].step_index = Following(k - 1)'
    <3>1. k - 1 \in 0 .. n
      OBVIOUS
    <3>2. Following(k - 1)' = Following(k - 1)
      BY <1>6, <3>1
    <3>3. QED
      BY <1>2, <1>5, <3>2
  <2>2. /\ trajectory'[n + 1].client = issued'[episode_id']
        /\ trajectory'[n + 1].step_index = Following((n + 1) - 1)'
    <3>1. Following(n)' = step_index /\ (n + 1) - 1 = n
      BY <1>1, <1>5, <1>6
    <3>2. QED
      BY <1>2, <1>4, <3>1
  <2>3. \A k \in 1 .. (n + 1) : k \in 1 .. n \/ k = n + 1
    BY <1>1
  <2>4. QED
    BY <2>1, <2>2, <2>3
<1>9. QED
  BY <1>2, <1>7, <1>8 DEF StepsRunInOrder

LEMMA ServerStep ==
    ASSUME TypeOK, SocketInv, CallInv, OwnerInv, ServerInv, Next
    PROVE  ServerInv'
<1>0. /\ Len(issued) \in Nat /\ step_index \in Nat
      /\ requests \subseteq [client : Clients, command : Commands, episode_id : Nat,
                              step_index : Nat]
  BY DEF TypeOK, Request
<1>1. CASE Refusal
  <2>1. UNCHANGED <<state, episode_id, step_index, issued>>
    BY <1>1, Zenon DEF Refusal
  <2>2. StepsRunInOrder'
    <3>1. CASE trajectory' = trajectory
      BY <2>1, <3>1 DEF ServerInv, StepsRunInOrder, Following, Open
    <3>2. CASE \E r \in requests : StepRaises(r)
      <4>1. PICK r \in requests :
                 r.command = "STEP" /\ ValidateStep(r) /\ Stepped(r, FALSE)
        BY <3>2, Zenon DEF StepRaises, Received
      <4>2. QED
        BY <2>1, <4>1, StepKeepsOrder DEF ServerInv
    <3>3. QED
      BY <1>1, <3>1, <3>2 DEF Refusal
  <2>3. QED
    BY <2>1, <2>2 DEF ServerInv, Open
<1>2. CASE Sending
  <2>1. UNCHANGED serverVars
    BY <1>2, Zenon DEF Sending, Send
  <2>2. QED
    BY <2>1 DEF serverVars, ServerInv, StepsRunInOrder, Following, Open
<1>3. CASE Leaving
  <2>1. UNCHANGED serverVars
    BY <1>3, Zenon DEF Leaving
  <2>2. QED
    BY <2>1 DEF serverVars, ServerInv, StepsRunInOrder, Following, Open
<1>4. CASE GivingUp
  <2>1. UNCHANGED serverVars
    BY <1>4, Zenon DEF GivingUp
  <2>2. QED
    BY <2>1 DEF serverVars, ServerInv, StepsRunInOrder, Following, Open
<1>5. ASSUME NEW r \in requests, ResetEpisode(r)
      PROVE  ServerInv'
  <2>1. /\ state' = "EPISODE_ACTIVE" /\ episode_id' = Len(issued) + 1 /\ step_index' = 0
        /\ trajectory' = <<>>
    BY <1>5 DEF ResetEpisode
  <2>2. Open' /\ episode_id' # NoEpisode
    BY <1>0, <2>1 DEF Open, NoEpisode
  <2>3. StepsRunInOrder'
    BY <2>1 DEF StepsRunInOrder, Following
  <2>4. QED
    BY <2>1, <2>2, <2>3, BridgeAssumption DEF ServerInv
<1>6. ASSUME NEW r \in requests, CloseEpisode(r)
      PROVE  ServerInv'
  BY <1>6 DEF CloseEpisode, ServerInv, StepsRunInOrder, Following, Open
<1>7. ASSUME NEW r \in requests, NEW done \in BOOLEAN, StepEpisode(r, done)
      PROVE  ServerInv'
  <2>1. /\ r.command = "STEP" /\ ValidateStep(r)
        /\ Stepped(r, TRUE)
        /\ step_index' = step_index + 1 /\ episode_id' = episode_id /\ issued' = issued
        /\ state' = IF done \/ Truncated(done) THEN "EPISODE_TERMINATED" ELSE state
    BY <1>7 DEF StepEpisode, Received
  <2>2. /\ state = "EPISODE_ACTIVE" /\ r.step_index = step_index
        /\ issued[episode_id] = r.client
    BY <2>1 DEF ValidateStep, OwnerInv
  <2>3. Open /\ Open' /\ episode_id # NoEpisode /\ step_index < MaxEpisodeSteps
    BY <2>1, <2>2 DEF ServerInv, Open
  <2>5. StepsRunInOrder'
    BY <2>1, StepKeepsOrder DEF ServerInv
  <2>6. state' = "EPISODE_ACTIVE" => step_index' < MaxEpisodeSteps
    BY <1>0, <2>1, BridgeAssumption DEF Truncated
  <2>7. state' = "EPISODE_TERMINATED" => step_index' \in 1 .. MaxEpisodeSteps
    BY <1>0, <2>1, <2>3, BridgeAssumption
  <2>8. QED
    BY <2>1, <2>3, <2>5, <2>6, <2>7 DEF ServerInv
<1>8. CASE Shutdown
  BY <1>8 DEF Shutdown, ServerInv, StepsRunInOrder, Following, Open
<1>9. CASE Restart
  BY <1>9 DEF Restart, ServerInv, StepsRunInOrder, Following, Open
<1>10. ASSUME NEW c \in Clients, RaiseAtOnce(c)
      PROVE  ServerInv'
  BY <1>10 DEF RaiseAtOnce, serverVars, ServerInv, StepsRunInOrder, Following, Open
<1>11. ASSUME NEW c \in Clients, ForgetEpisode(c)
      PROVE  ServerInv'
  BY <1>11 DEF ForgetEpisode, serverVars, ServerInv, StepsRunInOrder, Following, Open
<1>12. ASSUME NEW c \in Clients, NEW p \in replies, Constructed(c, p)
      PROVE  ServerInv'
  BY <1>12 DEF Constructed, serverVars, ServerInv, StepsRunInOrder, Following, Open
<1>13. ASSUME NEW c \in Clients, NEW p \in replies, ResetAfterClose(c, p)
      PROVE  ServerInv'
  BY <1>13 DEF ResetAfterClose, serverVars, ServerInv, StepsRunInOrder, Following, Open
<1>14. ASSUME NEW c \in Clients, NEW p \in replies, ResetReturns(c, p)
      PROVE  ServerInv'
  BY <1>14 DEF ResetReturns, serverVars, ServerInv, StepsRunInOrder, Following, Open
<1>15. ASSUME NEW c \in Clients, NEW p \in replies, StepReturns(c, p)
      PROVE  ServerInv'
  BY <1>15 DEF StepReturns, serverVars, ServerInv, StepsRunInOrder, Following, Open
<1>16. ASSUME NEW c \in Clients, NEW p \in replies, Rendered(c, p)
      PROVE  ServerInv'
  BY <1>16 DEF Rendered, serverVars, ServerInv, StepsRunInOrder, Following, Open
<1>17. ASSUME NEW c \in Clients, NEW p \in replies, CallRaises(c, p)
      PROVE  ServerInv'
  BY <1>17 DEF CallRaises, serverVars, ServerInv, StepsRunInOrder, Following, Open
<1>18. QED
  BY <1>1, <1>2, <1>3, <1>4, <1>5, <1>6, <1>7, <1>8, <1>9, <1>10, <1>11, <1>12, <1>13,
     <1>14, <1>15, <1>16, <1>17, StepCases, Zenon





-----------------------------------------------------------------------------
(* Messages: what messages say of the episode they are about.              *)

\* What a client waits for tells the call it is in.
LEMMA CommandsOfCalls ==
    ASSUME NEW pc \in Waiting
    PROVE  /\ CommandOf[pc] = "RESET" <=> pc = "resetting"
           /\ CommandOf[pc] = "STEP" <=> pc = "stepping"
           /\ CommandOf[pc] = "CLOSE_EPISODE" <=> pc \in {"close_then_reset", "closing"}
           /\ CommandOf[pc] = "QUERY" <=> pc \in {"connecting", "querying"}
BY DEF CommandOf, Waiting

\* What the reader of an answer expects of it.
AnswerFits(r, e, id, index, d) ==
    \A p \in Reply :
        /\ p.client = r.client /\ p.error = e /\ p.episode_id = id
        /\ p.step_index = index /\ p.done = d /\ socket[r.client] = "waiting"
        => ReplyFits(p)'

\* An answer only has to fit what its reader expects of it.
LEMMA AnswerKeepsMessages ==
    ASSUME TypeOK, MessageInv,
           NEW r \in requests, NEW e \in Errors, NEW id \in Nat, NEW index \in Nat,
           NEW d \in BOOLEAN, Answer(r, e, id, index, d),
           UNCHANGED <<call, client_episode, client_step>>,
           \A q \in replies : ReplyFits(q)',
           AnswerFits(r, e, id, index, d)
    PROVE  MessageInv'
<1>1. \A q \in requests' : RequestFits(q)'
  BY DEF Answer, MessageInv, RequestFits
<1>2. ASSUME NEW p \in replies', p \notin replies
      PROVE  ReplyFits(p)'
  <2>1. /\ p \in Reply /\ p.client = r.client /\ p.error = e /\ p.episode_id = id
        /\ p.step_index = index /\ p.done = d /\ socket[r.client] = "waiting"
    BY <1>2 DEF Answer, TypeOK, Request, Reply
  <2>2. QED
    BY <2>1 DEF AnswerFits
<1>3. QED
  BY <1>1, <1>2 DEF MessageInv

LEMMA MessageStep ==
    ASSUME TypeOK, SocketInv, OutstandingInv, OwnerInv, CallInv, MessageInv, Next
    PROVE  MessageInv'
<1>0. /\ Len(issued) \in Nat /\ step_index \in Nat /\ episode_id \in 0 .. Len(issued)
      /\ \A r \in requests : r.client \in Clients
      /\ \A p \in replies : p.client \in Clients
      /\ \A c \in Clients : client_episode[c] \in 0 .. Len(issued)
      /\ \A r \in requests : r.command = "STEP" => r.episode_id \in 1 .. Len(issued)
      /\ NoEpisode \notin 1 .. Len(issued) /\ NoEpisode = 0
      /\ \A c \in Clients : call[c] = "stepping" => client_episode[c] # NoEpisode
  BY DEF TypeOK, EpisodeIds, Request, Reply, OwnerInv, NoEpisode, CallInv
<1>1. CASE Refusal
  <2>1. PICK r \in requests, e \in Errors :
             /\ Answer(r, e, NoEpisode, 0, FALSE)
             /\ UNCHANGED <<running, state, episode_id, step_index, issued, restarts,
                            clientVars, disturbed>>
             /\ r.command # "CLOSE_EPISODE" /\ (e = "none" => r.command = "QUERY")
    BY <1>1, Zenon DEF Refusal
  <2>2. /\ Answer(r, e, NoEpisode, 0, FALSE)
        /\ UNCHANGED <<state, episode_id, step_index, issued, clientVars>>
    BY <2>1, Zenon
  <2>3. socket[r.client] = "waiting" =>
           /\ call[r.client] \notin {"close_then_reset", "closing"}
           /\ call[r.client] \in {"resetting", "stepping"} => e # "none"
    BY <2>1, <1>0 DEF OutstandingInv, SocketInv, CommandOf
  <2>4. QED
    BY <2>2, <2>3 DEF Answer, clientVars, RequestFits, ReplyFits, MessageInv
<1>2. CASE Sending
  <2>1. PICK c \in Clients, pc \in Waiting, r \in Request :
             /\ r.command = CommandOf[pc]
             /\ call[c] \in {"absent", "idle"}
             /\ pc = "stepping" =>
                   r.episode_id = client_episode[c] /\ r.step_index = client_step[c]
             /\ Send(c, pc, r.command, r.episode_id, r.step_index)
    BY <1>2, Zenon DEF Sending
  <2> DEFINE new == [client |-> c, command |-> r.command, episode_id |-> r.episode_id,
                     step_index |-> r.step_index]
  <2>2. /\ requests' = requests \cup {new} /\ replies' = replies
        /\ call' = [call EXCEPT ![c] = pc] /\ socket[c] = "ready"
        /\ UNCHANGED <<serverVars, client_episode, client_step>>
    BY <2>1 DEF Send
  <2>3. /\ new.client = c /\ new.command = CommandOf[pc]
        /\ new.episode_id = r.episode_id /\ new.step_index = r.step_index
    BY <2>1
  <2>4. CommandOf[pc] = "STEP" => pc = "stepping"
    BY DEF CommandOf, Waiting
  <2>5. \A q \in requests \cup replies : q.client # c
    BY <2>2 DEF OutstandingInv
  <2> HIDE DEF new
  <2>6. RequestFits(new)'
    BY <2>1, <2>2, <2>3, <2>4 DEF RequestFits
  <2>7. ASSUME NEW q \in requests
        PROVE  RequestFits(q)'
    BY <2>2, <2>5, <1>0 DEF MessageInv, RequestFits, TypeOK
  <2>8. ASSUME NEW q \in replies
        PROVE  ReplyFits(q)'
    BY <2>2, <2>5, <1>0 DEF MessageInv, ReplyFits, TypeOK, serverVars
  <2>9. QED
    BY <2>2, <2>6, <2>7, <2>8 DEF MessageInv
<1>3. CASE Leaving
  <2>1. PICK c \in Clients, pc \in {"closed", "dead"} :
             Leave(c, pc) /\ UNCHANGED serverVars
    BY <1>3, Zenon DEF Leaving
  <2>2. QED
    BY <2>1, <1>0 DEF Leave, serverVars, TypeOK, MessageInv, RequestFits, ReplyFits
<1>4. CASE GivingUp
  <2>1. PICK c \in Clients :
           /\ replies' = {p \in replies : p.client # c}
           /\ client_episode' \in {client_episode, [client_episode EXCEPT ![c] = NoEpisode]}
           /\ call' = [call EXCEPT ![c] = "idle"]
           /\ UNCHANGED <<serverVars, requests, client_step>>
    BY <1>4 DEF GivingUp, Raise
  <2>2. /\ \A d \in Clients : d # c => call'[d] = call[d] /\ client_episode'[d] = client_episode[d]
        /\ client_episode'[c] \in {client_episode[c], NoEpisode} /\ call'[c] = "idle"
        /\ client_step' = client_step
    BY <2>1 DEF TypeOK
  <2>3. ASSUME NEW q \in requests
        PROVE  RequestFits(q)'
    BY <2>2, <1>0 DEF MessageInv, RequestFits
  <2>4. ASSUME NEW q \in replies'
        PROVE  ReplyFits(q)'
    <3>1. q \in replies /\ q.client # c /\ q.client \in Clients
      BY <2>1, <1>0
    <3>2. QED
      BY <2>1, <2>2, <3>1 DEF MessageInv, ReplyFits, serverVars
  <2>5. QED
    BY <2>1, <2>3, <2>4 DEF MessageInv
<1>5. ASSUME NEW r \in requests, ResetEpisode(r)
      PROVE  MessageInv'
  <2>1. /\ r.command = "RESET" /\ UNCHANGED <<call, client_episode, client_step>>
        /\ state' = "EPISODE_ACTIVE" /\ episode_id' = Len(issued) + 1 /\ step_index' = 0
    BY <1>5 DEF ResetEpisode, Received, clientVars
  <2>2. socket[r.client] = "waiting" => call[r.client] = "resetting"
    BY <1>0, <2>1, CommandsOfCalls DEF OutstandingInv, SocketInv
  <2>3. ASSUME NEW q \in replies
        PROVE  ReplyFits(q)'
    <3>1. q.episode_id # Len(issued) + 1 /\ client_episode[q.client] # Len(issued) + 1
      BY <1>0 DEF OwnerInv
    <3>2. QED
      BY <1>0, <2>1, <3>1 DEF MessageInv, ReplyFits
  <2>4. CASE Answer(r, "none", Len(issued) + 1, 0, FALSE)
    <3>1. AnswerFits(r, "none", Len(issued) + 1, 0, FALSE)
      BY <1>0, <2>1, <2>2 DEF AnswerFits, ReplyFits
    <3>2. "none" \in Errors /\ Len(issued) + 1 \in Nat /\ 0 \in Nat /\ FALSE \in BOOLEAN
      BY <1>0 DEF Errors
    <3>3. QED
      BY <2>1, <2>3, <2>4, <3>1, <3>2, AnswerKeepsMessages
  <2>5. CASE Answer(r, "FAILED", NoEpisode, 0, FALSE)
    <3>1. AnswerFits(r, "FAILED", NoEpisode, 0, FALSE)
      BY <1>0, <2>1, <2>2 DEF AnswerFits, ReplyFits
    <3>2. QED
      BY <1>0, <2>1, <2>3, <2>5, <3>1, AnswerKeepsMessages DEF Errors
  <2>6. QED
    BY <1>5, <2>4, <2>5 DEF ResetEpisode
<1>6. ASSUME NEW r \in requests, CloseEpisode(r)
      PROVE  MessageInv'
  <2>1. /\ r.command = "CLOSE_EPISODE" /\ UNCHANGED <<call, client_episode, client_step>>
        /\ episode_id' = NoEpisode /\ Answer(r, "none", NoEpisode, 0, FALSE)
    BY <1>6 DEF CloseEpisode, Received, clientVars
  <2>2. socket[r.client] = "waiting" => call[r.client] \in {"close_then_reset", "closing"}
    BY <1>0, <2>1, CommandsOfCalls DEF OutstandingInv, SocketInv
  <2>3. ASSUME NEW q \in replies
        PROVE  ReplyFits(q)'
    BY <1>0, <2>1 DEF MessageInv, ReplyFits
  <2>4. AnswerFits(r, "none", NoEpisode, 0, FALSE)
    BY <1>0, <2>1, <2>2 DEF AnswerFits, ReplyFits
  <2>5. QED
    BY <1>0, <2>1, <2>3, <2>4, AnswerKeepsMessages DEF Errors
<1>7. ASSUME NEW r \in requests, NEW done \in BOOLEAN, StepEpisode(r, done)
      PROVE  MessageInv'
  <2>1. /\ r.command = "STEP" /\ UNCHANGED <<call, client_episode, client_step>>
        /\ state = "EPISODE_ACTIVE" /\ episode_id' = episode_id
        /\ step_index' = step_index + 1
        /\ state' = IF done \/ Truncated(done) THEN "EPISODE_TERMINATED" ELSE state
        /\ r.episode_id = episode_id /\ r.step_index = step_index
        /\ r.client \in Clients /\ episode_id # NoEpisode
    BY <1>7, <1>0 DEF StepEpisode, Received, ValidateStep, clientVars
  <2>2. socket[r.client] = "waiting" => call[r.client] = "stepping"
    BY <2>1, CommandsOfCalls DEF OutstandingInv, SocketInv
  <2>3. ASSUME NEW q \in replies
        PROVE  ReplyFits(q)'
    <3>1. q.client # r.client /\ q.client \in Clients
      BY <1>0 DEF OutstandingInv
    <3>2. q.episode_id # episode_id /\ client_episode[q.client] # episode_id
      BY <1>0, <2>1, <3>1 DEF OwnerInv
    <3>3. QED
      BY <1>0, <2>1, <3>2 DEF MessageInv, ReplyFits
  <2> DEFINE over == done \/ Truncated(done)
  <2>4. CASE Answer(r, "none", episode_id, step_index + 1, over)
    <3>1. AnswerFits(r, "none", episode_id, step_index + 1, over)
      <4>1. socket[r.client] = "waiting" =>
               client_episode[r.client] = episode_id /\ client_step[r.client] = step_index
        BY <1>0, <2>1, <2>2 DEF MessageInv, RequestFits
      <4>2. ~over => step_index + 1 < MaxEpisodeSteps
        BY <1>0, BridgeAssumption DEF Truncated
      <4>3. over <=> state' = "EPISODE_TERMINATED"
        BY <2>1
      <4> HIDE DEF over
      <4>4. QED
        BY <1>0, <2>1, <2>2, <4>1, <4>2, <4>3 DEF AnswerFits, ReplyFits
    <3>2. over \in BOOLEAN /\ step_index + 1 \in Nat /\ episode_id \in Nat
      BY <1>0 DEF Truncated
    <3> HIDE DEF over
    <3>3. QED
      BY <1>0, <2>1, <2>3, <2>4, <3>1, <3>2, AnswerKeepsMessages DEF Errors
  <2>5. CASE Answer(r, "FAILED", NoEpisode, 0, FALSE)
    <3>1. AnswerFits(r, "FAILED", NoEpisode, 0, FALSE)
      BY <1>0, <2>1, <2>2 DEF AnswerFits, ReplyFits
    <3>2. QED
      BY <1>0, <2>1, <2>3, <2>5, <3>1, AnswerKeepsMessages DEF Errors
  <2>6. QED
    BY <1>7, <2>4, <2>5 DEF StepEpisode
<1>8. CASE Shutdown
  BY <1>8, <1>0 DEF Shutdown, clientVars, MessageInv, RequestFits, ReplyFits, CallInv
<1>9. CASE Restart
  BY <1>9, <1>0 DEF Restart, clientVars, MessageInv, RequestFits, ReplyFits, CallInv
<1>10. ASSUME NEW c \in Clients, RaiseAtOnce(c)
      PROVE  MessageInv'
  BY <1>10 DEF RaiseAtOnce, serverVars, MessageInv, RequestFits, ReplyFits
<1>11. ASSUME NEW c \in Clients, ForgetEpisode(c)
      PROVE  MessageInv'
  BY <1>11, <1>0 DEF ForgetEpisode, serverVars, TypeOK, SocketInv, OutstandingInv,
              Waiting, MessageInv, RequestFits, ReplyFits
<1>12. ASSUME NEW c \in Clients, NEW p \in replies, Constructed(c, p)
      PROVE  MessageInv'
  BY <1>12, <1>0 DEF Constructed, Receive, Returned, Raise, serverVars, TypeOK, SocketInv,
              OutstandingInv, MessageInv, RequestFits, ReplyFits, Reply
<1>13. ASSUME NEW c \in Clients, NEW p \in replies, ResetAfterClose(c, p)
      PROVE  MessageInv'
  BY <1>13, <1>0 DEF ResetAfterClose, Receive, Returned, Raise, serverVars, TypeOK, SocketInv,
              OutstandingInv, MessageInv, RequestFits, ReplyFits, Reply
<1>14. ASSUME NEW c \in Clients, NEW p \in replies, ResetReturns(c, p)
      PROVE  MessageInv'
  BY <1>14, <1>0 DEF ResetReturns, Receive, Returned, Raise, serverVars, TypeOK, SocketInv,
              OutstandingInv, MessageInv, RequestFits, ReplyFits, Reply
<1>15. ASSUME NEW c \in Clients, NEW p \in replies, StepReturns(c, p)
      PROVE  MessageInv'
  BY <1>15, <1>0 DEF StepReturns, Receive, Returned, Raise, serverVars, TypeOK, SocketInv,
              OutstandingInv, MessageInv, RequestFits, ReplyFits, Reply
<1>16. ASSUME NEW c \in Clients, NEW p \in replies, Rendered(c, p)
      PROVE  MessageInv'
  BY <1>16, <1>0 DEF Rendered, Receive, Returned, Raise, serverVars, TypeOK, SocketInv,
              OutstandingInv, MessageInv, RequestFits, ReplyFits, Reply
<1>17. ASSUME NEW c \in Clients, NEW p \in replies, CallRaises(c, p)
      PROVE  MessageInv'
  BY <1>17, <1>0 DEF CallRaises, Receive, Returned, Raise, serverVars, TypeOK, SocketInv,
              OutstandingInv, MessageInv, RequestFits, ReplyFits, Reply
<1>18. QED
  BY <1>1, <1>2, <1>3, <1>4, <1>5, <1>6, <1>7, <1>8, <1>9, <1>10, <1>11, <1>12, <1>13,
     <1>14, <1>15, <1>16, <1>17, StepCases, Zenon


-----------------------------------------------------------------------------
(* Mirror: the server and the client agree on the episode.                 *)

LEMMA MirrorStep ==
    ASSUME TypeOK, SocketInv, OwnerInv, CallInv, MessageInv, MirrorIsCurrent, Next
    PROVE  MirrorIsCurrent'
<1>0. /\ Len(issued) \in Nat /\ step_index \in Nat /\ NoEpisode = 0
      /\ client_episode \in [Clients -> 0 .. Len(issued)]
      /\ client_step \in [Clients -> Nat] /\ client_done \in [Clients -> BOOLEAN]
  BY DEF TypeOK, EpisodeIds, NoEpisode
<1>1. CASE Refusal
  BY <1>1 DEF Refusal, serverVars, clientVars, MirrorIsCurrent
<1>2. CASE Sending
  <2>1. UNCHANGED <<serverVars, client_episode, client_step, client_done>>
    BY <1>2 DEF Sending, Send
  <2>2. QED
    BY <2>1 DEF serverVars, MirrorIsCurrent
<1>3. CASE Leaving
  BY <1>3, <1>0 DEF Leaving, Leave, serverVars, MirrorIsCurrent
<1>4. CASE GivingUp
  BY <1>4, <1>0 DEF GivingUp, Raise, serverVars, MirrorIsCurrent
<1>5. ASSUME NEW r \in requests, ResetEpisode(r)
      PROVE  MirrorIsCurrent'
  BY <1>5, <1>0 DEF ResetEpisode, clientVars, MirrorIsCurrent
<1>6. ASSUME NEW r \in requests, CloseEpisode(r)
      PROVE  MirrorIsCurrent'
  BY <1>6 DEF CloseEpisode, clientVars, MirrorIsCurrent
<1>7. ASSUME NEW r \in requests, NEW done \in BOOLEAN, StepEpisode(r, done)
      PROVE  MirrorIsCurrent'
  <2>1. /\ UNCHANGED <<client_episode, client_step, client_done>>
        /\ state = "EPISODE_ACTIVE" /\ episode_id' = episode_id
        /\ step_index' = step_index + 1
        /\ state' \in {"EPISODE_TERMINATED", "EPISODE_ACTIVE"}
        /\ r.command = "STEP" /\ r.episode_id = episode_id /\ r.step_index = step_index
    BY <1>7 DEF StepEpisode, Received, ValidateStep, clientVars
  <2>2. ASSUME NEW c \in Clients, client_episode[c] # NoEpisode, client_episode[c] = episode_id
        PROVE  client_step[c] = step_index
    BY <2>1, <2>2 DEF OwnerInv, MessageInv, RequestFits
  <2>3. QED
    BY <1>0, <2>1, <2>2 DEF MirrorIsCurrent
<1>8. CASE Shutdown
  BY <1>8 DEF Shutdown, clientVars, MirrorIsCurrent
<1>9. CASE Restart
  BY <1>9 DEF Restart, clientVars, MirrorIsCurrent
<1>10. ASSUME NEW c \in Clients, RaiseAtOnce(c)
      PROVE  MirrorIsCurrent'
  BY <1>10 DEF RaiseAtOnce, serverVars, MirrorIsCurrent
<1>11. ASSUME NEW c \in Clients, ForgetEpisode(c)
      PROVE  MirrorIsCurrent'
  BY <1>11, <1>0 DEF ForgetEpisode, serverVars, MirrorIsCurrent
<1>12. ASSUME NEW c \in Clients, NEW p \in replies, Constructed(c, p)
      PROVE  MirrorIsCurrent'
  BY <1>12 DEF Constructed, serverVars, MirrorIsCurrent
<1>13. ASSUME NEW c \in Clients, NEW p \in replies, ResetAfterClose(c, p)
      PROVE  MirrorIsCurrent'
  BY <1>13, <1>0 DEF ResetAfterClose, serverVars, MirrorIsCurrent
<1>14. ASSUME NEW c \in Clients, NEW p \in replies, ResetReturns(c, p)
      PROVE  MirrorIsCurrent'
  <2>1. /\ p.client = c /\ p.error = "none" /\ call[c] = "resetting"
        /\ client_episode' = [client_episode EXCEPT ![c] = p.episode_id]
        /\ client_step' = [client_step EXCEPT ![c] = p.step_index]
        /\ client_done' = [client_done EXCEPT ![c] = FALSE]
        /\ UNCHANGED serverVars
    BY <1>14 DEF ResetReturns, Receive
  <2>2. p.step_index = 0 /\ (p.episode_id = episode_id =>
                               state = "EPISODE_ACTIVE" /\ step_index = 0)
    BY <2>1 DEF MessageInv, ReplyFits
  <2>3. QED
    BY <1>0, <2>1, <2>2 DEF serverVars, MirrorIsCurrent
<1>15. ASSUME NEW c \in Clients, NEW p \in replies, StepReturns(c, p)
      PROVE  MirrorIsCurrent'
  <2>1. /\ p.client = c /\ p.error = "none" /\ call[c] = "stepping"
        /\ client_step' = [client_step EXCEPT ![c] = p.step_index]
        /\ client_done' = [client_done EXCEPT
                              ![c] = p.done \/ p.step_index >= ClientMaxSteps[c]]
        /\ UNCHANGED <<serverVars, client_episode>>
    BY <1>15 DEF StepReturns, Receive
  <2>2. /\ p.episode_id = client_episode[c]
        /\ p.episode_id = episode_id =>
              step_index = p.step_index /\ (p.done <=> state = "EPISODE_TERMINATED")
    BY <2>1 DEF MessageInv, ReplyFits
  <2>3. client_done'[c] <=> p.done \/ p.step_index >= ClientMaxSteps[c]
    BY <1>0, <2>1, Zenon
  <2>4. /\ client_step'[c] = p.step_index
        /\ \A d \in Clients : d # c =>
              client_done'[d] = client_done[d] /\ client_step'[d] = client_step[d]
    BY <1>0, <2>1
  <2>5. ASSUME NEW d \in Clients, client_episode[d] # NoEpisode, client_episode[d] = episode_id
        PROVE  /\ client_step'[d] <= step_index /\ step_index <= client_step'[d] + 1
               /\ state = "EPISODE_TERMINATED" /\ ~client_done'[d] =>
                     step_index = client_step'[d] + 1
               /\ state = "EPISODE_ACTIVE" /\ client_done'[d] =>
                     client_step'[d] >= ClientMaxSteps[d]
    <3>1. CASE d = c
      BY <1>0, <2>2, <2>3, <2>4, <2>5, <3>1
    <3>2. CASE d # c
      BY <2>4, <2>5, <3>2 DEF MirrorIsCurrent
    <3>3. QED
      BY <3>1, <3>2
  <2>6. QED
    BY <2>1, <2>5 DEF serverVars, MirrorIsCurrent
<1>16. ASSUME NEW c \in Clients, NEW p \in replies, Rendered(c, p)
      PROVE  MirrorIsCurrent'
  BY <1>16 DEF Rendered, serverVars, MirrorIsCurrent
<1>17. ASSUME NEW c \in Clients, NEW p \in replies, CallRaises(c, p)
      PROVE  MirrorIsCurrent'
  BY <1>17 DEF CallRaises, Raise, serverVars, MirrorIsCurrent
<1>18. QED
  BY <1>1, <1>2, <1>3, <1>4, <1>5, <1>6, <1>7, <1>8, <1>9, <1>10, <1>11, <1>12, <1>13,
     <1>14, <1>15, <1>16, <1>17, StepCases, Zenon

LEMMA LimitsStep ==
    ASSUME TypeOK, SocketInv, OwnerInv, CallInv, MessageInv, ClientLimits, Next
    PROVE  ClientLimits'
<1>0. /\ Len(issued) \in Nat /\ step_index \in Nat /\ NoEpisode = 0
      /\ client_episode \in [Clients -> 0 .. Len(issued)]
      /\ client_step \in [Clients -> Nat] /\ client_done \in [Clients -> BOOLEAN]
  BY DEF TypeOK, EpisodeIds, NoEpisode
<1>1. CASE Refusal
  BY <1>1 DEF Refusal, clientVars, ClientLimits
<1>2. CASE Sending
  <2>1. UNCHANGED <<client_episode, client_step, client_done>>
    BY <1>2 DEF Sending, Send
  <2>2. QED
    BY <2>1 DEF ClientLimits
<1>3. CASE Leaving
  BY <1>3, <1>0 DEF Leaving, Leave, ClientLimits
<1>4. CASE GivingUp
  BY <1>4, <1>0 DEF GivingUp, Raise, ClientLimits
<1>5. ASSUME NEW r \in requests, ResetEpisode(r)
      PROVE  ClientLimits'
  BY <1>5 DEF ResetEpisode, clientVars, ClientLimits
<1>6. ASSUME NEW r \in requests, CloseEpisode(r)
      PROVE  ClientLimits'
  BY <1>6 DEF CloseEpisode, clientVars, ClientLimits
<1>7. ASSUME NEW r \in requests, NEW done \in BOOLEAN, StepEpisode(r, done)
      PROVE  ClientLimits'
  BY <1>7 DEF StepEpisode, clientVars, ClientLimits
<1>8. CASE Shutdown
  BY <1>8 DEF Shutdown, clientVars, ClientLimits
<1>9. CASE Restart
  BY <1>9 DEF Restart, clientVars, ClientLimits
<1>10. ASSUME NEW c \in Clients, RaiseAtOnce(c)
      PROVE  ClientLimits'
  BY <1>10 DEF RaiseAtOnce, ClientLimits
<1>11. ASSUME NEW c \in Clients, ForgetEpisode(c)
      PROVE  ClientLimits'
  BY <1>11, <1>0 DEF ForgetEpisode, ClientLimits
<1>12. ASSUME NEW c \in Clients, NEW p \in replies, Constructed(c, p)
      PROVE  ClientLimits'
  BY <1>12 DEF Constructed, ClientLimits
<1>13. ASSUME NEW c \in Clients, NEW p \in replies, ResetAfterClose(c, p)
      PROVE  ClientLimits'
  BY <1>13, <1>0 DEF ResetAfterClose, ClientLimits
<1>14. ASSUME NEW c \in Clients, NEW p \in replies, ResetReturns(c, p)
      PROVE  ClientLimits'
  <2>1. /\ p.client = c /\ p.error = "none" /\ call[c] = "resetting"
        /\ client_episode' = [client_episode EXCEPT ![c] = p.episode_id]
        /\ client_step' = [client_step EXCEPT ![c] = p.step_index]
        /\ client_done' = [client_done EXCEPT ![c] = FALSE]
    BY <1>14 DEF ResetReturns, Receive
  <2>2. p.step_index = 0
    BY <2>1 DEF MessageInv, ReplyFits
  <2>3. 0 < MaxEpisodeSteps /\ \A d \in Clients : 0 < ClientMaxSteps[d]
    BY BridgeAssumption
  <2>4. QED
    BY <1>0, <2>1, <2>2, <2>3 DEF ClientLimits
<1>15. ASSUME NEW c \in Clients, NEW p \in replies, StepReturns(c, p)
      PROVE  ClientLimits'
  <2>1. /\ p.client = c /\ p.error = "none" /\ call[c] = "stepping"
        /\ client_step' = [client_step EXCEPT ![c] = p.step_index]
        /\ client_done' = [client_done EXCEPT
                              ![c] = p.done \/ p.step_index >= ClientMaxSteps[c]]
        /\ client_episode' = client_episode /\ p.step_index \in Nat
    BY <1>15 DEF StepReturns, Receive, TypeOK, Reply
  <2>2. ~p.done => p.step_index < MaxEpisodeSteps
    BY <2>1 DEF MessageInv, ReplyFits
  <2>3. ClientMaxSteps[c] \in Nat
    BY BridgeAssumption
  <2>4. client_done'[c] <=> p.done \/ p.step_index >= ClientMaxSteps[c]
    BY <1>0, <2>1, Zenon
  <2>5. /\ client_step'[c] = p.step_index
        /\ \A d \in Clients : d # c =>
              client_done'[d] = client_done[d] /\ client_step'[d] = client_step[d]
    BY <1>0, <2>1
  <2>6. ASSUME NEW d \in Clients, client_episode[d] # NoEpisode, ~client_done'[d]
        PROVE  client_step'[d] < MaxEpisodeSteps /\ client_step'[d] < ClientMaxSteps[d]
    <3>1. CASE d = c
      BY <1>0, <2>1, <2>2, <2>3, <2>4, <2>5, <2>6, <3>1
    <3>2. CASE d # c
      BY <2>5, <2>6, <3>2 DEF ClientLimits
    <3>3. QED
      BY <3>1, <3>2
  <2>7. QED
    BY <2>1, <2>6 DEF ClientLimits
<1>16. ASSUME NEW c \in Clients, NEW p \in replies, Rendered(c, p)
      PROVE  ClientLimits'
  BY <1>16 DEF Rendered, ClientLimits
<1>17. ASSUME NEW c \in Clients, NEW p \in replies, CallRaises(c, p)
      PROVE  ClientLimits'
  BY <1>17, <1>0 DEF CallRaises, Raise, ClientLimits
<1>18. QED
  BY <1>1, <1>2, <1>3, <1>4, <1>5, <1>6, <1>7, <1>8, <1>9, <1>10, <1>11, <1>12, <1>13,
     <1>14, <1>15, <1>16, <1>17, StepCases, Zenon


-----------------------------------------------------------------------------
(* Orphans: while nothing is lost, the owner of the open episode is there. *)

LEMMA QuietStep ==
    ASSUME TypeOK, SocketInv, OutstandingInv, CallInv, QuietInv, Next
    PROVE  QuietInv'
<1>0. /\ \A r \in requests : r.client \in Clients
      /\ socket \in [Clients -> {"ready", "waiting", "stuck", "closed"}]
  BY DEF TypeOK, Request
<1>1. CASE Refusal
  <2>1. requests' \subseteq requests /\ UNCHANGED <<socket, disturbed>>
    BY <1>1 DEF Refusal, Answer, clientVars
  <2>2. QED
    BY <2>1 DEF QuietInv
<1>2. CASE Sending
  <2>1. PICK c \in Clients, pc \in Waiting, r \in Request :
             Send(c, pc, r.command, r.episode_id, r.step_index)
    BY <1>2, Zenon DEF Sending
  <2>2. QED
    BY <2>1, <1>0 DEF Send, QuietInv
<1>3. CASE Leaving
  <2>1. PICK c \in Clients, pc \in {"closed", "dead"} :
             /\ Leave(c, pc) /\ disturbed \subseteq disturbed'
             /\ \/ c \in disturbed'
                \/ call[c] = "idle" /\ socket[c] # "waiting"
                \/ \E p \in replies : p.client = c
    BY <1>3, Zenon DEF Leaving
  <2>2. ASSUME NEW r \in requests, r.client \notin disturbed'
        PROVE  r.client # c /\ socket[r.client] = "waiting"
    BY <2>1, <2>2 DEF OutstandingInv, QuietInv
  <2>3. QED
    BY <2>1, <2>2, <1>0 DEF Leave, QuietInv
<1>4. CASE GivingUp
  BY <1>4, <1>0 DEF GivingUp, QuietInv
<1>5. ASSUME NEW r \in requests, ResetEpisode(r)
      PROVE  QuietInv'
  <2>1. requests' \subseteq requests /\ socket' = socket /\ disturbed \subseteq disturbed'
    BY <1>5 DEF ResetEpisode, Answer, clientVars
  <2>2. QED
    BY <2>1 DEF QuietInv
<1>6. ASSUME NEW r \in requests, CloseEpisode(r)
      PROVE  QuietInv'
  BY <1>6 DEF CloseEpisode, Answer, clientVars, QuietInv
<1>7. ASSUME NEW r \in requests, NEW done \in BOOLEAN, StepEpisode(r, done)
      PROVE  QuietInv'
  BY <1>7 DEF StepEpisode, Answer, clientVars, QuietInv
<1>8. CASE Shutdown
  BY <1>8 DEF Shutdown, clientVars, QuietInv
<1>9. CASE Restart
  BY <1>9 DEF Restart, clientVars, QuietInv
<1>10. ASSUME NEW c \in Clients, RaiseAtOnce(c)
      PROVE  QuietInv'
  BY <1>10 DEF RaiseAtOnce, QuietInv
<1>11. ASSUME NEW c \in Clients, ForgetEpisode(c)
      PROVE  QuietInv'
  BY <1>11 DEF ForgetEpisode, QuietInv
<1>12. ASSUME NEW c \in Clients, NEW p \in replies, Constructed(c, p)
      PROVE  QuietInv'
  BY <1>12, <1>0 DEF Constructed, Receive, OutstandingInv, QuietInv
<1>13. ASSUME NEW c \in Clients, NEW p \in replies, ResetAfterClose(c, p)
      PROVE  QuietInv'
  BY <1>13, <1>0 DEF ResetAfterClose, OutstandingInv, QuietInv
<1>14. ASSUME NEW c \in Clients, NEW p \in replies, ResetReturns(c, p)
      PROVE  QuietInv'
  BY <1>14, <1>0 DEF ResetReturns, Receive, OutstandingInv, QuietInv
<1>15. ASSUME NEW c \in Clients, NEW p \in replies, StepReturns(c, p)
      PROVE  QuietInv'
  BY <1>15, <1>0 DEF StepReturns, Receive, OutstandingInv, QuietInv
<1>16. ASSUME NEW c \in Clients, NEW p \in replies, Rendered(c, p)
      PROVE  QuietInv'
  BY <1>16, <1>0 DEF Rendered, Receive, OutstandingInv, QuietInv
<1>17. ASSUME NEW c \in Clients, NEW p \in replies, CallRaises(c, p)
      PROVE  QuietInv'
  <2>1. disturbed \subseteq disturbed'
    BY <1>17 DEF CallRaises
  <2>2. Receive(c, p) /\ requests' = requests
    BY <1>17 DEF CallRaises
  <2>3. QED
    BY <2>1, <2>2, <1>0 DEF Receive, OutstandingInv, QuietInv
<1>18. QED
  BY <1>1, <1>2, <1>3, <1>4, <1>5, <1>6, <1>7, <1>8, <1>9, <1>10, <1>11, <1>12, <1>13,
     <1>14, <1>15, <1>16, <1>17, StepCases, Zenon

LEMMA OrphanStep ==
    ASSUME TypeOK, SocketInv, OutstandingInv, OwnerInv, ServerInv, CallInv, MessageInv,
           QuietInv, NoOrphans, Next
    PROVE  NoOrphans'
<1>0. /\ Len(issued) \in Nat /\ NoEpisode = 0
      /\ client_episode \in [Clients -> 0 .. Len(issued)]
      /\ issued \in Seq(Clients) /\ episode_id \in 0 .. Len(issued)
      /\ \A r \in requests : r.client \in Clients
      /\ state = "EPISODE_ACTIVE" => episode_id # NoEpisode /\ issued[episode_id] \in Clients
  BY DEF TypeOK, EpisodeIds, NoEpisode, Request, ServerInv, Open
<1>1. CASE Refusal
  <2>1. /\ replies \subseteq replies'
        /\ UNCHANGED <<state, issued, episode_id, client_episode, disturbed>>
    BY <1>1 DEF Refusal, Answer, clientVars
  <2>2. QED
    BY <2>1 DEF NoOrphans
<1>2. CASE Sending
  <2>1. UNCHANGED <<serverVars, replies, client_episode, disturbed>>
    BY <1>2 DEF Sending, Send
  <2>2. QED
    BY <2>1 DEF serverVars, NoOrphans
<1>3. CASE Leaving
  <2>1. PICK c \in Clients, pc \in {"closed", "dead"} :
             /\ Leave(c, pc) /\ UNCHANGED serverVars /\ disturbed \subseteq disturbed'
             /\ \/ c \in disturbed'
                \/ call[c] = "idle" /\ socket[c] # "waiting" /\ client_episode[c] = NoEpisode
                \/ call[c] \in {"connecting", "closing"} /\ \E p \in replies : p.client = c
    BY <1>3, Zenon DEF Leaving
  <2>2. SUFFICES ASSUME issued[episode_id] \notin disturbed', state = "EPISODE_ACTIVE"
                 PROVE  NoOrphans'
    BY <2>1 DEF serverVars, NoOrphans
  <2>3. ASSUME c \notin disturbed'
        PROVE  /\ client_episode[c] # episode_id
               /\ \A p \in replies : p.client = c => p.episode_id # episode_id
    <3>1. CASE socket[c] # "waiting" /\ client_episode[c] = NoEpisode
      BY <1>0, <2>2, <3>1 DEF OutstandingInv
    <3>2. CASE call[c] \in {"connecting", "closing"} /\ \E p \in replies : p.client = c
      BY <1>0, <2>2, <3>2 DEF CallInv, MessageInv, ReplyFits
    <3>3. QED
      BY <2>1, <2>3, <3>1, <3>2
  <2>4. \/ client_episode[issued[episode_id]] = episode_id
        \/ \E p \in replies : p.client = issued[episode_id] /\ p.episode_id = episode_id
    BY <2>1, <2>2 DEF NoOrphans
  <2>5. issued[episode_id] # c /\ issued[episode_id] \in Clients
    BY <1>0, <2>2, <2>3, <2>4
  <2>6. client_episode'[issued[episode_id]] = client_episode[issued[episode_id]]
    BY <1>0, <2>1, <2>5 DEF Leave
  <2>7. \A p \in replies : p.client = issued[episode_id] => p \in replies'
    BY <2>1, <2>5 DEF Leave
  <2>8. issued' = issued /\ episode_id' = episode_id
    BY <2>1 DEF serverVars
  <2>9. QED
    BY <2>4, <2>6, <2>7, <2>8 DEF NoOrphans
<1>4. CASE GivingUp
  <2>1. PICK c \in Clients :
             /\ replies' = {p \in replies : p.client # c}
             /\ client_episode' \in {client_episode, [client_episode EXCEPT ![c] = NoEpisode]}
             /\ disturbed' = disturbed \cup {c} /\ UNCHANGED serverVars
    BY <1>4, Zenon DEF GivingUp
  <2>2. QED
    BY <1>0, <2>1 DEF serverVars, NoOrphans
<1>5. ASSUME NEW r \in requests, ResetEpisode(r)
      PROVE  NoOrphans'
  <2>1. /\ issued' = Append(issued, r.client) /\ episode_id' = Len(issued) + 1
        /\ \/ /\ Answer(r, "none", Len(issued) + 1, 0, FALSE) /\ disturbed' = disturbed
           \/ disturbed' = disturbed \cup {r.client}
    BY <1>5 DEF ResetEpisode
  <2>2. issued'[episode_id'] = r.client
    BY <1>0, <2>1
  <2>3. ASSUME r.client \notin disturbed'
        PROVE  \E p \in replies' : p.client = r.client /\ p.episode_id = episode_id'
    <3>1. Answer(r, "none", Len(issued) + 1, 0, FALSE) /\ socket[r.client] = "waiting"
      BY <2>1, <2>3 DEF QuietInv
    <3>2. [client |-> r.client, error |-> "none", episode_id |-> Len(issued) + 1,
           step_index |-> 0, done |-> FALSE] \in replies'
      BY <3>1 DEF Answer
    <3>3. QED
      BY <2>1, <3>2
  <2>4. QED
    BY <2>2, <2>3 DEF NoOrphans
<1>6. ASSUME NEW r \in requests, CloseEpisode(r)
      PROVE  NoOrphans'
  BY <1>6 DEF CloseEpisode, NoOrphans
<1>7. ASSUME NEW r \in requests, NEW done \in BOOLEAN, StepEpisode(r, done)
      PROVE  NoOrphans'
  <2>1. /\ replies \subseteq replies' /\ state = "EPISODE_ACTIVE"
        /\ UNCHANGED <<episode_id, issued, client_episode, disturbed>>
    BY <1>7 DEF StepEpisode, ValidateStep, Answer, clientVars
  <2>2. QED
    BY <2>1 DEF NoOrphans
<1>8. CASE Shutdown
  BY <1>8 DEF Shutdown, NoOrphans
<1>9. CASE Restart
  BY <1>9 DEF Restart, NoOrphans
<1>10. ASSUME NEW c \in Clients, RaiseAtOnce(c)
      PROVE  NoOrphans'
  BY <1>10 DEF RaiseAtOnce, serverVars, NoOrphans
<1>11. ASSUME NEW c \in Clients, ForgetEpisode(c)
      PROVE  NoOrphans'
  <2>1. /\ c \in disturbed /\ UNCHANGED <<serverVars, replies, disturbed>>
        /\ client_episode' = [client_episode EXCEPT ![c] = NoEpisode]
    BY <1>11 DEF ForgetEpisode, SocketInv
  <2>2. QED
    BY <1>0, <2>1 DEF serverVars, NoOrphans
<1>12. ASSUME NEW c \in Clients, NEW p \in replies, Constructed(c, p)
      PROVE  NoOrphans'
  <2>1. /\ state = "EPISODE_ACTIVE" => p.episode_id # episode_id
        /\ replies' = replies \ {p}
        /\ UNCHANGED <<serverVars, client_episode, disturbed>>
    BY <1>12, <1>0 DEF Constructed, Receive, MessageInv, ReplyFits
  <2>2. QED
    BY <2>1 DEF serverVars, NoOrphans
<1>13. ASSUME NEW c \in Clients, NEW p \in replies, ResetAfterClose(c, p)
      PROVE  NoOrphans'
  <2>1. /\ p.client = c /\ call[c] = "close_then_reset" /\ replies' = replies \ {p}
        /\ client_episode' = [client_episode EXCEPT ![c] = NoEpisode]
        /\ UNCHANGED <<serverVars, disturbed>>
    BY <1>13 DEF ResetAfterClose
  <2>2. ASSUME state = "EPISODE_ACTIVE"
        PROVE  client_episode[c] # episode_id /\ p.episode_id # episode_id
    BY <1>0, <2>1, <2>2 DEF MessageInv, ReplyFits
  <2>3. QED
    BY <1>0, <2>1, <2>2 DEF serverVars, NoOrphans
<1>14. ASSUME NEW c \in Clients, NEW p \in replies, ResetReturns(c, p)
      PROVE  NoOrphans'
  <2>1. /\ p.client = c /\ client_episode[c] = NoEpisode /\ replies' = replies \ {p}
        /\ client_episode' = [client_episode EXCEPT ![c] = p.episode_id]
        /\ UNCHANGED <<serverVars, disturbed>>
    BY <1>14 DEF ResetReturns, Receive, CallInv
  <2>2. QED
    BY <1>0, <2>1 DEF serverVars, NoOrphans
<1>15. ASSUME NEW c \in Clients, NEW p \in replies, StepReturns(c, p)
      PROVE  NoOrphans'
  <2>1. /\ p.client = c /\ p.episode_id = client_episode[c] /\ replies' = replies \ {p}
        /\ UNCHANGED <<serverVars, client_episode, disturbed>>
    BY <1>15 DEF StepReturns, Receive, MessageInv, ReplyFits
  <2>2. QED
    BY <1>0, <2>1 DEF serverVars, NoOrphans
<1>16. ASSUME NEW c \in Clients, NEW p \in replies, Rendered(c, p)
      PROVE  NoOrphans'
  <2>1. /\ state = "EPISODE_ACTIVE" => p.episode_id # episode_id
        /\ replies' = replies \ {p}
        /\ UNCHANGED <<serverVars, client_episode, disturbed>>
    BY <1>16, <1>0 DEF Rendered, Receive, MessageInv, ReplyFits
  <2>2. QED
    BY <2>1 DEF serverVars, NoOrphans
<1>17. ASSUME NEW c \in Clients, NEW p \in replies, CallRaises(c, p)
      PROVE  NoOrphans'
  <2>1. /\ p.client = c /\ replies' = replies \ {p} /\ disturbed \subseteq disturbed'
        /\ UNCHANGED <<serverVars, client_episode>>
    BY <1>17 DEF CallRaises, Receive
  <2>2. \/ c \in disturbed'
        \/ p.error # "none"
        \/ p.error = "none" /\ call[c] = "stepping"
    BY <1>17 DEF CallRaises
  <2>3. \/ c \in disturbed'
        \/ p.episode_id # episode_id \/ episode_id = NoEpisode
        \/ p.episode_id = client_episode[c]
    BY <2>1, <2>2 DEF MessageInv, ReplyFits
  <2>4. SUFFICES ASSUME issued[episode_id] \notin disturbed', state = "EPISODE_ACTIVE"
                 PROVE  NoOrphans'
    BY <2>1 DEF serverVars, NoOrphans
  <2>5. QED
    BY <1>0, <2>1, <2>3, <2>4 DEF serverVars, NoOrphans
<1>18. QED
  BY <1>1, <1>2, <1>3, <1>4, <1>5, <1>6, <1>7, <1>8, <1>9, <1>10, <1>11, <1>12, <1>13,
     <1>14, <1>15, <1>16, <1>17, StepCases, Zenon

-----------------------------------------------------------------------------
(* Steps that raised: what their clients are told before the next one.     *)

LEMMA AnswerKeepsOwed ==
    ASSUME OutstandingInv, OwedInv, NEW r \in requests, NEW e, NEW id, NEW index, NEW done,
           Answer(r, e, id, index, done), UNCHANGED <<call, socket, owed>>
    PROVE  OwedInv'
<1> DEFINE p == [client |-> r.client, error |-> e, episode_id |-> id, step_index |-> index,
                 done |-> done]
<1>1. requests' \subseteq requests /\ replies' \subseteq replies \cup {p}
  BY DEF Answer
<1>2. p.client = r.client
  OBVIOUS
<1> HIDE DEF p
<1>3. r.client \notin owed
  BY DEF OwedInv
<1>4. QED
  BY <1>1, <1>2, <1>3 DEF OwedInv

LEMMA OwedStep ==
    ASSUME TypeOK, SocketInv, OutstandingInv, CallInv, OwedInv, Next
    PROVE  OwedInv'
<1>0. /\ call \in [Clients -> Waiting \cup {"absent", "idle", "closed", "dead"}]
      /\ socket \in [Clients -> {"ready", "waiting", "stuck", "closed"}]
      /\ owed \subseteq Clients
      /\ \A r \in requests : r.client \in Clients
      /\ \A p \in replies : p.client \in Clients
  BY DEF TypeOK, Request, Reply
<1>1. CASE Refusal
  <2>1. PICK r \in requests, e \in Errors :
             /\ Answer(r, e, NoEpisode, 0, FALSE) /\ UNCHANGED clientVars
             /\ UNCHANGED <<trajectory, owed>> \/ StepRaises(r)
    BY <1>1, Zenon DEF Refusal
  <2>2. CASE owed' = owed
    BY <2>1, <2>2, AnswerKeepsOwed DEF clientVars
  <2>3. CASE StepRaises(r)
    <3> DEFINE p == [client |-> r.client, error |-> "FAILED", episode_id |-> NoEpisode,
                     step_index |-> 0, done |-> FALSE]
    <3>1. /\ requests' = requests \ {r} /\ owed' = owed \cup {r.client}
          /\ replies' = IF socket[r.client] = "waiting" THEN replies \cup {p} ELSE replies
          /\ call' = call /\ socket' = socket /\ r.command = "STEP"
      BY <2>3 DEF StepRaises, Received, Answer, clientVars
    <3>2. p.client = r.client /\ p.error # "none"
      OBVIOUS
    <3> HIDE DEF p
    <3>3. /\ \A q \in requests : q.client = r.client => q = r
          /\ \A q \in replies : q.client # r.client
      BY DEF OutstandingInv
    <3>4. call[r.client] = "stepping" \/ socket[r.client] \in {"stuck", "closed"}
      <4>1. CASE socket[r.client] = "waiting"
        <5>1. call[r.client] \in Waiting /\ CommandOf[call[r.client]] = "STEP"
          BY <1>0, <3>1, <4>1 DEF OutstandingInv, SocketInv
        <5>2. QED
          BY <5>1 DEF CommandOf, Waiting
      <4>2. QED
        BY <1>0, <4>1 DEF OutstandingInv
    <3>5. QED
      BY <3>1, <3>2, <3>3, <3>4 DEF OwedInv
  <2>4. QED
    BY <2>1, <2>2, <2>3
<1>2. CASE Sending
  <2>1. PICK c \in Clients, pc \in Waiting, r \in Request :
             /\ call[c] \in {"absent", "idle"}
             /\ Send(c, pc, r.command, r.episode_id, r.step_index)
    BY <1>2, Zenon DEF Sending
  <2>2. /\ socket[c] = "ready" /\ replies' = replies /\ owed' = owed
        /\ call' = [call EXCEPT ![c] = pc]
        /\ socket' = [socket EXCEPT ![c] = "waiting"]
        /\ \A q \in requests' : q \in requests \/ q.client = c
    BY <2>1 DEF Send
  <2>3. c \notin owed
    BY <2>1, <2>2 DEF OwedInv
  <2>4. QED
    BY <1>0, <2>2, <2>3 DEF OwedInv
<1>3. CASE Leaving
  BY <1>3, <1>0 DEF Leaving, Leave, OwedInv
<1>4. CASE GivingUp
  BY <1>4, <1>0 DEF GivingUp, Raise, OwedInv
<1>5. ASSUME NEW r \in requests, ResetEpisode(r)
      PROVE  OwedInv'
  <2>1. \E e, id : Answer(r, e, id, 0, FALSE) /\ UNCHANGED <<call, socket, owed>>
    BY <1>5 DEF ResetEpisode, clientVars
  <2>2. QED
    BY <2>1, AnswerKeepsOwed
<1>6. ASSUME NEW r \in requests, CloseEpisode(r)
      PROVE  OwedInv'
  BY <1>6, AnswerKeepsOwed DEF CloseEpisode, clientVars
<1>7. ASSUME NEW r \in requests, NEW done \in BOOLEAN, StepEpisode(r, done)
      PROVE  OwedInv'
  <2>1. \E e, id, index, d : Answer(r, e, id, index, d) /\ UNCHANGED <<call, socket, owed>>
    BY <1>7 DEF StepEpisode, clientVars
  <2>2. QED
    BY <2>1, AnswerKeepsOwed
<1>8. CASE Shutdown
  BY <1>8 DEF Shutdown, clientVars, OwedInv
<1>9. CASE Restart
  BY <1>9 DEF Restart, clientVars, OwedInv
<1>10. ASSUME NEW c \in Clients, RaiseAtOnce(c)
       PROVE  OwedInv'
  BY <1>10 DEF RaiseAtOnce, OwedInv
<1>11. ASSUME NEW c \in Clients, ForgetEpisode(c)
       PROVE  OwedInv'
  BY <1>11 DEF ForgetEpisode, OwedInv
<1>12. ASSUME NEW c \in Clients, NEW p \in replies, Constructed(c, p)
       PROVE  OwedInv'
  <2>1. c \notin owed
    BY <1>12 DEF Constructed, Receive, OwedInv
  <2>2. QED
    BY <1>12, <1>0, <2>1 DEF Constructed, Receive, OwedInv
<1>13. ASSUME NEW c \in Clients, NEW p \in replies, ResetAfterClose(c, p)
       PROVE  OwedInv'
  <2>1. /\ call[c] = "close_then_reset" /\ socket[c] = "waiting"
        /\ replies' = replies \ {p} /\ UNCHANGED <<socket, owed>>
        /\ call' = [call EXCEPT ![c] = "resetting"]
        /\ \A q \in requests' : q \in requests \/ q.client = c
    BY <1>13 DEF ResetAfterClose, OutstandingInv
  <2>2. c \notin owed
    BY <2>1 DEF OwedInv
  <2>3. QED
    BY <1>0, <2>1, <2>2 DEF OwedInv
<1>14. ASSUME NEW c \in Clients, NEW p \in replies, ResetReturns(c, p)
       PROVE  OwedInv'
  <2>1. c \notin owed
    BY <1>14 DEF ResetReturns, Receive, OwedInv
  <2>2. QED
    BY <1>14, <1>0, <2>1 DEF ResetReturns, Receive, Returned, OwedInv
<1>15. ASSUME NEW c \in Clients, NEW p \in replies, StepReturns(c, p)
       PROVE  OwedInv'
  <2>1. c \notin owed
    BY <1>15 DEF StepReturns, Receive, OwedInv
  <2>2. QED
    BY <1>15, <1>0, <2>1 DEF StepReturns, Receive, Returned, OwedInv
<1>16. ASSUME NEW c \in Clients, NEW p \in replies, Rendered(c, p)
       PROVE  OwedInv'
  <2>1. c \notin owed
    BY <1>16 DEF Rendered, Receive, OwedInv
  <2>2. QED
    BY <1>16, <1>0, <2>1 DEF Rendered, Receive, Returned, OwedInv
<1>17. ASSUME NEW c \in Clients, NEW p \in replies, CallRaises(c, p)
       PROVE  OwedInv'
  <2>1. /\ owed' \subseteq owed /\ c \notin owed'
        /\ replies' = replies \ {p} /\ requests' = requests
        /\ socket' = [socket EXCEPT ![c] = "ready"]
        /\ call' = [call EXCEPT ![c] = "idle"]
    BY <1>17 DEF CallRaises, Receive, Raise, OwedInv
  <2>2. QED
    BY <1>0, <2>1 DEF OwedInv
<1>18. QED
  BY <1>1, <1>2, <1>3, <1>4, <1>5, <1>6, <1>7, <1>8, <1>9, <1>10, <1>11, <1>12, <1>13,
     <1>14, <1>15, <1>16, <1>17, StepCases, Zenon

-----------------------------------------------------------------------------
(* The invariant and what follows from it.                                 *)

LEMMA Initially ==
    ASSUME Init
    PROVE  IInv
<1> USE DEF Init, NoEpisode
<1>1. Len(issued) = 0 /\ issued \in Seq(Clients)
      /\ trajectory \in Seq([client : Clients, step_index : Nat, whole : BOOLEAN])
  BY EmptySeq
<1>2. TypeOK
  <2>1. EpisodeIds = 0 .. 0
    BY <1>1 DEF EpisodeIds
  <2>2. client_episode \in [Clients -> EpisodeIds] /\ episode_id \in EpisodeIds
    BY <2>1
  <2>3. QED
    BY <1>1, <2>2 DEF TypeOK, EpisodeStatus
<1>3. SocketInv /\ CallInv /\ QuietInv /\ OwedInv
  BY DEF SocketInv, CallInv, QuietInv, OwedInv, Waiting
<1>4. OutstandingInv /\ OwnerInv /\ MessageInv
  BY DEF OutstandingInv, OwnerInv, MessageInv
<1>5. ServerInv
  BY DEF ServerInv, Open, StepsRunInOrder, Following
<1>6. MirrorIsCurrent /\ ClientLimits /\ NoOrphans
  BY DEF MirrorIsCurrent, ClientLimits, NoOrphans
<1>7. QED
  BY <1>2, <1>3, <1>4, <1>5, <1>6 DEF IInv

LEMMA Stuttering ==
    ASSUME IInv, UNCHANGED vars
    PROVE  IInv'
<1> USE DEF vars, serverVars, clientVars
<1>1. TypeOK'
  BY DEF IInv, TypeOK, EpisodeIds
<1>2. SocketInv' /\ CallInv' /\ QuietInv' /\ OwedInv'
  BY DEF IInv, SocketInv, CallInv, QuietInv, OwedInv
<1>3. OutstandingInv' /\ OwnerInv'
  BY DEF IInv, OutstandingInv, OwnerInv
<1>4. MessageInv'
  BY DEF IInv, MessageInv, RequestFits, ReplyFits
<1>5. ServerInv'
  BY DEF IInv, ServerInv, Open, StepsRunInOrder, Following
<1>6. MirrorIsCurrent' /\ ClientLimits' /\ NoOrphans'
  BY DEF IInv, MirrorIsCurrent, ClientLimits, NoOrphans
<1>7. QED
  BY <1>1, <1>2, <1>3, <1>4, <1>5, <1>6 DEF IInv

\* IInv holds in every reachable state of the bridge: it is what the theorems
\* below rest on, and no part of it but types, sockets and calls is inductive
\* without some of the others.
THEOREM IInvHolds == Spec => []IInv
<1>1. IInv /\ Next => IInv'
  <2> SUFFICES ASSUME IInv, Next
               PROVE  IInv'
    OBVIOUS
  <2>1. /\ TypeOK /\ SocketInv /\ OutstandingInv /\ OwnerInv /\ ServerInv /\ CallInv
        /\ MessageInv /\ MirrorIsCurrent /\ ClientLimits /\ QuietInv /\ NoOrphans
        /\ OwedInv
    BY DEF IInv
  <2>2. TypeOK' /\ SocketInv' /\ CallInv'
    BY <2>1, TypeStep, SocketStep, CallStep
  <2>3. OutstandingInv' /\ OwnerInv' /\ ServerInv' /\ MessageInv'
    BY <2>1, OutstandingStep, OwnerStep, ServerStep, MessageStep
  <2>4. MirrorIsCurrent' /\ ClientLimits' /\ QuietInv' /\ NoOrphans' /\ OwedInv'
    BY <2>1, MirrorStep, LimitsStep, QuietStep, OrphanStep, OwedStep
  <2>5. QED
    BY <2>2, <2>3, <2>4 DEF IInv
<1>2. QED
  BY <1>1, Initially, Stuttering, PTL DEF Spec

\* Every variable of the bridge keeps its type (TypeOK): in particular a client
\* only ever holds the id of an episode the server has issued.
THEOREM BridgeTypes == Spec => []TypeOK
<1>1. IInv => TypeOK
  BY DEF IInv
<1>2. QED
  BY <1>1, IInvHolds, PTL

\* env.step is called for the steps of an open episode in order, and for none
\* again once it returned, only at the request of the client the episode was
\* issued to (server.py _handle_step).
THEOREM InOrder == Spec => []StepsRunInOrder
<1>1. IInv => StepsRunInOrder
  BY DEF IInv, ServerInv
<1>2. QED
  BY <1>1, IInvHolds, PTL

\* After a step that raised, nothing more is executed for its client before the
\* client has read that it raised (client.py request, server.py _handle_step).
THEOREM ToldBeforeRepeat == Spec => RepeatsAreKnown
<1> DEFINE A == Len(trajectory') > Len(trajectory) =>
                   trajectory'[Len(trajectory')].client \notin owed
<1>1. ASSUME IInv, [Next]_vars
      PROVE  [A]_vars
  <2>1. CASE UNCHANGED vars
    BY <2>1
  <2>2. CASE UNCHANGED trajectory \/ trajectory' = <<>>
    <3>1. Len(trajectory') <= Len(trajectory)
      BY <1>1, <2>2, EmptySeq DEF IInv, TypeOK
    <3>2. Len(trajectory) \in Nat /\ Len(trajectory') \in Nat
      BY <1>1, <2>2, EmptySeq DEF IInv, TypeOK
    <3>3. QED
      BY <3>1, <3>2
  <2>3. ASSUME NEW r \in requests, NEW whole \in BOOLEAN, Stepped(r, whole)
        PROVE  A
    <3>1. /\ trajectory \in Seq([client : Clients, step_index : Nat, whole : BOOLEAN])
          /\ [client |-> r.client, step_index |-> r.step_index, whole |-> whole]
               \in [client : Clients, step_index : Nat, whole : BOOLEAN]
      BY <1>1 DEF IInv, TypeOK, Request
    <3>2. trajectory'[Len(trajectory')].client = r.client
      <4> DEFINE e == [client |-> r.client, step_index |-> r.step_index, whole |-> whole]
      <4>1. trajectory' = Append(trajectory, e) /\ e.client = r.client
        BY <2>3 DEF Stepped
      <4> HIDE DEF e
      <4>2. trajectory'[Len(trajectory')] = e
        BY <3>1, <4>1, AppendProperties DEF e
      <4>3. QED
        BY <4>1, <4>2
    <3>3. r.client \notin owed
      BY <1>1 DEF IInv, OwedInv
    <3>4. QED
      BY <3>2, <3>3
  <2>4. CASE Next
    <3>1. TypeOK /\ SocketInv /\ CallInv
      BY <1>1 DEF IInv
    <3>2. \/ UNCHANGED trajectory \/ trajectory' = <<>>
          \/ \E r \in requests, whole \in BOOLEAN : Stepped(r, whole)
      <4>1. CASE Refusal
        BY <4>1 DEF Refusal, StepRaises
      <4>2. CASE Sending \/ Leaving \/ GivingUp
        BY <4>2 DEF Sending, Send, Leaving, GivingUp, serverVars
      <4>3. CASE Shutdown \/ Restart
        BY <4>3 DEF Shutdown, Restart
      <4>4. CASE \E r \in requests : ResetEpisode(r) \/ CloseEpisode(r)
                                       \/ \E done \in BOOLEAN : StepEpisode(r, done)
        BY <4>4 DEF ResetEpisode, CloseEpisode, StepEpisode
      <4>5. CASE \E c \in Clients : RaiseAtOnce(c) \/ ForgetEpisode(c)
        BY <4>5 DEF RaiseAtOnce, ForgetEpisode, serverVars
      <4>6. CASE \E c \in Clients, p \in replies :
                   \/ Constructed(c, p) \/ ResetAfterClose(c, p) \/ ResetReturns(c, p)
                   \/ StepReturns(c, p) \/ Rendered(c, p) \/ CallRaises(c, p)
        BY <4>6 DEF Constructed, ResetAfterClose, ResetReturns, StepReturns, Rendered,
                    CallRaises, serverVars
      <4>7. QED
        BY <2>4, <3>1, <4>1, <4>2, <4>3, <4>4, <4>5, <4>6, StepCases, Zenon
    <3>3. QED
      BY <2>2, <2>3, <3>2
  <2>5. QED
    BY <1>1, <2>1, <2>4
<1>2. QED
  BY <1>1, IInvHolds, PTL DEF Spec, RepeatsAreKnown

\* RoCoGymEnv's copy of the episode's state is at most one step behind.
THEOREM MirrorLags == Spec => []MirrorIsCurrent
<1>1. IInv => MirrorIsCurrent
  BY DEF IInv
<1>2. QED
  BY <1>1, IInvHolds, PTL

\* Both truncation limits are kept, the server's and the client's.
THEOREM LimitsHold == Spec => []LimitsAreKept
<1>1. IInv => LimitsAreKept
  BY DEF IInv, ServerInv, ClientLimits, LimitsAreKept
<1>2. QED
  BY <1>1, IInvHolds, PTL

\* The server is only left with an active episode that its client neither holds
\* nor is about to be told of when that client itself gave up a call, died or was
\* refused the reply of its reset.
THEOREM EpisodesAreOwned == Spec => []NoOrphans
<1>1. IInv => NoOrphans
  BY DEF IInv
<1>2. QED
  BY <1>1, IInvHolds, PTL
=============================================================================
