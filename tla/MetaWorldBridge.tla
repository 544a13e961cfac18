--------------------------- MODULE MetaWorldBridge ---------------------------
(***************************************************************************)
(* MetaWorldBridgeClient and the helper process it drives: one JSON line   *)
(* for every request and one for its reply, without identifiers and        *)
(* without timeouts.  The helper's stderr is a pipe that nobody reads      *)
(* while the helper is alive.                                              *)
(***************************************************************************)
EXTENDS Naturals, Sequences

CONSTANT PipeSize   \* how much stderr the pipe holds

ASSUME PipeAssumption == PipeSize \in Nat

VARIABLES
    helper,     \* the process: where it is, the command it works on, its environment
    requests,   \* lines written to its stdin and not read
    replies,    \* lines written to its stdout and not read
    unread,     \* how much its stderr holds
    asked       \* the command whose reply _request is waiting for

bridgeVars == <<helper, requests, replies, unread, asked>>

\* The environment as a snapshot reports it; status "cut" is terminated or truncated.
NotReset == [step |-> 0, status |-> "not reset"]

Gone == [at |-> "gone", job |-> "none", sim |-> NotReset]
Spawned == [Gone EXCEPT !.at = "starting"]

IsGone == helper.at = "gone"
NoReply == replies = <<>> /\ IsGone

BridgeInit ==
    /\ helper = Gone /\ requests = <<>> /\ replies = <<>>
    /\ unread = 0 /\ asked = "none"

-----------------------------------------------------------------------------
(* The client's side.                                                      *)

Spawn ==
    /\ helper' = Spawned /\ requests' = <<>> /\ replies' = <<>>
    /\ unread' = 0 /\ asked' = "none"

Send(command) ==
    /\ ~IsGone
    /\ asked' = command
    /\ requests' = Append(requests, command)
    /\ UNCHANGED <<helper, replies, unread>>

\* readline() returned a line, of whatever request it is the reply to.
Receive ==
    /\ replies # <<>>
    /\ replies' = Tail(replies)
    /\ asked' = "none"
    /\ UNCHANGED <<helper, requests, unread>>

\* readline() returned "", or write() found the pipe broken.
EndOfFile == asked' = "none" /\ UNCHANGED <<helper, requests, replies, unread>>

\* The finally of close(): the process is over when wait() returns.
Terminate == helper' = Gone /\ asked' = "none" /\ UNCHANGED <<requests, replies, unread>>

-----------------------------------------------------------------------------
(* The helper's side.                                                      *)

Ok(data) == [ok |-> TRUE, data |-> data]
Error == [ok |-> FALSE]

\* The parent is there to read what is written: without it a write breaks and
\* stdin is at its end.
Written(line) == replies' = Append(replies, line)

\* MetaWorldSession is built, or it is not and main() returns.
Start ==
    /\ helper.at = "starting"
    /\ \/ helper' = [helper EXCEPT !.at = "reading"] /\ Written(Ok(NotReset))
       \/ helper' = Gone /\ Written(Error)
    /\ UNCHANGED <<requests, unread, asked>>

Take ==
    /\ helper.at = "reading" /\ requests # <<>>
    /\ helper' = [helper EXCEPT !.at = "working", !.job = Head(requests)]
    /\ requests' = Tail(requests)
    /\ UNCHANGED <<replies, unread, asked>>

\* What a command makes of the environment. MetaWorld refuses a step after the
\* one it truncated, and the session an expert action before a reset.
Performed(command, sim) ==
    CASE command = "reset" -> {[step |-> 0, status |-> "none"]}
      [] command = "step" /\ sim.status \in {"none", "success"} ->
           {[step |-> sim.step + 1, status |-> st] : st \in {"none", "success", "cut"}}
      [] command = "expert_action" /\ sim.status # "not reset" -> {sim}
      [] command \in {"save_frame", "close"} -> {sim}
      [] OTHER -> {}

\* Mutant of Refuse: the exception is swallowed without a reply.
RefuseSilently == helper' = [helper EXCEPT !.at = "reading"] /\ UNCHANGED replies

\* The command raised: the traceback is the reply, and the loop goes on.
Refuse == helper' = [helper EXCEPT !.at = "reading"] /\ Written(Error)

Work ==
    /\ helper.at = "working"
    /\ \/ \E sim \in Performed(helper.job, helper.sim) :
             /\ helper' = IF helper.job = "close" THEN Gone
                          ELSE [helper EXCEPT !.at = "reading", !.sim = sim]
             /\ Written(Ok(sim))
       \/ Refuse
    /\ UNCHANGED <<requests, unread, asked>>

\* A library writes a warning to stderr. The write that does not fit never returns.
Chatter ==
    /\ helper.at \in {"starting", "working"}
    /\ IF unread < PipeSize
         THEN unread' = unread + 1 /\ UNCHANGED helper
         ELSE helper' = [helper EXCEPT !.at = "stuck"] /\ UNCHANGED unread
    /\ UNCHANGED <<requests, replies, asked>>

\* The process dies by itself: an import that fails, a crash of the simulator.
Crash == ~IsGone /\ helper' = Gone /\ UNCHANGED <<requests, replies, unread, asked>>

\* The parent has gone: the end of stdin, or a broken stdout or stderr.
Orphaned == ~IsGone /\ helper' = Gone /\ UNCHANGED <<requests, replies, unread, asked>>
=============================================================================
