------------------------------ MODULE Sockets ------------------------------
(***************************************************************************)
(* The socket between the agents and the daemon (src/server.ts): its       *)
(* connections, newline-delimited requests that arrive in chunks of any    *)
(* size, answers written when the requests finish, and the close of the    *)
(* server.  The requests themselves are those of Daemon, whose steps are   *)
(* taken whole.                                                            *)
(*                                                                         *)
(* A request line is a message and a newline, two symbols: a chunk may end *)
(* inside a line, between lines or after several of them.                  *)
(***************************************************************************)
EXTENDS Daemon, SequencesExt

CONSTANTS
    Conns,      \* bound: the connections agents make, numbered as they come
    Messages,   \* what agents write on a line, each at most once
    ClaimIn,    \* message -> the claim in it, None if there is none, or JsonNull
    JsonNull,   \* what a line is that holds the JSON value null
    NL          \* the newline

Symbols == Messages \cup {NL}

Origins == [conn: Conns, text: Seq(Symbols)]

ASSUME SocketsAssumption ==
    /\ \A message \in Messages : ClaimIn[message] \in Claims \cup {None, JsonNull}
    /\ NL \notin Messages
    /\ None \notin Origins
    /\ Conns = 1..Cardinality(Conns)
    /\ Requests = 1..Cardinality(Requests)

VARIABLES
    conn,       \* the state of each connection, at the server
    written,    \* history: the messages an agent wrote, in order
    stream,     \* what an agent wrote and the server has not read
    buffer,     \* what the server has read and not handled
    failing,    \* a promise was rejected that nobody handles
    origin,     \* the connection and the text of each request, None before it
    replies     \* what the server wrote on each connection, in order

socketVars == <<conn, written, stream, buffer, failing, origin, replies>>
allVars == <<rows, terms, clock, job, intents, allowance, revoked, daemon, moved,
             conn, written, stream, buffer, failing, origin, replies>>

(* "ended": the agent has closed its end and the server has not seen it.   *)
(* "severed" and "lost": the process exited, or crashed, while the         *)
(* connection was in use.                                                  *)
InUse == {"open", "ended"}

Outcomes == {"paid", "refused", "free", "seller_error"}

(***************************************************************************)
(* Everything is a value of its type, and the requests that have an origin *)
(* are those that began.                                                   *)
(***************************************************************************)
SocketsTypeOK ==
    /\ conn \in [Conns -> InUse \cup {"none", "closed", "severed", "lost"}]
    /\ written \in [Conns -> Seq(Messages)]
    /\ stream \in [Conns -> Seq(Symbols)]
    /\ buffer \in [Conns -> Seq(Symbols)]
    /\ failing \in BOOLEAN
    /\ origin \in [Requests -> Origins \cup {None}]
    /\ replies \in [Conns -> Seq([text: Seq(Symbols), outcome: Outcomes])]
    /\ \A r \in Requests : job[r].pc = "idle" <=> origin[r] = None

-----------------------------------------------------------------------------
(* Agents.                                                                 *)

Connect(c) ==
    /\ conn[c] = "none"
    /\ \A earlier \in 1..(c - 1) : conn[earlier] # "none"
    /\ daemon = "up"
    /\ ~ failing
    /\ conn' = [conn EXCEPT ![c] = "open"]
    /\ UNCHANGED <<vars, written, stream, buffer, failing, origin, replies>>

AllWritten == UNION {ToSet(written[c]) : c \in Conns}

Write(c, message) ==
    /\ conn[c] = "open"
    /\ message \notin AllWritten
    /\ Cardinality(AllWritten) < Cardinality(Requests)
    /\ written' = [written EXCEPT ![c] = Append(@, message)]
    /\ stream' = [stream EXCEPT ![c] = @ \o <<message, NL>>]
    /\ UNCHANGED <<vars, conn, buffer, failing, origin, replies>>

(* An agent closes its end, or ends.                                       *)
AgentEnds(c) ==
    /\ conn[c] = "open"
    /\ conn' = [conn EXCEPT ![c] = "ended"]
    /\ UNCHANGED <<vars, written, stream, buffer, failing, origin, replies>>

-----------------------------------------------------------------------------
(* The server.                                                             *)

HasLine(text) == Contains(text, NL)

(* indexOf("\n"): where the first newline is.                             *)
LineEnd(text) == SelectInSeq(text, LAMBDA s : s = NL)

FirstLine(text) == SubSeq(text, 1, LineEnd(text) - 1)

AllLines(text) == text    \* mutant
AfterFirstLine(text) == SubSeq(text, LineEnd(text) + 1, Len(text))

ChunkAlone(text, chunk) == chunk    \* mutant
Gathered(text, chunk) == text \o chunk

(* The while loop of the data handler is synchronous: nothing else of the  *)
(* daemon runs until every line of the chunk is handled.                   *)
LoopDone == \A c \in Conns : ~ HasLine(buffer[c])

(* A rejection that nobody handles ends the process before the next        *)
(* callback.                                                               *)
CallbackMayRun == daemon # "down" /\ ~ failing /\ EventLoopFree /\ LoopDone

(* A data event, with any part of what was written.                        *)
Deliver(c) ==
    /\ CallbackMayRun
    /\ conn[c] \in InUse
    /\ \E n \in 1..Len(stream[c]) :
          /\ buffer' = [buffer EXCEPT ![c] = Gathered(@, SubSeq(stream[c], 1, n))]
          /\ stream' = [stream EXCEPT ![c] = SubSeq(@, n + 1, Len(@))]
    /\ UNCHANGED <<vars, conn, written, failing, origin, replies>>

(***************************************************************************)
(* The answers of the requests that a step finishes go to the connections  *)
(* their lines came on, or nowhere when those are closed.                  *)
(***************************************************************************)
NowAnswered == {r \in Requests : job'[r].pc = "answered" /\ job[r].pc # "answered"}

RepliesOn(c) ==
    {r \in NowAnswered : origin'[r].conn = c /\ conn[c] \in InUse}

Respond ==
    replies' = [c \in Conns |->
                  replies[c] \o SetToSeq({[text |-> origin'[r].text,
                                           outcome |-> job'[r].outcome] : r \in RepliesOn(c)})]

RefuseLineSilently(r) ==    \* mutant
    /\ job' = [job EXCEPT ![r].pc = "answered"]
    /\ UNCHANGED <<ledgerVars, pathVars>>

(* handle, up to pay: a line that is not JSON or lacks a field is refused. *)
RefuseLine(r) ==
    /\ job' = [job EXCEPT ![r].pc = "answered", ![r].outcome = "refused"]
    /\ UNCHANGED <<ledgerVars, pathVars>>

(* A line that is null is JSON: reading its version throws, outside any    *)
(* try, and what handle returns is rejected.  There is no answer.          *)
FailLine(r) ==
    /\ job' = [job EXCEPT ![r].pc = "dropped"]
    /\ UNCHANGED <<ledgerVars, pathVars>>

ReadableIn(text) == IF Len(text) = 1 /\ Head(text) \in Messages THEN ClaimIn[Head(text)] ELSE None

(* One turn of the loop: a line is cut from the buffer and handled.        *)
HandleLine(c) ==
    /\ HasLine(buffer[c])
    /\ \E r \in Requests :
          LET text == FirstLine(buffer[c])
              claim == ReadableIn(text)
          IN  /\ job[r].pc = "idle"
              /\ \A earlier \in 1..(r - 1) : job[earlier].pc # "idle"
              /\ origin' = [origin EXCEPT ![r] = [conn |-> c, text |-> text]]
              /\ \/ claim = JsonNull /\ FailLine(r) /\ failing' = TRUE
                 \/ claim = None /\ RefuseLine(r) /\ UNCHANGED failing
                 \/ claim \notin {None, JsonNull} /\ Receive(r, claim) /\ UNCHANGED failing
    /\ buffer' = [buffer EXCEPT ![c] = AfterFirstLine(@)]
    /\ Respond
    /\ UNCHANGED <<conn, written, stream>>

(* The end of the agent's side is read: sockets of this server do not stay *)
(* half open, so the server's side ends as well.                           *)
ReadEnd(c) ==
    /\ CallbackMayRun
    /\ conn[c] = "ended"
    /\ stream[c] = <<>>
    /\ conn' = [conn EXCEPT ![c] = "closed"]
    /\ buffer' = [buffer EXCEPT ![c] = <<>>]
    /\ UNCHANGED <<vars, written, stream, failing, origin, replies>>

(* The error event: the socket is destroyed, with what was not read.       *)
Break(c) ==
    /\ CallbackMayRun
    /\ conn[c] \in InUse
    /\ conn' = [conn EXCEPT ![c] = "closed"]
    /\ stream' = [stream EXCEPT ![c] = <<>>]
    /\ buffer' = [buffer EXCEPT ![c] = <<>>]
    /\ UNCHANGED <<vars, written, failing, origin, replies>>

AdvanceAndRespond(r) ==
    /\ LoopDone
    /\ ~ failing
    /\ Advance(r)
    /\ UNCHANGED <<conn, written, stream, buffer, failing, origin>>
    /\ Respond

-----------------------------------------------------------------------------
(* The process.                                                            *)

(* The signal handler: the wallet is locked and server.close is called.    *)
Terminate == LoopDone /\ ~ failing /\ Shutdown /\ UNCHANGED socketVars

(* The callback of server.close runs when no connection is left.           *)
NoConnectionLeft == \A c \in Conns : conn[c] \notin InUse

EndOfProcess(last) ==
    /\ Stop
    /\ conn' = [c \in Conns |-> IF conn[c] \in InUse THEN last ELSE conn[c]]
    /\ stream' = [c \in Conns |-> <<>>]
    /\ buffer' = [c \in Conns |-> <<>>]
    /\ failing' = FALSE
    /\ UNCHANGED <<written, origin, replies>>

Exit ==
    /\ daemon = "closing"
    /\ CallbackMayRun
    /\ NoConnectionLeft
    /\ EndOfProcess("severed")

Crash == EndOfProcess("lost")

(* Node ends a process over a rejection that nobody handles, once the      *)
(* handler that caused it is through.                                      *)
UnhandledRejection == failing /\ LoopDone /\ EndOfProcess("lost")

Restart == Start /\ UNCHANGED socketVars

(* The operator, the sellers and the clock, as in Daemon.                  *)
Outside ==
    /\ \/ SetAllowance
       \/ \E agent \in Agents : Revoke(agent)
       \/ \E r \in Requests : SellerSettles(r)
       \/ TimePasses
    /\ UNCHANGED socketVars

-----------------------------------------------------------------------------
SocketsInit ==
    /\ Init
    /\ conn = [c \in Conns |-> "none"]
    /\ written = [c \in Conns |-> <<>>]
    /\ stream = [c \in Conns |-> <<>>]
    /\ buffer = [c \in Conns |-> <<>>]
    /\ failing = FALSE
    /\ origin = [r \in Requests |-> None]
    /\ replies = [c \in Conns |-> <<>>]

ServerStep(c) == Deliver(c) \/ HandleLine(c) \/ ReadEnd(c)

SocketsNext ==
    \/ \E c \in Conns :
          \/ Connect(c)
          \/ \E message \in Messages : Write(c, message)
          \/ AgentEnds(c)
          \/ ServerStep(c)
          \/ Break(c)
    \/ \E r \in Requests : AdvanceAndRespond(r)
    \/ Terminate
    \/ Exit
    \/ Crash
    \/ UnhandledRejection
    \/ Restart
    \/ Outside

(* The event loop reads what has arrived and runs what is ready, but for   *)
(* the bodies of sellers (see FairSpec).                                   *)
SocketsSpec ==
    /\ SocketsInit
    /\ [][SocketsNext]_allVars
    /\ \A c \in Conns : WF_allVars(ServerStep(c))
    /\ \A r \in Requests : WF_allVars(~ AwaitsBody(r) /\ AdvanceAndRespond(r))
    /\ WF_allVars(UnhandledRejection)

-----------------------------------------------------------------------------
(* Properties.                                                             *)

(***************************************************************************)
(* server.ts: a request is answered "on the same connection".  However     *)
(* the bytes were cut into chunks and whatever finished first, a message   *)
(* is handled at most once, and the answer that is written for it is the   *)
(* one its own request ended with, once, where it was written.             *)
(***************************************************************************)
AnsweredOnceWhereAsked ==
    /\ \A r \in Requests :
          origin[r] # None =>
              /\ \E k \in DOMAIN written[origin[r].conn] :
                    origin[r].text = <<written[origin[r].conn][k]>>
              /\ \A other \in Requests \ {r} : origin[other] # origin[r]
              /\ job[r].pc = "answered" /\ conn[origin[r].conn] = "open" =>
                    [text |-> origin[r].text, outcome |-> job[r].outcome]
                        \in ToSet(replies[origin[r].conn])
    /\ \A c \in Conns :
          Len(replies[c]) <= Cardinality({r \in Requests :
                                /\ origin[r] # None
                                /\ origin[r].conn = c
                                /\ job[r].pc = "answered"})

(***************************************************************************)
(* Every message that is written is answered where it was written, unless  *)
(* its agent ends the connection or the process crashes (a line that is    *)
(* null makes it: MalformedLinesAreRefused), whatever else is on the       *)
(* connection and however its bytes arrive; or a body that its request     *)
(* waits for never ends.  A signal is no excuse: the process exits in the  *)
(* callback of close (cli.ts), which waits for the connections.            *)
(***************************************************************************)
RepliedTo(c, message) == \E reply \in ToSet(replies[c]) : reply.text = <<message>>

AskedBy(r, c, message) == origin[r] = [conn |-> c, text |-> <<message>>]

EveryLineAnswered ==
    \A c \in Conns, message \in Messages :
        message \in ToSet(written[c]) ~>
            \/ RepliedTo(c, message)
            \/ conn[c] \in {"closed", "lost"}
            \/ \E r \in Requests : [] (AskedBy(r, c, message) /\ AwaitsBody(r))

(***************************************************************************)
(* server.test.ts: the server "rejects a malformed request without         *)
(* crashing".  A line that holds no request is answered with a refusal.    *)
(***************************************************************************)
MalformedLinesAreRefused ==
    \A r \in Requests :
        origin[r] # None /\ ReadableIn(origin[r].text) \notin Claims =>
            job[r].pc = "answered" /\ job[r].outcome = "refused"

=============================================================================
