------------------------------ MODULE SSHSession ------------------------------
(***************************************************************************)
(* One session of an SSH connection: the request loop of the library in    *)
(* internal/ssh, and nclet's handler, which runs access-helper in a pseudo *)
(* terminal and copies between the two.                                    *)
(*                                                                         *)
(* x/crypto/ssh is not part of this repository.  What the code relies on:  *)
(* one goroutine, the mux, reads the packets of a connection in order.  It *)
(* hands the requests of a channel over through a buffer and reads nothing *)
(* else while that buffer is full.  When the stream ends, or the client    *)
(* closes the channel, the channel's reader gets EOF and the buffer of     *)
(* requests is closed.  A client opens at most one session here.           *)
(***************************************************************************)
EXTENDS Naturals, Sequences, Functions, SSHServer

CONSTANTS
    RequestBuffer,   \* the capacity of the request buffer of a channel
    MaxRequests,     \* bound: requests that a client makes
    MaxInFlight      \* bound: packets on their way to nclet

ASSUME BuffersAssumption ==
    RequestBuffer \in Nat \ {0} /\ MaxRequests \in Nat /\ MaxInFlight \in Nat

VARIABLE
    session          \* the session of each connection

\* "exec" comes with a command.  The other requests (env, subsystem, signal, break) change
\* nothing that nclet's handler looks at, as a second pty-req does.
Requests == {"pty-req", "shell", "exec", "window-change"}

Session ==
    [inFlight  : Seq(Requests \cup {"open", "close"}),  \* from the client to the mux
     asked     : 0..MaxRequests,
     mux       : {"running", "ended"},
     channel   : {"none", "open", "closed"},        \* "closed": EOF has been delivered
     closeSent : BOOLEAN,                           \* nclet has closed the channel
     requests  : Seq(Requests),                     \* the buffer of requests
     loop      : {"none", "ready", "sending", "done"},  \* handleRequests
     pty       : BOOLEAN,
     handler   : {"none", "shell", "exec", "wait", "copying", "done"},
     copyIn    : {"none", "running", "done"},       \* io.Copy(ptmx, s)
     copyOut   : {"none", "running", "done"}]       \* io.Copy(s, ptmx)

NoSession ==
    [inFlight |-> <<>>, asked |-> 0, mux |-> "running", channel |-> "none",
     closeSent |-> FALSE, requests |-> <<>>, loop |-> "none", pty |-> FALSE,
     handler |-> "none", copyIn |-> "none", copyOut |-> "none"]

SetSession(c, s) == session' = [session EXCEPT ![c] = s]

\* A step within the session, which leaves the server and access-helper alone.
Within(c, s) == SetSession(c, s) /\ UNCHANGED <<serverVars, user, helper>>

-----------------------------------------------------------------------------
(***************************************************************************)
(* The client.                                                             *)
(***************************************************************************)
Sends(c, packet) == Append(session[c].inFlight, packet)

CanSend(c) ==
    /\ stage[c] = "serving" /\ stream[c] = "open"
    /\ session[c].channel # "closed" /\ "close" \notin Range(session[c].inFlight)
    /\ Len(session[c].inFlight) < MaxInFlight

OpenSession(c) ==
    /\ CanSend(c)
    /\ session[c] = NoSession
    /\ Within(c, [session[c] EXCEPT !.inFlight = Sends(c, "open")])

MakeRequest(c) ==
    /\ CanSend(c)
    /\ session[c] # NoSession
    /\ session[c].asked < MaxRequests
    /\ \E r \in Requests :
           Within(c, [session[c] EXCEPT !.inFlight = Sends(c, r), !.asked = @ + 1])

\* The client closes the channel, of its own accord or because nclet has.
HangUp(c) ==
    /\ CanSend(c)
    /\ session[c].channel = "open"
    /\ Within(c, [session[c] EXCEPT !.inFlight = Sends(c, "close")])

\* The client closes the stream ("eof"), or nothing more is heard of it ("lost"),
\* so that reads end with the idle timeout.
Disconnect(c) ==
    /\ stage[c] # "absent" /\ stream[c] = "open"
    /\ \E end \in {"eof", "lost"} : stream' = [stream EXCEPT ![c] = end]
    /\ UNCHANGED <<keyFile, serve, stage, ctxDone, user, helper, session>>

-----------------------------------------------------------------------------
(***************************************************************************)
(* The mux.                                                                *)
(***************************************************************************)

\* The mux holds a request that does not fit into the buffer.
Blocked(c) ==
    /\ session[c].inFlight # <<>> /\ Head(session[c].inFlight) \in Requests
    /\ session[c].channel = "open" /\ Len(session[c].requests) = RequestBuffer

\* HandleConn hands a new channel to DefaultSessionHandler; a request goes into the
\* buffer; the close of the client is answered.
MuxReads(c) ==
    LET s == session[c]
        packet == Head(s.inFlight)
        read == [s EXCEPT !.inFlight = Tail(@)]
    IN  /\ stage[c] = "serving"
        /\ s.mux = "running" /\ s.inFlight # <<>> /\ ~Blocked(c)
        /\ Within(c, CASE packet = "open" -> [read EXCEPT !.channel = "open", !.loop = "ready"]
                       [] packet = "close" -> [read EXCEPT !.channel = "closed", !.closeSent = TRUE]
                       [] OTHER -> [read EXCEPT !.requests = Append(@, packet)])

\* A read or a write of the stream fails with a net.Error, which cancels the context:
\* serverConn.Read and serverConn.Write.  EOF is no net.Error, but a write to a stream
\* that the client has closed may be answered with one.
StreamFails(c) ==
    /\ stage[c] = "serving" /\ stream[c] \in {"eof", "lost"}
    /\ c \notin ctxDone
    /\ ctxDone' = ctxDone \cup {c}
    /\ UNCHANGED <<keyFile, serve, stage, stream, user, helper, session>>

\* The mux finds the stream at its end, once it has read everything before that.
MuxEnds(c) ==
    /\ stage[c] = "serving" /\ session[c].mux = "running" /\ session[c].inFlight = <<>>
    /\ stream[c] = "eof" \/ (stream[c] = "lost" /\ c \in ctxDone)
    /\ Within(c, [session[c] EXCEPT !.mux = "ended", !.channel = "closed"])

\* The range over the channels of the connection ends, and with it HandleConn.
ChannelsEnd(c) ==
    /\ session[c].mux = "ended"
    /\ HandleConnReturns(c)
    /\ UNCHANGED <<user, helper, session>>

-----------------------------------------------------------------------------
(***************************************************************************)
(* handleRequests, the request loop.                                       *)
(***************************************************************************)

\* Mutant of Handle: the first request of any type starts the handler.
HandleFirst(s, r) ==
    IF s.handler = "none" THEN [s EXCEPT !.handler = r] ELSE s

\* Mutant of Handle: a window is sent whether or not a terminal was asked for.
HandleWithoutPty(s, r) ==
    CASE r \in {"shell", "exec"} /\ s.handler = "none" -> [s EXCEPT !.handler = r]
      [] r = "pty-req" /\ s.handler = "none" /\ ~s.pty -> [s EXCEPT !.pty = TRUE]
      [] r = "window-change" -> [s EXCEPT !.loop = "sending"]
      [] OTHER -> s

\* What a request makes of the session.
Handle(s, r) ==
    CASE r \in {"shell", "exec"} /\ s.handler = "none" -> [s EXCEPT !.handler = r]
      [] r = "pty-req" /\ s.handler = "none" /\ ~s.pty -> [s EXCEPT !.pty = TRUE]
      [] r = "window-change" /\ s.pty -> [s EXCEPT !.loop = "sending"]
      [] OTHER -> s

\* After "window-change" the loop is in sess.winch <- win.  The channel has room for one
\* window, pty-req has put one there, and nclet never takes it: the send does not return.
HandleRequest(c) ==
    LET s == session[c]
    IN  /\ s.loop = "ready" /\ s.requests # <<>>
        /\ Within(c, Handle([s EXCEPT !.requests = Tail(@)], Head(s.requests)))

\* The buffer is closed and empty.
LoopEnds(c) ==
    /\ session[c].loop = "ready" /\ session[c].requests = <<>>
    /\ session[c].channel = "closed"
    /\ Within(c, [session[c] EXCEPT !.loop = "done"])

-----------------------------------------------------------------------------
(***************************************************************************)
(* nclet's handler.                                                        *)
(***************************************************************************)

\* handle up to cmd.Wait.  A command is refused, and pty.Start fails when the context is
\* already cancelled, or for reasons of its own; the handler then closes the session.
StartCommand(c) ==
    /\ session[c].handler \in {"shell", "exec"}
    /\ \/ /\ session[c].handler = "shell" /\ c \notin ctxDone
          /\ SetSession(c, [session[c] EXCEPT !.handler = "wait", !.copyIn = "running",
                                              !.copyOut = "running"])
          /\ helper' = [helper EXCEPT ![c] = Launched(user[c])]
          /\ UNCHANGED <<serverVars, user>>
       \/ Within(c, [session[c] EXCEPT !.handler = "done", !.closeSent = TRUE])

\* exec.CommandContext kills the command when the context is cancelled.
KillCommand(c) ==
    /\ c \in ctxDone /\ Running(c)
    /\ Becomes(c, Exited)
    /\ UNCHANGED <<serverVars, session>>

\* Mutant of CommandWaited: the handler waits for the copies with the session still open.
CommandWaitedOnly(c) ==
    /\ session[c].handler = "wait" /\ helper[c].main = "exited"
    /\ Within(c, [session[c] EXCEPT !.handler = "copying"])

\* cmd.Wait returns, and the session is closed.
CommandWaited(c) ==
    /\ session[c].handler = "wait" /\ helper[c].main = "exited"
    /\ Within(c, [session[c] EXCEPT !.handler = "copying", !.closeSent = TRUE])

\* io.Copy(ptmx, s) ends with EOF from the session, or when a write to the terminal of
\* a command that has ended fails ...
CopyInEnds(c) ==
    /\ session[c].copyIn = "running"
    /\ session[c].channel = "closed" \/ helper[c].main = "exited"
    /\ Within(c, [session[c] EXCEPT !.copyIn = "done"])

\* ... and io.Copy(s, ptmx) when the command has ended, or a write to the session fails.
CopyOutEnds(c) ==
    /\ session[c].copyOut = "running"
    /\ session[c].channel = "closed" \/ helper[c].main = "exited"
    /\ Within(c, [session[c] EXCEPT !.copyOut = "done"])

\* wg.Wait returns, ptmx is closed, the session is counted out and Exit(0) finds the
\* channel closed.
HandlerReturns(c) ==
    /\ session[c].handler = "copying"
    /\ session[c].copyIn = "done" /\ session[c].copyOut = "done"
    /\ Within(c, [session[c] EXCEPT !.handler = "done"])

-----------------------------------------------------------------------------
ClientStep(c) == OpenSession(c) \/ MakeRequest(c) \/ HangUp(c) \/ Disconnect(c)
MuxStep(c) == MuxReads(c) \/ MuxEnds(c)
LoopStep(c) == HandleRequest(c) \/ LoopEnds(c)
HandlerStep(c) == StartCommand(c) \/ CommandWaited(c) \/ HandlerReturns(c)
CopyStep(c) == CopyInEnds(c) \/ CopyOutEnds(c)

SessionStep(c) ==
    \/ ClientStep(c) \/ StreamFails(c) \/ MuxStep(c) \/ ChannelsEnd(c) \/ LoopStep(c)
    \/ HandlerStep(c) \/ KillCommand(c) \/ CopyStep(c)
=============================================================================
