----------------------------- MODULE RemoteAccess -----------------------------
(***************************************************************************)
(* Remote access to the nodes of an environment: the SSH server of nclet,  *)
(* the session of each connection and the access-helper that it runs.      *)
(***************************************************************************)
EXTENDS SSHSession

vars == <<serverVars, user, helper, session>>

Nobody == [admin |-> FALSE, node |-> NoNode]

Init ==
    /\ ServerInit
    /\ user = [c \in Conns |-> Nobody]
    /\ helper = [c \in Conns |-> NotStarted]
    /\ session = [c \in Conns |-> NoSession]

\* nclet is killed and started again: the key file is all that is left.  A helper
\* loses its terminal, and the clients their streams.
Crash ==
    /\ "crash" \in Events
    /\ UNCHANGED keyFile
    /\ serve' = "down"
    /\ stage' = [c \in Conns |-> "absent"] /\ stream' = [c \in Conns |-> "none"]
    /\ ctxDone' = {}
    /\ user' = [c \in Conns |-> Nobody]
    /\ helper' = [c \in Conns |-> NotStarted]
    /\ session' = [c \in Conns |-> NoSession]

Next ==
    \/ StartStep /\ UNCHANGED <<user, helper, session>>
    \/ Crash
    \/ \E c \in Conns :
          \/ Connect(c) /\ UNCHANGED session
          \/ (Authenticate(c) \/ HandshakeFails(c)) /\ UNCHANGED <<user, helper, session>>
          \/ SessionStep(c)
          \/ HelperStep(c) /\ UNCHANGED <<serverVars, session>>

Spec == Init /\ [][Next]_vars

(***************************************************************************)
(* Goroutines run, and nothing else is promised: not that a client or a    *)
(* node does anything, except that a client answers the close of its       *)
(* session, as the protocol demands.  The idle timeout makes a read of a   *)
(* lost stream fail, as long as packets are taken from it; a copy may wait *)
(* for its client until the channel is closed.                             *)
(***************************************************************************)
ConnFairness(c) ==
    /\ WF_vars(ChannelsEnd(c))
    /\ WF_vars(MuxStep(c))
    /\ WF_vars(stream[c] = "lost" /\ ~Blocked(c) /\ StreamFails(c))
    /\ WF_vars(LoopStep(c))
    /\ WF_vars(HandlerStep(c))
    /\ WF_vars(KillCommand(c))
    /\ WF_vars(session[c].channel = "closed" /\ CopyStep(c))
    /\ WF_vars(session[c].closeSent /\ HangUp(c))
    /\ WF_vars(MainProceeds(c) /\ UNCHANGED <<serverVars, session>>)
    /\ WF_vars(ClonerProceeds(c) /\ UNCHANGED <<serverVars, session>>)

FairSpec == Spec /\ \A c \in Conns : ConnFairness(c)

-----------------------------------------------------------------------------
\* The state variables keep their types, and the buffers of a session their bounds.
TypeOK ==
    /\ ServerTypeOK
    /\ user \in [Conns -> User]
    /\ helper \in [Conns -> Helper]
    /\ session \in [Conns -> Session]
    /\ \A c \in Conns :
          /\ Len(session[c].inFlight) <= MaxInFlight
          /\ Len(session[c].requests) <= RequestBuffer

\* While access-helper asks for a node, the terminal is in its normal mode and no
\* cloner of an earlier access is left to read what is typed at the menu: the deferred
\* functions of _access wait for the cloner before they restore the terminal.
MenuOwnsTerminal ==
    \A c \in Conns : helper[c].main = "ask" =>
        ~helper[c].raw /\ helper[c].cloner \in {"none", "done"}

\* The cloner of access-helper reads the terminal only while an access over SSH has it in
\* raw mode, where a read returns soon: _access does not restore the terminal, by any of
\* its returns, before the cloner has ended.
ClonerReadsRaw ==
    \A c \in Conns : helper[c].cloner \in {"check", "read", "write"} =>
        helper[c].raw /\ helper[c].main \in {"shell", "wait", "drain"}

\* handle leaves nothing behind: a command runs only while handle waits for it, and the
\* two copies only until handle returns.  A command whose connection is gone is one
\* that the context kills, although buffered requests are still handled after that.
NoOrphanCommand ==
    \A c \in Conns :
        /\ Running(c) => session[c].handler = "wait" /\ stage[c] \in {"serving", "gone"}
        /\ Running(c) /\ stage[c] = "gone" => c \in ctxDone
        /\ "running" \in {session[c].copyIn, session[c].copyOut} =>
              session[c].handler \in {"wait", "copying"}

\* A connection gets stuck, with the request loop in sess.winch <- win and the mux before
\* a full buffer, only after many requests: those that fill the buffer, the one that the
\* mux holds, pty-req, window-change and, if a command was started, the one that did it.
\* Clients that make fewer do not meet what the run "resize" shows.
StuckTakesRequests ==
    \A c \in Conns :
        Blocked(c) /\ session[c].loop = "sending" =>
            /\ session[c].asked >= RequestBuffer + 3
            /\ session[c].handler # "none" => session[c].asked >= RequestBuffer + 4

\* A node labelled adminOnly is accessed by administrators only, whether it was chosen
\* from the menu or came with the user name through nclet's handle.
AdminOnlyKept ==
    \A c \in Conns :
        helper[c].main \in {"raw", "shell", "wait", "drain", "exec"} =>
            (helper[c].node \in AdminOnly => user[c].admin)

\* Once there is a host key, clients see the same one for ever: no start of nclet
\* replaces it, wherever the earlier ones were cut off.
HostKeyKept == [][(keyFile \in HostKeys) => (keyFile' = keyFile)]_vars

\* Case 2 of handle: when the stream of a connection has ended, by the client or the
\* idle timer, the command that runs for it ends.
StreamEndEndsCommand ==
    \A c \in Conns :
        Running(c) /\ stream[c] # "open" ~> ~Running(c)

\* Case 1 of handle: when the command has finished, the session is closed and its
\* handler returns; nothing waits for the user.
CommandEndEndsSession ==
    \A c \in Conns :
        session[c].handler \in {"wait", "copying"} /\ helper[c].main = "exited"
            ~> session[c].handler \notin {"wait", "copying"}

\* When a node has closed its session, access-helper comes back from it: the cloner
\* does not keep it waiting until the next key is pressed.
NodeExitReturnsToMenu ==
    \A c \in Conns :
        helper[c].main = "wait" /\ helper[c].link = "closed"
            ~> helper[c].main \notin {"wait", "drain"}
=============================================================================
