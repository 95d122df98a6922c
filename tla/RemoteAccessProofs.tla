-------------------------- MODULE RemoteAccessProofs --------------------------
(***************************************************************************)
(* Theorems about RemoteAccess, for every set of connections, nodes and    *)
(* users, and for every capacity of the buffers.                           *)
(***************************************************************************)
EXTENDS RemoteAccess, SequenceTheorems, TLAPS

USE DEF User, Helper

(***************************************************************************)
(* What a helper looks like between the steps of its goroutines.           *)
(***************************************************************************)

\* Outside an access over SSH the terminal is in its normal mode, and there is neither a
\* cloner nor a link; during one it is in raw mode.  What is being accessed may be accessed
\* by the user.
HelperOK(h, u) ==
    /\ h \in Helper
    /\ h.main \in {"none", "ask", "access", "exec", "exited"} =>
          ~h.raw /\ h.cloner = "none" /\ h.link = "none"
    /\ h.main \in {"raw", "shell", "wait", "drain"} => h.raw
    /\ h.main = "raw" => h.cloner = "none"
    /\ h.main \in {"raw", "shell", "wait", "drain", "exec"} => (h.node \in AdminOnly => u.admin)

\* Nothing has happened yet on a connection that is not there: the user name that it
\* brings is not the name of anyone whose helper already runs.
RemoteInv ==
    /\ user \in [Conns -> User]
    /\ helper \in [Conns -> Helper]
    /\ session = [c \in Conns |-> session[c]]
    /\ stage = [c \in Conns |-> stage[c]]
    /\ \A c \in Conns : HelperOK(helper[c], user[c])
    /\ \A c \in Conns : stage[c] = "absent" => helper[c] = NotStarted /\ session[c] = NoSession

\* A process that has not started, one that has ended, and one that has just started
\* look like that.
LEMMA NewHelperOK ==
    ASSUME NEW u \in User
    PROVE  HelperOK(NotStarted, u) /\ HelperOK(Exited, u) /\ HelperOK(Launched(u), u)
BY DEF HelperOK, NotStarted, Exited, Launched

\* A step of a helper keeps it that way.
LEMMA HelperStepOK ==
    ASSUME RemoteInv, NEW c \in Conns, HelperStep(c)
    PROVE  /\ helper' \in [Conns -> Helper] /\ user' = user
           /\ HelperOK(helper'[c], user[c])
           /\ \A d \in Conns \ {c} : helper'[d] = helper[d]
           /\ Running(c)
<1> DEFINE u == user[c]
           h == helper[c]
<1>1. u \in User /\ HelperOK(h, u) /\ helper \in [Conns -> Helper]
    BY DEF RemoteInv
<1>2. \A g : Becomes(c, g) => user' = user /\ helper' = [helper EXCEPT ![c] = g]
    BY DEF Becomes
<1>3. \A g \in Helper : HelperOK(g, u) /\ Running(c) /\ Becomes(c, g) =>
          /\ helper' \in [Conns -> Helper] /\ user' = user
          /\ HelperOK(helper'[c], user[c])
          /\ \A d \in Conns \ {c} : helper'[d] = helper[d]
          /\ Running(c)
    BY <1>1, <1>2
<1>4. Running(c)
    <2> USE DEF Running
    <2>1. h.main \in {"none", "exited"} => h.link = "none" /\ h.cloner = "none"
        BY <1>1 DEF HelperOK
    <2>2. Launched(u).main \notin {"none", "exited"}
        BY <1>1 DEF Launched, NotStarted
    <2>3. CASE ClonerProceeds(c)
        BY <2>1, <2>3 DEF ClonerProceeds, ClonerChecks, ClonerReads, ClonerWrites
    <2>4. CASE GiveUp(c)
        BY <2>1, <2>2, <2>4 DEF GiveUp
    <2>5. CASE ~ClonerProceeds(c) /\ ~GiveUp(c)
        BY <2>1, <2>5 DEF HelperStep, MainProceeds, AskUserForNode, AccessNode, SSHAccess, ExecEnds,
           LinkCloses, RequestPty, Shell, WaitReturns, Drained
    <2> QED
        BY <2>3, <2>4, <2>5
<1>5. HelperOK(Exited, u) /\ HelperOK(Launched(u), u) /\ Exited \in Helper /\ Launched(u) \in Helper
    BY <1>1, NewHelperOK DEF HelperOK
<1>6. ASSUME Back(c) PROVE \E g \in Helper : HelperOK(g, u) /\ Becomes(c, g)
    BY <1>5, <1>6 DEF Back
<1>7. \E g \in Helper : HelperOK(g, u) /\ Becomes(c, g)
    <2>1. CASE GiveUp(c)
        BY <2>1, <1>5 DEF GiveUp
    <2>2. CASE AskUserForNode(c)
        <3>1. CASE Becomes(c, Exited)
            BY <3>1, <1>5
        <3>2. ASSUME NEW n \in Nodes, Becomes(c, [h EXCEPT !.main = "access", !.node = n])
              PROVE  \E g \in Helper : HelperOK(g, u) /\ Becomes(c, g)
            <4>1. h.main = "ask"
                BY <2>2 DEF AskUserForNode
            <4>2. HelperOK([h EXCEPT !.main = "access", !.node = n], u)
                BY <4>1, <1>1 DEF HelperOK
            <4> QED
                BY <4>2, <3>2 DEF HelperOK
        <3> QED
            BY <2>2, <3>1, <3>2 DEF AskUserForNode
    <2>3. CASE AccessNode(c)
        <3>1. h.main = "access"
            BY <2>3 DEF AccessNode, SSHAccess
        <3>2. ASSUME Permitted(u, h.node)
              PROVE  /\ HelperOK([h EXCEPT !.main = "exec"], u)
                     /\ HelperOK([h EXCEPT !.main = "raw", !.raw = TRUE, !.link = "open"], u)
            BY <3>1, <3>2, <1>1 DEF HelperOK, Permitted
        <3> QED
            BY <2>3, <3>2, <1>6 DEF AccessNode, SSHAccess, HelperOK
    <2>4. CASE ExecEnds(c)
        BY <2>4, <1>6 DEF ExecEnds
    <2>5. CASE LinkCloses(c)
        <3>1. h.link = "open" => HelperOK([h EXCEPT !.link = "closed"], u)
            BY <1>1 DEF HelperOK
        <3> QED
            BY <2>5, <3>1 DEF LinkCloses, HelperOK
    <2>6. CASE RequestPty(c)
        <3>1. h.main = "raw" => HelperOK([h EXCEPT !.main = "shell", !.cloner = "check"], u)
            BY <1>1 DEF HelperOK
        <3> QED
            BY <2>6, <3>1, <1>6 DEF RequestPty, HelperOK
    <2>7. CASE Shell(c)
        <3>1. h.main = "shell" =>
                 /\ HelperOK([h EXCEPT !.main = "wait"], u)
                 /\ HelperOK([h EXCEPT !.main = "drain", !.closed = TRUE], u)
            BY <1>1 DEF HelperOK
        <3> QED
            BY <2>7, <3>1 DEF Shell, HelperOK
    <2>8. CASE WaitReturns(c)
        <3>1. h.main = "wait" => HelperOK([h EXCEPT !.main = "drain", !.closed = TRUE], u)
            BY <1>1 DEF HelperOK
        <3> QED
            BY <2>8, <3>1 DEF WaitReturns, HelperOK
    <2>9. CASE Drained(c)
        BY <2>9, <1>6 DEF Drained
    <2>10. CASE ClonerProceeds(c)
        <3>1. h.cloner # "none"
            BY <2>10 DEF ClonerProceeds, ClonerChecks, ClonerReads, ClonerWrites
        <3>2. \A next \in {"check", "read", "write", "done"} :
                 HelperOK([h EXCEPT !.cloner = next], u)
            BY <3>1, <1>1 DEF HelperOK
        <3>3. PICK next \in {"check", "read", "write", "done"} :
                 Becomes(c, [h EXCEPT !.cloner = next])
            BY <2>10 DEF ClonerProceeds, ClonerChecks, ClonerReads, ClonerWrites
        <3> QED
            BY <3>2, <3>3 DEF HelperOK
    <2> QED
        BY <2>1, <2>2, <2>3, <2>4, <2>5, <2>6, <2>7, <2>8, <2>9, <2>10
           DEF HelperStep, MainProceeds
<1> QED
    BY <1>3, <1>4, <1>7

-----------------------------------------------------------------------------
(***************************************************************************)
(* The steps of a session.                                                 *)
(***************************************************************************)

\* What a step of connection c may do: it is there and stays there, and neither its
\* user nor the other connections change.
StepOf(c) ==
    /\ stage[c] # "absent" /\ stage'[c] # "absent"
    /\ UNCHANGED <<user, keyFile, serve>>
    /\ helper' \in [Conns -> Helper]
    /\ session' = [d \in Conns |-> session'[d]]
    /\ stage' = [d \in Conns |-> stage'[d]]
    /\ HelperOK(helper'[c], user[c])
    /\ \A d \in Conns \ {c} :
          helper'[d] = helper[d] /\ session'[d] = session[d] /\ stage'[d] = stage[d]

\* A step within the session of a connection that is there is one.
LEMMA WithinIsStep ==
    ASSUME RemoteInv, NEW c \in Conns, NEW s, Within(c, s), session[c] # NoSession \/ stage[c] # "absent"
    PROVE  StepOf(c)
<1>1. session' = [session EXCEPT ![c] = s] /\ UNCHANGED <<user, helper, keyFile, serve, stage>>
    BY DEF Within, SetSession, serverVars, connVars
<1>2. stage[c] # "absent"
    BY DEF RemoteInv
<1>3. /\ session' = [d \in Conns |-> session'[d]]
      /\ \A d \in Conns \ {c} : session'[d] = session[d]
    BY <1>1 DEF RemoteInv
<1> QED
    BY <1>1, <1>2, <1>3 DEF StepOf, RemoteInv

\* Every step of a session is one.
LEMMA SessionStepOK ==
    ASSUME RemoteInv, NEW c \in Conns, SessionStep(c)
    PROVE  StepOf(c)
<1> DEFINE s == session[c]
<1>1. /\ NoSession.channel = "none" /\ NoSession.loop = "none" /\ NoSession.handler = "none"
      /\ NoSession.copyIn = "none" /\ NoSession.copyOut = "none" /\ NoSession.mux = "running"
    BY DEF NoSession
<1>2. user[c] \in User /\ HelperOK(helper[c], user[c]) /\ helper \in [Conns -> Helper]
    BY DEF RemoteInv
<1>3. CASE OpenSession(c) \/ MakeRequest(c) \/ HangUp(c)
    <2>1. stage[c] # "absent" /\ \E t : Within(c, t)
        BY <1>3 DEF OpenSession, MakeRequest, HangUp, CanSend
    <2> QED
        BY <2>1, WithinIsStep
<1>4. CASE Disconnect(c)
    BY <1>2, <1>4 DEF Disconnect, StepOf, RemoteInv
<1>5. CASE StreamFails(c)
    BY <1>2, <1>5 DEF StreamFails, StepOf, RemoteInv
<1>6. CASE MuxReads(c)
    <2>1. stage[c] # "absent" /\ \E t : Within(c, t)
        BY <1>6 DEF MuxReads
    <2> QED
        BY <2>1, WithinIsStep
<1>7. CASE MuxEnds(c)
    <2>1. stage[c] # "absent" /\ \E t : Within(c, t)
        BY <1>7 DEF MuxEnds
    <2> QED
        BY <2>1, WithinIsStep
<1>8. CASE ChannelsEnd(c)
    BY <1>2, <1>8 DEF ChannelsEnd, HandleConnReturns, MoveTo, StepOf, RemoteInv
<1>9. CASE LoopStep(c)
    <2>1. s # NoSession /\ \E t : Within(c, t)
        BY <1>1, <1>9 DEF LoopStep, HandleRequest, LoopEnds
    <2> QED
        BY <2>1, WithinIsStep
<1>10. CASE StartCommand(c)
    <2>1. s # NoSession /\ stage[c] # "absent"
        BY <1>1, <1>10 DEF StartCommand, RemoteInv
    <2>2. CASE \E t : Within(c, t)
        BY <2>1, <2>2, WithinIsStep
    <2>3. ASSUME NEW t, SetSession(c, t), helper' = [helper EXCEPT ![c] = Launched(user[c])],
                 UNCHANGED <<serverVars, user>>
          PROVE  StepOf(c)
        <3>1. UNCHANGED <<user, keyFile, serve, stage>>
            BY <2>3 DEF serverVars, connVars
        <3>2. HelperOK(Launched(user[c]), user[c]) /\ Launched(user[c]) \in Helper
            BY <1>2, NewHelperOK DEF HelperOK
        <3>3. /\ helper' \in [Conns -> Helper] /\ helper'[c] = Launched(user[c])
              /\ \A d \in Conns \ {c} : helper'[d] = helper[d]
            BY <1>2, <2>3, <3>2
        <3>4. /\ session' = [d \in Conns |-> session'[d]]
              /\ \A d \in Conns \ {c} : session'[d] = session[d]
            BY <2>3 DEF SetSession, RemoteInv
        <3> QED
            BY <2>1, <3>1, <3>2, <3>3, <3>4 DEF StepOf, RemoteInv
    <2> QED
        BY <1>10, <2>2, <2>3 DEF StartCommand
<1>11. CASE CommandWaited(c) \/ HandlerReturns(c) \/ CopyStep(c)
    <2>1. s # NoSession /\ \E t : Within(c, t)
        BY <1>1, <1>11 DEF CommandWaited, HandlerReturns, CopyStep, CopyInEnds, CopyOutEnds
    <2> QED
        BY <2>1, WithinIsStep
<1>12. CASE KillCommand(c)
    <2>1. /\ helper' = [helper EXCEPT ![c] = Exited]
          /\ UNCHANGED <<user, session, keyFile, serve, stage>>
        BY <1>12 DEF KillCommand, Becomes, serverVars, connVars
    <2>2. HelperOK(Exited, user[c]) /\ Exited \in Helper
        BY <1>2, NewHelperOK DEF HelperOK
    <2>3. stage[c] # "absent"
        BY <1>12 DEF KillCommand, Running, RemoteInv, NotStarted
    <2>4. /\ helper' \in [Conns -> Helper] /\ helper'[c] = Exited
          /\ \A d \in Conns \ {c} : helper'[d] = helper[d]
        BY <1>2, <2>1, <2>2
    <2> QED
        BY <2>1, <2>2, <2>3, <2>4 DEF StepOf, RemoteInv
<1> QED
    BY <1>3, <1>4, <1>5, <1>6, <1>7, <1>8, <1>9, <1>10, <1>11, <1>12
       DEF SessionStep, ClientStep, MuxStep, HandlerStep

-----------------------------------------------------------------------------
(***************************************************************************)
(* The invariant, and what follows from it.                                *)
(***************************************************************************)

\* Such a step preserves the invariant.
LEMMA StepKeepsInv ==
    ASSUME RemoteInv, NEW c \in Conns, StepOf(c)
    PROVE  RemoteInv'
<1>1. \A d \in Conns : HelperOK(helper'[d], user'[d])
    BY DEF RemoteInv, StepOf
<1>2. \A d \in Conns : stage'[d] = "absent" => helper'[d] = NotStarted /\ session'[d] = NoSession
    BY DEF RemoteInv, StepOf
<1> QED
    BY <1>1, <1>2 DEF RemoteInv, StepOf, HelperOK

\* The invariant is inductive.
LEMMA RemoteInvInductive ==
    /\ Init => RemoteInv
    /\ RemoteInv /\ [Next]_vars => RemoteInv'
<1>1. Nobody \in User /\ HelperOK(NotStarted, Nobody) /\ NotStarted \in Helper
    <2>1. Nobody \in User
        BY DEF Nobody
    <2>2. HelperOK(NotStarted, Nobody)
        BY <2>1, NewHelperOK
    <2> QED
        BY <2>1, <2>2 DEF HelperOK
<1>2. Init => RemoteInv
    BY <1>1 DEF Init, ServerInit, RemoteInv
<1> SUFFICES ASSUME RemoteInv, [Next]_vars PROVE RemoteInv'
    BY <1>2
<1>3. CASE UNCHANGED vars
    BY <1>3 DEF vars, serverVars, connVars, RemoteInv, HelperOK
<1>4. CASE StartStep /\ UNCHANGED <<user, helper, session>>
    BY <1>4 DEF StartStep, EnsureRSAHostKey, EncodeHostKey, InjectHostKeys, Starting, connVars,
       RemoteInv, HelperOK
<1>5. CASE Crash
    BY <1>1, <1>5 DEF Crash, RemoteInv
<1>6. ASSUME NEW c \in Conns, Connect(c), UNCHANGED session PROVE RemoteInv'
    <2>1. PICK u \in User : user' = [user EXCEPT ![c] = u]
        BY <1>6, UsersAssumption DEF Connect
    <2>2. /\ helper' = helper /\ session' = session
          /\ stage[c] = "absent" /\ stage' = [stage EXCEPT ![c] = "handshake"]
        BY <1>6 DEF Connect, MoveTo
    <2>3. user' \in [Conns -> User] /\ user'[c] = u /\ \A d \in Conns \ {c} : user'[d] = user[d]
        BY <2>1 DEF RemoteInv
    <2>4. \A d \in Conns : HelperOK(helper'[d], user'[d])
        BY <2>2, <2>3, NewHelperOK DEF RemoteInv
    <2>5. /\ stage' = [d \in Conns |-> stage'[d]]
          /\ \A d \in Conns : stage'[d] = "absent" => stage[d] = "absent"
        BY <2>2 DEF RemoteInv
    <2>6. /\ helper' \in [Conns -> Helper]
          /\ session' = [d \in Conns |-> session'[d]]
          /\ \A d \in Conns : stage'[d] = "absent" => helper'[d] = NotStarted /\ session'[d] = NoSession
        BY <2>2, <2>5 DEF RemoteInv
    <2>7. (\A d \in Conns : HelperOK(helper[d], user[d]))'
        BY <2>4 DEF HelperOK
    <2> QED
        BY <2>3, <2>5, <2>6, <2>7 DEF RemoteInv
<1>7. ASSUME NEW c \in Conns, Authenticate(c) \/ HandshakeFails(c),
             UNCHANGED <<user, helper, session>>
      PROVE  RemoteInv'
    <2>1. StepOf(c)
        BY <1>7 DEF Authenticate, HandshakeFails, MoveTo, StepOf, RemoteInv
    <2> QED
        BY <2>1, StepKeepsInv
<1>8. ASSUME NEW c \in Conns, SessionStep(c) PROVE RemoteInv'
    BY <1>8, SessionStepOK, StepKeepsInv
<1>9. ASSUME NEW c \in Conns, HelperStep(c), UNCHANGED <<serverVars, session>> PROVE RemoteInv'
    <2>1. stage[c] # "absent"
        BY <1>9, HelperStepOK DEF RemoteInv, Running, NotStarted
    <2>2. StepOf(c)
        BY <1>9, <2>1, HelperStepOK DEF StepOf, RemoteInv, serverVars, connVars
    <2> QED
        BY <2>2, StepKeepsInv
<1> QED
    BY <1>3, <1>4, <1>5, <1>6, <1>7, <1>8, <1>9 DEF Next

\* The menu of access-helper has its terminal for itself, however accesses to nodes and
\* their cloners end before it comes back.
THEOREM MenuSafe == Spec => []MenuOwnsTerminal
<1>1. RemoteInv => MenuOwnsTerminal
    BY DEF RemoteInv, HelperOK, MenuOwnsTerminal
<1> QED
    BY <1>1, RemoteInvInductive, PTL DEF Spec

\* The cloner never waits for a terminal that is back in its normal mode.
THEOREM ClonerSafe == Spec => []ClonerReadsRaw
<1>1. RemoteInv => ClonerReadsRaw
    BY DEF RemoteInv, HelperOK, ClonerReadsRaw
<1> QED
    BY <1>1, RemoteInvInductive, PTL DEF Spec

\* No participant gets to a node for administrators, from the menu or by the user name.
THEOREM AdminOnlySafe == Spec => []AdminOnlyKept
<1>1. RemoteInv => AdminOnlyKept
    BY DEF RemoteInv, HelperOK, AdminOnlyKept
<1> QED
    BY <1>1, RemoteInvInductive, PTL DEF Spec

\* The file is empty while the key for it is made.
KeyInv == serve = "keygen" => keyFile = "empty"

\* No crash or restart of nclet replaces a host key that is in the file.
THEOREM HostKeySafe == Spec => HostKeyKept
<1>1. Init => RemoteInv /\ KeyInv
    BY RemoteInvInductive DEF Init, ServerInit, KeyInv
<1>2. RemoteInv /\ KeyInv /\ [Next]_vars =>
          (RemoteInv /\ KeyInv)' /\ ((keyFile \in HostKeys) => (keyFile' = keyFile))
    <2> SUFFICES ASSUME RemoteInv, KeyInv, [Next]_vars
                 PROVE  KeyInv' /\ ((keyFile \in HostKeys) => (keyFile' = keyFile))
        BY RemoteInvInductive
    <2>1. CASE UNCHANGED <<keyFile, serve>> \/ Crash
        BY <2>1 DEF KeyInv, Crash
    <2>2. CASE StartStep
        BY <2>2, HostKeysAssumption DEF StartStep, EnsureRSAHostKey, EncodeHostKey,
           InjectHostKeys, Starting, KeyInv
    <2>3. ASSUME NEW c \in Conns, SessionStep(c) PROVE UNCHANGED <<keyFile, serve>>
        BY <2>3, SessionStepOK DEF StepOf
    <2> QED
        BY <2>1, <2>2, <2>3 DEF Next, Connect, Authenticate, HandshakeFails, MoveTo, vars, serverVars
<1>3. HostKeyKept <=> [][(keyFile \in HostKeys) => (keyFile' = keyFile)]_vars
    BY PTL DEF HostKeyKept
<1> QED
    BY <1>1, <1>2, <1>3, PTL DEF Spec

-----------------------------------------------------------------------------
(***************************************************************************)
(* The packets and requests of a session.                                  *)
(***************************************************************************)

\* A client opens its session before it sends anything else ...
Opening(q) == q # <<>> /\ q[1] = "open" /\ \A i \in 2..Len(q) : q[i] \in Requests

\* ... and after it has closed it sends nothing more.
Closing(q) == \A i \in 1..Len(q) : q[i] \in Requests \/ (q[i] = "close" /\ i = Len(q))

\* The packets in flight other than the one that closes the channel.
Riding(q) == IF q # <<>> /\ q[Len(q)] = "close" THEN Len(q) - 1 ELSE Len(q)

\* The requests that have left a mark on the session ...
Marks(s) ==
    (IF s.pty THEN 1 ELSE 0) + (IF s.handler # "none" THEN 1 ELSE 0)
        + (IF s.loop = "sending" THEN 1 ELSE 0)

\* ... and the packet that opens the channel, while it is in flight.
OpenRiding(s) == IF s.channel = "none" /\ s.inFlight # <<>> THEN 1 ELSE 0

\* Every request is on its way, in the buffer, or has been handled, and what it did to the
\* session was done by it alone.
Underway(s) == Riding(s.inFlight) + Len(s.requests)
Sent(s) == s.asked + OpenRiding(s)
Accounted(s) == Underway(s) + Marks(s) <= Sent(s)

\* What is in flight belongs to the state of the channel.  It follows that the mux finds a
\* request only on an open channel, where it waits until the request fits into the buffer.
SessionOK(s) ==
    /\ s \in Session
    /\ Len(s.inFlight) <= MaxInFlight /\ Len(s.requests) <= RequestBuffer
    /\ s.channel = "none" => s = NoSession \/ Opening(s.inFlight)
    /\ s.channel = "open" => Closing(s.inFlight)
    /\ s.channel = "closed" => s.inFlight = <<>>
    /\ Accounted(s)
    /\ s.loop = "sending" => s.pty

SessionInv == \A c \in Conns : SessionOK(session[c])

\* Sending and receiving keep the order of the packets.
LEMMA PacketOrder ==
    ASSUME NEW q \in Seq(Requests \cup {"open", "close"})
    PROVE  /\ Opening(q) => Closing(Tail(q)) /\ \A r \in Requests : Opening(Append(q, r))
           /\ Closing(q) /\ "close" \notin Range(q) =>
                 \A r \in Requests \cup {"close"} : Closing(Append(q, r))
           /\ Closing(q) /\ q # <<>> =>
                 /\ Closing(Tail(q))
                 /\ q[1] = "close" => Tail(q) = <<>>
                 /\ q[1] # "close" => q[1] \in Requests
           /\ Opening(<<"open">>) /\ Closing(<<>>)
<1>1. Opening(q) => Closing(Tail(q)) /\ \A r \in Requests : Opening(Append(q, r))
    BY DEF Opening, Closing
<1>2. ASSUME Closing(q), "close" \notin Range(q), NEW r \in Requests \cup {"close"}
      PROVE  Closing(Append(q, r))
    <2>1. \A i \in 1..Len(q) : q[i] \in Requests
        BY <1>2 DEF Closing, Range
    <2> QED
        BY <2>1 DEF Closing
<1>3. ASSUME Closing(q), q # <<>>
      PROVE  /\ Closing(Tail(q))
             /\ q[1] = "close" => Tail(q) = <<>>
             /\ q[1] # "close" => q[1] \in Requests
    <2>1. Closing(Tail(q)) /\ (q[1] # "close" => q[1] \in Requests)
        BY <1>3 DEF Closing
    <2>2. 1 \in 1..Len(q)
        BY <1>3
    <2>3. q[1] = "close" => Len(q) = 1
        BY <1>3, <2>2 DEF Closing, Requests
    <2>4. Len(q) = 1 => Tail(q) = <<>>
        <3> DEFINE rest == Tail(q)
        <3>1. rest \in Seq(Requests \cup {"open", "close"}) /\ Len(rest) = Len(q) - 1
            BY <1>3
        <3> HIDE DEF rest
        <3>2. Len(q) = 1 => rest = <<>>
            BY <3>1, EmptySeq
        <3> QED
            BY <3>2 DEF rest
    <2> QED
        BY <2>1, <2>3, <2>4
<1>4. Opening(<<"open">>) /\ Closing(<<>>)
    BY DEF Opening, Closing
<1> QED
    BY <1>1, <1>2, <1>3, <1>4

\* What sending and receiving do to the number of packets.
LEMMA RidingPackets ==
    ASSUME NEW q \in Seq(Requests \cup {"open", "close"})
    PROVE  /\ Riding(q) \in Nat
           /\ "close" \notin Range(q) =>
                 /\ Riding(q) = Len(q) /\ Riding(Append(q, "close")) = Len(q)
                 /\ \A p \in Requests \cup {"open"} : Riding(Append(q, p)) = Len(q) + 1
           /\ q # <<>> /\ q[1] # "close" => Riding(q) >= 1 /\ Riding(Tail(q)) = Riding(q) - 1
           /\ Riding(<<>>) = 0
<1>1. Riding(<<>>) = 0
    BY DEF Riding
<1>2. Riding(q) \in Nat
    <2>1. q # <<>> => Len(q) \in Nat /\ Len(q) >= 1
        BY EmptySeq
    <2> QED
        BY <2>1 DEF Riding
<1>3. ASSUME "close" \notin Range(q)
      PROVE  /\ Riding(q) = Len(q) /\ Riding(Append(q, "close")) = Len(q)
             /\ \A p \in Requests \cup {"open"} : Riding(Append(q, p)) = Len(q) + 1
    <2>1. \A i \in 1..Len(q) : q[i] # "close"
        BY <1>3 DEF Range
    <2>2. q # <<>> => Len(q) \in 1..Len(q)
        BY EmptySeq
    <2>3. ASSUME NEW p \in Requests \cup {"open", "close"}
          PROVE  /\ Append(q, p) # <<>> /\ Len(Append(q, p)) = Len(q) + 1
                 /\ Append(q, p)[Len(q) + 1] = p
        BY EmptySeq
    <2>4. \A p \in Requests \cup {"open"} : p # "close"
        BY DEF Requests
    <2> QED
        BY <2>1, <2>2, <2>3, <2>4 DEF Riding
<1>4. ASSUME q # <<>>, q[1] # "close"
      PROVE  Riding(q) >= 1 /\ Riding(Tail(q)) = Riding(q) - 1
    <2> DEFINE rest == Tail(q)
    <2>1. /\ rest \in Seq(Requests \cup {"open", "close"}) /\ Len(rest) = Len(q) - 1
          /\ Len(q) \in Nat /\ Len(q) >= 1
          /\ \A i \in 1..Len(rest) : rest[i] = q[i + 1]
        BY <1>4, EmptySeq
    <2> HIDE DEF rest
    <2>2. CASE Len(q) = 1
        <3>1. rest = <<>>
            BY <2>1, <2>2, EmptySeq
        <3> QED
            BY <1>1, <1>4, <2>2, <3>1 DEF Riding, rest
    <2>3. CASE Len(q) > 1
        <3>1. rest # <<>> /\ rest[Len(rest)] = q[Len(q)]
            BY <2>1, <2>3, EmptySeq
        <3>2. Riding(rest) = Riding(q) - 1 /\ Riding(q) >= 1
            BY <1>4, <2>1, <2>3, <3>1 DEF Riding
        <3> QED
            BY <3>2 DEF rest
    <2> QED
        BY <2>1, <2>2, <2>3
<1> QED
    BY <1>1, <1>2, <1>3, <1>4

\* The numbers of the account.
LEMMA AccountTypes ==
    ASSUME NEW s \in Session
    PROVE  /\ Riding(s.inFlight) \in Nat /\ Len(s.requests) \in Nat /\ s.asked \in Nat
           /\ OpenRiding(s) \in Nat
           /\ Underway(s) \in Nat /\ Marks(s) \in Nat /\ Sent(s) \in Nat
<1>1. Riding(s.inFlight) \in Nat /\ Len(s.requests) \in Nat /\ s.asked \in Nat
    BY RidingPackets DEF Session
<1>2. Marks(s) \in Nat
    BY DEF Marks
<1>3. OpenRiding(s) \in Nat
    BY DEF OpenRiding
<1> QED
    BY <1>1, <1>2, <1>3 DEF Underway, Sent

\* The account stays right when a step leaves no new mark and takes a packet or a request
\* only from one place to the next.
LEMMA AccountKept ==
    ASSUME NEW s \in Session, NEW t \in Session, Accounted(s),
           t.pty = s.pty, s.handler = "none" => t.handler = "none",
           t.loop = "sending" => s.loop = "sending",
           Underway(t) + Sent(s) <= Underway(s) + Sent(t)
    PROVE  Accounted(t)
<1>1. Marks(t) <= Marks(s)
    BY DEF Marks
<1>2. /\ Underway(s) \in Nat /\ Marks(s) \in Nat /\ Sent(s) \in Nat
      /\ Underway(t) \in Nat /\ Marks(t) \in Nat /\ Sent(t) \in Nat
    BY AccountTypes
<1> QED
    BY <1>1, <1>2 DEF Accounted

\* A step of the loop, of the handler or of a copy leaves the channel and what is in
\* flight alone.
LEMMA InnerStepOK ==
    ASSUME NEW s, SessionOK(s), s # NoSession,
           NEW t \in Session, t.channel = s.channel, t.inFlight = s.inFlight,
           Len(t.requests) <= RequestBuffer, Accounted(t), t.loop = "sending" => t.pty
    PROVE  SessionOK(t)
BY DEF SessionOK

\* The request loop takes a request out of the buffer and handles it.
LEMMA LoopStepOK ==
    ASSUME NEW s, SessionOK(s), s.loop = "ready", s.requests # <<>>
    PROVE  SessionOK(Handle([s EXCEPT !.requests = Tail(@)], Head(s.requests)))
<1> DEFINE r == Head(s.requests)
           u == [s EXCEPT !.requests = Tail(@)]
           t == Handle(u, r)
<1>1. s \in Session /\ s.requests \in Seq(Requests) /\ s # NoSession
    BY DEF SessionOK, Session, NoSession
<1>2. /\ r \in Requests /\ Tail(s.requests) \in Seq(Requests)
      /\ Len(Tail(s.requests)) <= RequestBuffer
    BY <1>1, BuffersAssumption DEF SessionOK
<1>3. u \in Session /\ u.channel = s.channel /\ u.inFlight = s.inFlight /\ u.requests = Tail(s.requests)
    BY <1>1, <1>2 DEF Session
<1> HIDE DEF u, r
<1>4. t \in Session /\ t.channel = u.channel /\ t.inFlight = u.inFlight /\ t.requests = u.requests
    <2>1. CASE r \in {"shell", "exec"} /\ u.handler = "none"
        BY <1>3, <2>1 DEF Handle, Session
    <2>2. CASE r = "pty-req" /\ u.handler = "none" /\ ~u.pty
        BY <1>3, <2>2 DEF Handle, Session
    <2>3. CASE r = "window-change" /\ u.pty
        BY <1>3, <2>3 DEF Handle, Session
    <2>4. CASE /\ ~(r \in {"shell", "exec"} /\ u.handler = "none")
               /\ ~(r = "pty-req" /\ u.handler = "none" /\ ~u.pty)
               /\ ~(r = "window-change" /\ u.pty)
        BY <1>3, <2>4 DEF Handle
    <2> QED
        BY <2>1, <2>2, <2>3, <2>4
<1>5. Accounted(t)
    <2>1. Len(Tail(s.requests)) = Len(s.requests) - 1
        BY <1>1
    <2>2. Marks(t) <= Marks(s) + 1 /\ t.asked = s.asked
        <3>1. u.pty = s.pty /\ u.handler = s.handler /\ u.loop = s.loop /\ u.asked = s.asked
            BY <1>1 DEF u, Session
        <3>2. CASE r \in {"shell", "exec"} /\ u.handler = "none"
            BY <1>3, <3>1, <3>2 DEF Handle, Marks, Session
        <3>3. CASE r = "pty-req" /\ u.handler = "none" /\ ~u.pty
            BY <1>3, <3>1, <3>3 DEF Handle, Marks, Session
        <3>4. CASE r = "window-change" /\ u.pty
            BY <1>3, <3>1, <3>4 DEF Handle, Marks, Session
        <3>5. CASE /\ ~(r \in {"shell", "exec"} /\ u.handler = "none")
                   /\ ~(r = "pty-req" /\ u.handler = "none" /\ ~u.pty)
                   /\ ~(r = "window-change" /\ u.pty)
            BY <3>1, <3>5 DEF Handle, Marks
        <3> QED
            BY <3>2, <3>3, <3>4, <3>5
    <2> HIDE DEF t
    <2>3. Underway(t) = Underway(s) - 1 /\ Sent(t) = Sent(s)
        <3>1. OpenRiding(t) = OpenRiding(s)
            BY <1>3, <1>4 DEF OpenRiding
        <3>2. t.inFlight = s.inFlight /\ Len(t.requests) = Len(s.requests) - 1
            BY <1>3, <1>4, <2>1
        <3>3. Riding(s.inFlight) \in Nat /\ Len(s.requests) \in Nat
            BY <1>1, RidingPackets DEF Session
        <3>4. Underway(t) = Underway(s) - 1
            <4> DEFINE i == Riding(s.inFlight)
                       j == Len(s.requests)
            <4>1. Underway(t) = i + (j - 1) /\ Underway(s) = i + j
                BY <3>2 DEF Underway
            <4>2. i \in Nat /\ j \in Nat
                BY <3>3
            <4> HIDE DEF i, j
            <4> QED
                BY <4>1, <4>2
        <3> QED
            BY <2>2, <3>1, <3>4 DEF Sent
    <2>4. Underway(s) + Marks(s) <= Sent(s)
        BY DEF SessionOK, Accounted
    <2>5. Underway(s) \in Nat /\ Marks(s) \in Nat /\ Sent(s) \in Nat /\ Marks(t) \in Nat
        BY <1>1, <1>4, AccountTypes
    <2> QED
        BY <2>2, <2>3, <2>4, <2>5 DEF Accounted
<1>6. t.loop = "sending" => t.pty
    <2>1. u.pty = s.pty /\ u.loop = "ready" /\ u.loop # "sending"
        BY <1>1 DEF u, Session
    <2> QED
        BY <1>3, <2>1 DEF Handle, Session
<1>7. SessionOK(t)
    BY <1>1, <1>2, <1>3, <1>4, <1>5, <1>6, InnerStepOK
<1> QED
    BY <1>7 DEF r, u

\* The client sends a packet.
LEMMA SendOK ==
    ASSUME SessionInv, NEW c \in Conns, OpenSession(c) \/ MakeRequest(c) \/ HangUp(c)
    PROVE  \E t : SessionOK(t) /\ Within(c, t)
<1> DEFINE s == session[c]
           q == s.inFlight
<1>1. /\ SessionOK(s) /\ s \in Session /\ q \in Seq(Requests \cup {"open", "close"})
      /\ s.channel # "closed" /\ "close" \notin Range(q) /\ Len(q) < MaxInFlight
    BY DEF SessionInv, SessionOK, Session, OpenSession, MakeRequest, HangUp, CanSend
<1>2. \A p \in Requests \cup {"open", "close"} :
          /\ Append(q, p) \in Seq(Requests \cup {"open", "close"})
          /\ Len(Append(q, p)) <= MaxInFlight
    BY <1>1, BuffersAssumption
<1>3. CASE OpenSession(c)
    <2>1. s = NoSession /\ q = <<>> /\ s.channel = "none"
        BY <1>3 DEF OpenSession, NoSession
    <2>2. Append(q, "open") = <<"open">>
        BY <2>1
    <2> DEFINE t == [s EXCEPT !.inFlight = Append(q, "open")]
    <2>3. Accounted(t)
        <3>1. /\ t.inFlight = <<"open">> /\ t.channel = "none" /\ t.requests = <<>> /\ t.asked = 0
              /\ t.pty = FALSE /\ t.handler = "none" /\ t.loop = "none"
            BY <1>1, <2>1, <2>2 DEF NoSession
        <3> HIDE DEF t
        <3>2. Riding(<<"open">>) = 1
            BY DEF Riding
        <3>3. Marks(t) = 0 /\ OpenRiding(t) = 1
            BY <3>1 DEF Marks, OpenRiding
        <3> QED
            BY <3>1, <3>2, <3>3 DEF Accounted, Underway, Sent
    <2>4. SessionOK(t)
        BY <1>1, <1>2, <2>1, <2>2, <2>3, PacketOrder DEF SessionOK, Session
    <2> QED
        BY <1>3, <2>4 DEF OpenSession, Sends
<1>4. CASE MakeRequest(c)
    <2>1. PICK r \in Requests :
              Within(c, [s EXCEPT !.inFlight = Append(q, r), !.asked = @ + 1])
        BY <1>4 DEF MakeRequest, Sends
    <2>2. s.asked + 1 \in 0..MaxRequests /\ s # NoSession
        <3>1. s.asked \in 0..MaxRequests
            BY <1>1 DEF Session
        <3>2. s.asked < MaxRequests /\ s # NoSession
            BY <1>4 DEF MakeRequest
        <3> QED
            BY <3>1, <3>2, BuffersAssumption
    <2>3. /\ s.channel = "none" => Opening(Append(q, r))
          /\ s.channel = "open" => Closing(Append(q, r))
        BY <1>1, <2>2, PacketOrder DEF SessionOK
    <2> DEFINE t == [s EXCEPT !.inFlight = Append(q, r), !.asked = @ + 1]
    <2>4. /\ t \in Session /\ t.inFlight = Append(q, r) /\ t.asked = s.asked + 1
          /\ t.requests = s.requests /\ t.channel = s.channel
          /\ t.pty = s.pty /\ t.handler = s.handler /\ t.loop = s.loop
        BY <1>1, <1>2, <2>2 DEF Session
    <2>5. Accounted(t)
        <3> HIDE DEF t
        <3>1. Riding(t.inFlight) = Riding(q) + 1
            BY <1>1, <2>4, RidingPackets
        <3>2. OpenRiding(t) = OpenRiding(s)
            <4>1. s.channel = "none" => q # <<>>
                BY <1>1, <2>2 DEF SessionOK, Opening
            <4>2. Append(q, r) # <<>>
                BY <1>1, <1>2
            <4> QED
                BY <2>4, <4>1, <4>2 DEF OpenRiding
        <3>3. Accounted(s)
            BY <1>1 DEF SessionOK
        <3>4. Underway(t) = Underway(s) + 1 /\ Sent(t) = Sent(s) + 1
            <4>1. Riding(q) \in Nat /\ Len(s.requests) \in Nat /\ s.asked \in Nat /\ OpenRiding(s) \in Nat
                BY <1>1, AccountTypes
            <4>2. Underway(t) = (Riding(q) + 1) + Len(s.requests)
                BY <2>4, <3>1 DEF Underway
            <4>3. Sent(t) = (s.asked + 1) + OpenRiding(s)
                BY <2>4, <3>2 DEF Sent
            <4>4. Underway(s) = Riding(q) + Len(s.requests) /\ Sent(s) = s.asked + OpenRiding(s)
                BY DEF Underway, Sent
            <4>5. \A i, j \in Nat : (i + 1) + j = (i + j) + 1
                OBVIOUS
            <4> HIDE DEF q, s
            <4> QED
                BY <4>1, <4>2, <4>3, <4>4, <4>5
        <3>5. Underway(s) \in Nat /\ Sent(s) \in Nat
            BY <1>1, AccountTypes
        <3> QED
            BY <1>1, <2>4, <3>3, <3>4, <3>5, AccountKept
    <2>6. SessionOK(t)
        BY <1>1, <1>2, <2>2, <2>3, <2>4, <2>5 DEF SessionOK
    <2> QED
        BY <2>1, <2>6
<1>5. CASE HangUp(c)
    <2>1. s.channel = "open" /\ Closing(Append(q, "close"))
        BY <1>1, <1>5, PacketOrder DEF HangUp, SessionOK
    <2> DEFINE t == [s EXCEPT !.inFlight = Append(q, "close")]
    <2>2. Accounted(t)
        <3>1. /\ t \in Session /\ t.inFlight = Append(q, "close") /\ t.asked = s.asked
              /\ t.requests = s.requests /\ t.channel = "open" /\ s.channel = "open"
              /\ t.pty = s.pty /\ t.handler = s.handler /\ t.loop = s.loop
            BY <1>1, <1>2, <2>1 DEF Session
        <3> HIDE DEF t
        <3>2. Riding(t.inFlight) = Riding(q) /\ OpenRiding(t) = 0 /\ OpenRiding(s) = 0
            BY <1>1, <3>1, RidingPackets DEF OpenRiding
        <3>3. Accounted(s)
            BY <1>1 DEF SessionOK
        <3>4. Underway(t) = Underway(s) /\ Sent(t) = Sent(s)
            BY <3>1, <3>2 DEF Underway, Sent
        <3>5. Underway(s) \in Nat /\ Sent(s) \in Nat
            BY <1>1, AccountTypes
        <3> QED
            BY <1>1, <3>1, <3>3, <3>4, <3>5, AccountKept
    <2>3. SessionOK(t)
        BY <1>1, <1>2, <2>1, <2>2 DEF SessionOK, Session
    <2> QED
        BY <1>5, <2>3 DEF HangUp, Sends
<1> QED
    BY <1>3, <1>4, <1>5

\* The mux reads a packet, or finds the end of the stream.
LEMMA MuxOK ==
    ASSUME SessionInv, NEW c \in Conns, MuxStep(c)
    PROVE  \E t : SessionOK(t) /\ Within(c, t)
<1> DEFINE s == session[c]
           q == s.inFlight
           packet == Head(q)
           read == [s EXCEPT !.inFlight = Tail(@)]
<1>1. SessionOK(s) /\ s \in Session /\ q \in Seq(Requests \cup {"open", "close"})
    BY DEF SessionInv, SessionOK, Session
<1>2. CASE MuxEnds(c)
    <2>1. q = <<>> /\ Within(c, [s EXCEPT !.mux = "ended", !.channel = "closed"])
        BY <1>2 DEF MuxEnds
    <2> DEFINE t == [s EXCEPT !.mux = "ended", !.channel = "closed"]
    <2>2. /\ t \in Session /\ t.inFlight = <<>> /\ t.asked = s.asked /\ t.requests = s.requests
          /\ t.pty = s.pty /\ t.handler = s.handler /\ t.loop = s.loop /\ t.channel = "closed"
        BY <1>1, <2>1 DEF Session
    <2>3. Accounted(t)
        <3> HIDE DEF t
        <3>1. Riding(t.inFlight) = Riding(q) /\ OpenRiding(t) = 0 /\ OpenRiding(s) = 0
            BY <2>1, <2>2 DEF OpenRiding
        <3>2. Accounted(s)
            BY <1>1 DEF SessionOK
        <3>3. Underway(t) = Underway(s) /\ Sent(t) = Sent(s)
            BY <2>2, <3>1 DEF Underway, Sent
        <3>4. Underway(s) \in Nat /\ Sent(s) \in Nat
            BY <1>1, AccountTypes
        <3> QED
            BY <1>1, <2>2, <3>2, <3>3, <3>4, AccountKept
    <2>4. SessionOK(t)
        BY <1>1, <2>1, <2>2, <2>3 DEF SessionOK
    <2> QED
        BY <2>1, <2>4
<1>3. CASE MuxReads(c)
    <2>1. /\ q # <<>> /\ ~Blocked(c)
          /\ Within(c, CASE packet = "open" -> [read EXCEPT !.channel = "open", !.loop = "ready"]
                         [] packet = "close" -> [read EXCEPT !.channel = "closed", !.closeSent = TRUE]
                         [] OTHER -> [read EXCEPT !.requests = Append(@, packet)])
        BY <1>3 DEF MuxReads
    <2>2. /\ packet = q[1] /\ Tail(q) \in Seq(Requests \cup {"open", "close"})
          /\ Len(Tail(q)) <= MaxInFlight /\ packet \in Requests \cup {"open", "close"}
        BY <1>1, <2>1, BuffersAssumption DEF SessionOK
    <2>3. (s.channel = "none" /\ Opening(q)) \/ (s.channel = "open" /\ Closing(q))
        BY <1>1, <2>1 DEF SessionOK, Session, NoSession
    <2>4. Closing(Tail(q)) /\ (packet = "close" => s.channel = "open" /\ Tail(q) = <<>>)
          /\ (packet \in Requests => s.channel = "open")
        BY <1>1, <2>1, <2>2, <2>3, PacketOrder DEF Opening, Requests
    <2>5. packet # "close" => Riding(q) >= 1 /\ Riding(Tail(q)) = Riding(q) - 1
        BY <1>1, <2>1, <2>2, RidingPackets
    <2>6. /\ Accounted(s) /\ Riding(q) \in Nat /\ Len(s.requests) \in Nat /\ s.asked \in Nat
          /\ Underway(s) \in Nat /\ Sent(s) \in Nat
        BY <1>1, AccountTypes DEF SessionOK
    <2>7. CASE packet = "open"
        <3> DEFINE t == [read EXCEPT !.channel = "open", !.loop = "ready"]
        <3>1. /\ t \in Session /\ t.inFlight = Tail(q) /\ t.requests = s.requests /\ t.asked = s.asked
              /\ t.pty = s.pty /\ t.handler = s.handler /\ t.loop = "ready" /\ t.channel = "open"
            BY <1>1, <2>2 DEF Session
        <3>2. s.channel = "none"
            BY <1>1, <2>1, <2>2, <2>3, <2>7, PacketOrder DEF Requests
        <3>3. Accounted(t)
            <4> HIDE DEF t
            <4>1. OpenRiding(s) = 1 /\ OpenRiding(t) = 0
                BY <2>1, <3>1, <3>2 DEF OpenRiding
            <4>2. Underway(t) = Underway(s) - 1 /\ Sent(t) = Sent(s) - 1
                BY <2>5, <2>6, <2>7, <3>1, <4>1 DEF Underway, Sent
            <4> QED
                BY <1>1, <2>6, <3>1, <4>2, AccountKept
        <3>4. SessionOK(t)
            BY <1>1, <2>2, <2>4, <3>1, <3>3 DEF SessionOK
        <3> QED
            BY <2>1, <2>7, <3>4
    <2>8. CASE packet = "close"
        <3> DEFINE t == [read EXCEPT !.channel = "closed", !.closeSent = TRUE]
        <3>1. /\ t \in Session /\ t.inFlight = <<>> /\ t.requests = s.requests /\ t.asked = s.asked
              /\ t.pty = s.pty /\ t.handler = s.handler /\ t.loop = s.loop /\ t.channel = "closed"
            BY <1>1, <2>2, <2>4, <2>8 DEF Session
        <3>2. Accounted(t)
            <4> HIDE DEF t
            <4>1. OpenRiding(s) = 0 /\ OpenRiding(t) = 0 /\ Riding(<<>>) = 0
                BY <2>4, <2>8, <3>1 DEF OpenRiding, Riding
            <4>2. Riding(q) = 0
                <5>1. Closing(q) /\ 1 \in 1..Len(q) /\ q[1] = "close" /\ q[1] \notin Requests
                    BY <1>1, <2>1, <2>2, <2>3, <2>4, <2>8 DEF Requests
                <5>2. Len(q) = 1
                    BY <5>1 DEF Closing
                <5> QED
                    BY <2>1, <5>1, <5>2 DEF Riding
            <4>3. Underway(t) = Underway(s) /\ Sent(t) = Sent(s)
                BY <2>6, <3>1, <4>1, <4>2 DEF Underway, Sent
            <4> QED
                BY <1>1, <2>6, <3>1, <4>3, AccountKept
        <3>3. SessionOK(t)
            BY <1>1, <2>2, <2>4, <2>8, <3>1, <3>2 DEF SessionOK
        <3> QED
            BY <2>1, <2>8, <3>3
    <2>9. CASE packet \in Requests
        <3>1. s.channel = "open" /\ s.requests \in Seq(Requests) /\ Len(s.requests) < RequestBuffer
            BY <1>1, <2>1, <2>4, <2>9, BuffersAssumption DEF Blocked, SessionOK, Session
        <3>2. /\ Append(s.requests, packet) \in Seq(Requests)
              /\ Len(Append(s.requests, packet)) <= RequestBuffer
            BY <2>9, <3>1, BuffersAssumption
        <3>3. packet # "open" /\ packet # "close"
            BY <2>9 DEF Requests
        <3> DEFINE t == [read EXCEPT !.requests = Append(@, packet)]
        <3>4. /\ t \in Session /\ t.inFlight = Tail(q) /\ t.requests = Append(s.requests, packet)
              /\ t.asked = s.asked /\ t.pty = s.pty /\ t.handler = s.handler /\ t.loop = s.loop
              /\ t.channel = "open"
            BY <1>1, <2>2, <3>1, <3>2 DEF Session
        <3>5. Accounted(t)
            <4> HIDE DEF t
            <4>1. OpenRiding(s) = 0 /\ OpenRiding(t) = 0 /\ Len(t.requests) = Len(s.requests) + 1
                BY <2>9, <3>1, <3>4 DEF OpenRiding
            <4>2. Underway(t) = Underway(s) /\ Sent(t) = Sent(s)
                BY <2>5, <2>6, <3>3, <3>4, <4>1 DEF Underway, Sent
            <4> QED
                BY <1>1, <2>6, <3>4, <4>2, AccountKept
        <3>6. SessionOK(t)
            BY <1>1, <2>2, <2>4, <3>2, <3>4, <3>5 DEF SessionOK
        <3> QED
            BY <2>1, <3>3, <3>6
    <2> QED
        BY <2>2, <2>7, <2>8, <2>9
<1> QED
    BY <1>2, <1>3 DEF MuxStep

\* Every step of a session leaves it as it was, or as it should be.
LEMMA SessionStepKeeps ==
    ASSUME SessionInv, NEW c \in Conns, SessionStep(c)
    PROVE  session' = session \/ \E t : SessionOK(t) /\ SetSession(c, t)
<1> DEFINE s == session[c]
<1>1. SessionOK(s) /\ s \in Session /\ Len(s.requests) <= RequestBuffer
    BY DEF SessionInv, SessionOK
<1>2. CASE OpenSession(c) \/ MakeRequest(c) \/ HangUp(c) \/ MuxStep(c)
    BY <1>2, SendOK, MuxOK DEF Within
<1>3. CASE Disconnect(c) \/ StreamFails(c) \/ ChannelsEnd(c) \/ KillCommand(c)
    BY <1>3 DEF Disconnect, StreamFails, ChannelsEnd, KillCommand
<1>4. CASE HandleRequest(c)
    BY <1>1, <1>4, LoopStepOK DEF HandleRequest, Within
<1>5. ASSUME NEW t \in Session, SetSession(c, t), s # NoSession,
             t.channel = s.channel, t.inFlight = s.inFlight, t.requests = s.requests,
             t.asked = s.asked, t.pty = s.pty, s.handler = "none" => t.handler = "none",
             t.loop = "sending" => s.loop = "sending"
      PROVE  \E u : SessionOK(u) /\ SetSession(c, u)
    <2>1. /\ Accounted(s) /\ Underway(s) \in Nat /\ Sent(s) \in Nat
          /\ Underway(t) = Underway(s) /\ Sent(t) = Sent(s)
        BY <1>1, <1>5, AccountTypes DEF OpenRiding, SessionOK, Underway, Sent
    <2>2. Accounted(t)
        BY <1>1, <1>5, <2>1, AccountKept
    <2> QED
        BY <1>1, <1>5, <2>2, InnerStepOK DEF SessionOK
<1>6. /\ NoSession.loop = "none" /\ NoSession.handler = "none"
      /\ NoSession.copyIn = "none" /\ NoSession.copyOut = "none"
    BY DEF NoSession
<1>7. CASE LoopEnds(c)
    <2>1. s # NoSession /\ SetSession(c, [s EXCEPT !.loop = "done"])
        BY <1>6, <1>7 DEF LoopEnds, Within
    <2> QED
        BY <1>1, <1>5, <2>1 DEF Session
<1>8. CASE StartCommand(c)
    <2>1. /\ s # NoSession /\ s.handler # "none"
          /\ \/ SetSession(c, [s EXCEPT !.handler = "wait", !.copyIn = "running", !.copyOut = "running"])
             \/ SetSession(c, [s EXCEPT !.handler = "done", !.closeSent = TRUE])
        BY <1>6, <1>8 DEF StartCommand, Within
    <2> QED
        BY <1>1, <1>5, <2>1 DEF Session
<1>9. CASE CommandWaited(c) \/ HandlerReturns(c)
    <2>1. /\ s # NoSession /\ s.handler # "none"
          /\ \/ SetSession(c, [s EXCEPT !.handler = "copying", !.closeSent = TRUE])
             \/ SetSession(c, [s EXCEPT !.handler = "done"])
        BY <1>6, <1>9 DEF CommandWaited, HandlerReturns, Within
    <2> QED
        BY <1>1, <1>5, <2>1 DEF Session
<1>10. CASE CopyStep(c)
    <2>1. /\ s # NoSession
          /\ SetSession(c, [s EXCEPT !.copyIn = "done"]) \/ SetSession(c, [s EXCEPT !.copyOut = "done"])
        BY <1>6, <1>10 DEF CopyStep, CopyInEnds, CopyOutEnds, Within
    <2> QED
        BY <1>1, <1>5, <2>1 DEF Session
<1> QED
    BY <1>2, <1>3, <1>4, <1>7, <1>8, <1>9, <1>10
       DEF SessionStep, ClientStep, LoopStep, HandlerStep

\* The sessions stay as they should be.
LEMMA SessionInvInductive ==
    /\ Init => SessionInv
    /\ RemoteInv /\ SessionInv /\ [Next]_vars => SessionInv'
<1>1. SessionOK(NoSession)
    <2>1. Accounted(NoSession)
        BY DEF Accounted, Underway, Sent, Riding, Marks, OpenRiding, NoSession
    <2> QED
        BY <2>1, BuffersAssumption, EmptySeq DEF SessionOK, Session, NoSession
<1>2. Init => SessionInv
    BY <1>1 DEF Init, SessionInv
<1> SUFFICES ASSUME RemoteInv, SessionInv, [Next]_vars PROVE SessionInv'
    BY <1>2
<1>3. CASE session' = session
    BY <1>3 DEF SessionInv, SessionOK, Opening, Closing
<1>4. CASE Crash
    <2>1. \A c \in Conns : session'[c] = NoSession
        BY <1>4 DEF Crash
    <2>2. \A c \in Conns : SessionOK(session'[c])
        BY <1>1, <2>1
    <2> QED
        BY <2>2 DEF SessionInv, SessionOK, Opening, Closing
<1>5. ASSUME NEW c \in Conns, SessionStep(c) PROVE SessionInv'
    <2>1. CASE session' = session
        BY <1>3, <2>1
    <2>2. ASSUME NEW t, SessionOK(t), SetSession(c, t) PROVE SessionInv'
        <3>1. \A d \in Conns : session'[d] = t \/ session'[d] = session[d]
            BY <2>2 DEF SetSession, RemoteInv
        <3>2. \A d \in Conns : SessionOK(session'[d])
            BY <2>2, <3>1 DEF SessionInv
        <3> QED
            BY <3>2 DEF SessionInv, SessionOK, Opening, Closing
    <2> QED
        BY <1>5, <2>1, <2>2, SessionStepKeeps
<1> QED
    BY <1>3, <1>4, <1>5 DEF Next, vars

\* The server keeps its types.
LEMMA ServerTypes ==
    /\ Init => ServerTypeOK
    /\ RemoteInv /\ ServerTypeOK /\ [Next]_vars => ServerTypeOK'
<1>1. Init => ServerTypeOK
    BY DEF Init, ServerInit, ServerTypeOK
<1> SUFFICES ASSUME RemoteInv, ServerTypeOK, [Next]_vars PROVE ServerTypeOK'
    BY <1>1
<1> USE DEF ServerTypeOK
<1>2. CASE UNCHANGED serverVars
    BY <1>2 DEF serverVars, connVars
<1>3. CASE StartStep
    BY <1>3 DEF StartStep, EnsureRSAHostKey, EncodeHostKey, InjectHostKeys, Starting, connVars
<1>4. CASE Crash
    BY <1>4 DEF Crash
<1>5. ASSUME NEW c \in Conns, Connect(c) \/ Authenticate(c) \/ HandshakeFails(c) PROVE ServerTypeOK'
    BY <1>5 DEF Connect, Authenticate, HandshakeFails, MoveTo
<1>6. ASSUME NEW c \in Conns, SessionStep(c) PROVE ServerTypeOK'
    <2>1. CASE Disconnect(c) \/ StreamFails(c) \/ ChannelsEnd(c)
        BY <2>1 DEF Disconnect, StreamFails, ChannelsEnd, HandleConnReturns, MoveTo
    <2>2. CASE UNCHANGED serverVars
        BY <1>2, <2>2
    <2> QED
        BY <1>6, <2>1, <2>2 DEF SessionStep, ClientStep, OpenSession, MakeRequest, HangUp, MuxStep,
           MuxReads, MuxEnds, LoopStep, HandleRequest, LoopEnds, HandlerStep, StartCommand,
           CommandWaited, HandlerReturns, KillCommand, CopyStep, CopyInEnds, CopyOutEnds, Within
<1> QED
    BY <1>2, <1>3, <1>4, <1>5, <1>6 DEF Next, vars

\* Every variable keeps its type, and no buffer of a session goes past its bound: the mux
\* holds a request back rather than lose it or overfill the buffer.
THEOREM RemoteTypesOK == Spec => []TypeOK
<1>1. RemoteInv /\ SessionInv /\ ServerTypeOK => TypeOK
    <2> SUFFICES ASSUME RemoteInv, SessionInv, ServerTypeOK PROVE TypeOK
        OBVIOUS
    <2>1. session \in [Conns -> Session]
        BY DEF RemoteInv, SessionInv, SessionOK
    <2> QED
        BY <2>1 DEF TypeOK, RemoteInv, SessionInv, SessionOK
<1> QED
    BY <1>1, RemoteInvInductive, SessionInvInductive, ServerTypes, PTL DEF Spec

\* A connection never gets stuck before its client has made as many requests as it takes:
\* those in the buffer, the one that the mux holds, and those that left a mark.
THEOREM StuckLate == Spec => []StuckTakesRequests
<1>1. SessionInv => StuckTakesRequests
    <2> SUFFICES ASSUME SessionInv, NEW c \in Conns, Blocked(c), session[c].loop = "sending"
                 PROVE  /\ session[c].asked >= RequestBuffer + 3
                        /\ session[c].handler # "none" => session[c].asked >= RequestBuffer + 4
        BY DEF StuckTakesRequests
    <2> DEFINE s == session[c]
               q == s.inFlight
    <2>1. /\ SessionOK(s) /\ s \in Session /\ Accounted(s)
          /\ q \in Seq(Requests \cup {"open", "close"})
        BY DEF SessionInv, SessionOK, Session
    <2>2. /\ q # <<>> /\ q[1] \in Requests /\ s.channel = "open" /\ Len(s.requests) = RequestBuffer
          /\ s.loop = "sending"
        BY <2>1 DEF Blocked
    <2> HIDE DEF q, s
    <2>3. Riding(q) >= 1
        BY <2>1, <2>2, RidingPackets DEF Requests
    <2>4. s.pty
        BY <2>1, <2>2 DEF SessionOK
    <2>5. Marks(s) >= 2 /\ (s.handler # "none" => Marks(s) >= 3)
        BY <2>2, <2>4 DEF Marks
    <2>6. Underway(s) >= RequestBuffer + 1 /\ Sent(s) = s.asked
        <3>1. Riding(q) \in Nat /\ s.asked \in Nat
            BY <2>1, AccountTypes DEF q
        <3>2. Underway(s) = Riding(q) + RequestBuffer
            BY <2>2 DEF Underway, q
        <3>3. Sent(s) = s.asked + 0
            BY <2>2 DEF Sent, OpenRiding
        <3> QED
            BY <2>3, <3>1, <3>2, <3>3, BuffersAssumption
    <2>7. Underway(s) \in Nat /\ Marks(s) \in Nat /\ s.asked \in Nat /\ Underway(s) + Marks(s) <= s.asked
        BY <2>1, <2>6, AccountTypes DEF Accounted
    <2>8. s.asked >= RequestBuffer + 3 /\ (s.handler # "none" => s.asked >= RequestBuffer + 4)
        BY <2>5, <2>6, <2>7, BuffersAssumption
    <2> QED
        BY <2>8 DEF s
<1> QED
    BY <1>1, RemoteInvInductive, SessionInvInductive, PTL DEF Spec

-----------------------------------------------------------------------------
(***************************************************************************)
(* The command of a session.                                               *)
(***************************************************************************)

\* How a session (s), the stage of its connection, its helper (h) and its context belong
\* together: there is a session only after the handshake, and the context of a connection
\* that is gone is cancelled, so that no command is started for it any more.
Tied(s, at, h, done) ==
    /\ h.main \notin {"none", "exited"} => s.handler = "wait"
    /\ "running" \in {s.copyIn, s.copyOut} => s.handler \in {"wait", "copying"}
    /\ s # NoSession => at \in {"serving", "gone"}
    /\ at = "gone" => done

CommandInv == \A c \in Conns : Tied(session[c], stage[c], helper[c], c \in ctxDone)

\* This is what NoOrphanCommand says.
LEMMA CommandInvMeans == CommandInv => NoOrphanCommand
<1> SUFFICES ASSUME CommandInv, NEW c \in Conns
             PROVE  /\ Running(c) => session[c].handler = "wait" /\ stage[c] \in {"serving", "gone"}
                    /\ Running(c) /\ stage[c] = "gone" => c \in ctxDone
                    /\ "running" \in {session[c].copyIn, session[c].copyOut} =>
                          session[c].handler \in {"wait", "copying"}
    BY DEF NoOrphanCommand
<1> QED
    BY DEF CommandInv, Tied, Running, NoSession

\* A step within the session that starts no handler and leaves the copies to it.
LEMMA WithinTied ==
    ASSUME RemoteInv, CommandInv, NEW c \in Conns, NEW t, Within(c, t),
           t # NoSession => stage[c] \in {"serving", "gone"},
           Running(c) => t.handler = "wait",
           "running" \in {t.copyIn, t.copyOut} => t.handler \in {"wait", "copying"}
    PROVE  Tied(session'[c], stage'[c], helper'[c], c \in ctxDone') /\ ctxDone' = ctxDone
<1>1. /\ session'[c] = t /\ UNCHANGED <<stage, helper, ctxDone>>
    BY DEF Within, SetSession, serverVars, connVars, RemoteInv
<1> QED
    BY <1>1 DEF CommandInv, Tied, Running

\* Every step of a session keeps it tied.
LEMMA SessionStepTied ==
    ASSUME RemoteInv, SessionInv, CommandInv, NEW c \in Conns, SessionStep(c)
    PROVE  Tied(session'[c], stage'[c], helper'[c], c \in ctxDone') /\ ctxDone \subseteq ctxDone'
<1> DEFINE s == session[c]
           Same(t) == t.handler = s.handler /\ t.copyIn = s.copyIn /\ t.copyOut = s.copyOut
<1>1. Tied(s, stage[c], helper[c], c \in ctxDone) /\ s \in Session
    BY DEF CommandInv, SessionInv, SessionOK
<1>2. /\ NoSession.loop = "none" /\ NoSession.handler = "none"
      /\ NoSession.copyIn = "none" /\ NoSession.copyOut = "none"
    BY DEF NoSession
<1>3. ASSUME NEW t, Within(c, t), Same(t), stage[c] = "serving" \/ s # NoSession
      PROVE  Tied(session'[c], stage'[c], helper'[c], c \in ctxDone') /\ ctxDone \subseteq ctxDone'
    BY <1>1, <1>3, WithinTied DEF Tied, Running
<1>4. CASE OpenSession(c) \/ MakeRequest(c) \/ HangUp(c)
    <2>1. \A q, n : Same([s EXCEPT !.inFlight = q]) /\ Same([s EXCEPT !.inFlight = q, !.asked = n])
        BY <1>1 DEF Session
    <2> HIDE DEF Same
    <2>2. /\ stage[c] = "serving"
          /\ \E q, n : \/ Within(c, [s EXCEPT !.inFlight = q])
                        \/ Within(c, [s EXCEPT !.inFlight = q, !.asked = n])
        BY <1>4 DEF OpenSession, MakeRequest, HangUp, CanSend
    <2> QED
        BY <1>3, <2>1, <2>2
<1>5. CASE MuxReads(c)
    <2> DEFINE read == [s EXCEPT !.inFlight = Tail(@)]
    <2>1. /\ Same([read EXCEPT !.channel = "open", !.loop = "ready"])
          /\ Same([read EXCEPT !.channel = "closed", !.closeSent = TRUE])
          /\ Same([read EXCEPT !.requests = Append(@, Head(s.inFlight))])
        BY <1>1 DEF Session
    <2>2. /\ stage[c] = "serving"
          /\ \/ Within(c, [read EXCEPT !.channel = "open", !.loop = "ready"])
             \/ Within(c, [read EXCEPT !.channel = "closed", !.closeSent = TRUE])
             \/ Within(c, [read EXCEPT !.requests = Append(@, Head(s.inFlight))])
        BY <1>5 DEF MuxReads
    <2> HIDE DEF Same, read
    <2> QED
        BY <1>3, <2>1, <2>2
<1>6. CASE MuxEnds(c)
    <2>1. Same([s EXCEPT !.mux = "ended", !.channel = "closed"])
        BY <1>1 DEF Session
    <2>2. stage[c] = "serving" /\ Within(c, [s EXCEPT !.mux = "ended", !.channel = "closed"])
        BY <1>6 DEF MuxEnds
    <2> QED
        BY <1>3, <2>1, <2>2
<1>7. CASE HandleRequest(c)
    <2> DEFINE r == Head(s.requests)
               u == [s EXCEPT !.requests = Tail(@)]
               t == Handle(u, r)
    <2>1. s # NoSession /\ Within(c, t)
        BY <1>2, <1>7 DEF HandleRequest
    <2>2. u \in Session /\ Same(u)
        <3>1. Tail(s.requests) \in Seq(Requests)
            BY <1>1, <1>7 DEF HandleRequest, Session
        <3> QED
            BY <1>1, <3>1 DEF Session
    <2>3. t.copyIn = s.copyIn /\ t.copyOut = s.copyOut /\ (s.handler # "none" => t.handler = s.handler)
        <3>1. CASE r \in {"shell", "exec"} /\ u.handler = "none"
            BY <1>1, <2>2, <3>1 DEF Handle, Session
        <3>2. CASE r = "pty-req" /\ u.handler = "none" /\ ~u.pty
            BY <1>1, <2>2, <3>2 DEF Handle, Session
        <3>3. CASE r = "window-change" /\ u.pty
            BY <1>1, <2>2, <3>3 DEF Handle, Session
        <3>4. CASE /\ ~(r \in {"shell", "exec"} /\ u.handler = "none")
                   /\ ~(r = "pty-req" /\ u.handler = "none" /\ ~u.pty)
                   /\ ~(r = "window-change" /\ u.pty)
            BY <2>2, <3>4 DEF Handle
        <3> QED
            BY <3>1, <3>2, <3>3, <3>4
    <2> HIDE DEF t
    <2> QED
        BY <1>1, <2>1, <2>3, WithinTied DEF Tied, Running
<1>8. CASE LoopEnds(c)
    <2>1. s # NoSession /\ \E t : Within(c, t) /\ Same(t)
        BY <1>1, <1>2, <1>8 DEF LoopEnds, Session
    <2> QED
        BY <1>3, <2>1
<1>9. CASE CommandWaited(c)
    <2> DEFINE t == [s EXCEPT !.handler = "copying", !.closeSent = TRUE]
    <2>1. s # NoSession /\ ~Running(c) /\ Within(c, t)
        BY <1>2, <1>9 DEF CommandWaited, Running
    <2>2. t.handler = "copying"
        BY <1>1 DEF Session
    <2> HIDE DEF t
    <2> QED
        BY <1>1, <2>1, <2>2, WithinTied DEF Tied
<1>10. CASE HandlerReturns(c)
    <2>1. /\ s # NoSession /\ s.handler = "copying"
          /\ \E t : Within(c, t) /\ t.copyIn = "done" /\ t.copyOut = "done"
        BY <1>1, <1>2, <1>10 DEF HandlerReturns, Session
    <2> QED
        BY <1>1, <2>1, WithinTied DEF Tied, Running
<1>11. CASE CopyStep(c)
    <2>1. /\ s # NoSession
          /\ \E t : /\ Within(c, t) /\ t.handler = s.handler
                    /\ t.copyIn \in {s.copyIn, "done"} /\ t.copyOut \in {s.copyOut, "done"}
        BY <1>1, <1>2, <1>11 DEF CopyStep, CopyInEnds, CopyOutEnds, Session
    <2> QED
        BY <1>1, <2>1, WithinTied DEF Tied, Running
<1>12. CASE StartCommand(c)
    <2>1. /\ s # NoSession /\ stage[c] \in {"serving", "gone"} /\ ~Running(c)
          /\ "running" \notin {s.copyIn, s.copyOut}
        BY <1>1, <1>2, <1>12 DEF StartCommand, Tied, Running
    <2>2. CASE Within(c, [s EXCEPT !.handler = "done", !.closeSent = TRUE])
        <3> DEFINE t == [s EXCEPT !.handler = "done", !.closeSent = TRUE]
        <3>1. t.copyIn = s.copyIn /\ t.copyOut = s.copyOut
            BY <1>1 DEF Session
        <3>2. Within(c, t)
            BY <2>2
        <3> HIDE DEF t
        <3> QED
            BY <2>1, <3>1, <3>2, WithinTied
    <2>3. CASE /\ SetSession(c, [s EXCEPT !.handler = "wait", !.copyIn = "running", !.copyOut = "running"])
               /\ UNCHANGED <<serverVars, user>>
        <3>1. session'[c].handler = "wait" /\ stage' = stage /\ ctxDone' = ctxDone
            BY <1>1, <2>3 DEF SetSession, RemoteInv, Session, serverVars, connVars
        <3> QED
            BY <1>1, <2>1, <3>1 DEF Tied
    <2> QED
        BY <1>12, <2>2, <2>3 DEF StartCommand
<1>13. CASE KillCommand(c)
    <2>1. helper'[c].main = "exited" /\ UNCHANGED <<session, stage, ctxDone>>
        BY <1>13 DEF KillCommand, Becomes, Exited, NotStarted, serverVars, connVars, RemoteInv
    <2> QED
        BY <1>1, <2>1 DEF Tied
<1>14. CASE Disconnect(c) \/ StreamFails(c)
    BY <1>1, <1>14 DEF Disconnect, StreamFails, Tied
<1>15. CASE ChannelsEnd(c)
    <2>1. stage'[c] = "gone" /\ ctxDone' = ctxDone \cup {c} /\ UNCHANGED <<session, helper>>
        BY <1>15 DEF ChannelsEnd, HandleConnReturns, MoveTo, RemoteInv
    <2> QED
        BY <1>1, <2>1 DEF Tied
<1> QED
    BY <1>4, <1>5, <1>6, <1>7, <1>8, <1>9, <1>10, <1>11, <1>12, <1>13, <1>14, <1>15
       DEF SessionStep, ClientStep, MuxStep, LoopStep, HandlerStep, CopyStep

\* The invariant is inductive.
LEMMA CommandInvInductive ==
    /\ Init => CommandInv
    /\ RemoteInv /\ SessionInv /\ CommandInv /\ [Next]_vars => CommandInv'
<1>1. Init => CommandInv
    <2> SUFFICES ASSUME Init, NEW c \in Conns
                 PROVE  Tied(session[c], stage[c], helper[c], c \in ctxDone)
        BY DEF CommandInv
    <2>1. session[c] = NoSession /\ stage[c] = "absent" /\ helper[c] = NotStarted
        BY DEF Init, ServerInit
    <2> QED
        BY <2>1 DEF Tied, NoSession, NotStarted
<1> SUFFICES ASSUME RemoteInv, SessionInv, CommandInv, [Next]_vars,
                    NEW d \in Conns
             PROVE  Tied(session'[d], stage'[d], helper'[d], d \in ctxDone')
    BY <1>1 DEF CommandInv, Tied
<1>2. Tied(session[d], stage[d], helper[d], d \in ctxDone)
    BY DEF CommandInv
<1>3. CASE UNCHANGED <<session, stage, helper, ctxDone>>
    BY <1>2, <1>3
<1>4. CASE Crash
    <2>1. session'[d] = NoSession /\ stage'[d] = "absent" /\ helper'[d] = NotStarted
        BY <1>4 DEF Crash
    <2> QED
        BY <2>1 DEF Tied, NoSession, NotStarted
<1>5. ASSUME NEW c \in Conns, Connect(c), UNCHANGED session
      PROVE  Tied(session'[d], stage'[d], helper'[d], d \in ctxDone')
    <2>1. /\ stage[c] = "absent" /\ helper' = helper /\ ctxDone' = ctxDone
          /\ stage' = [stage EXCEPT ![c] = "handshake"]
        BY <1>5 DEF Connect, MoveTo
    <2>2. CASE d = c
        <3>1. session'[d] = NoSession /\ helper'[d] = NotStarted /\ stage'[d] = "handshake"
            BY <1>5, <2>1, <2>2 DEF RemoteInv
        <3> QED
            BY <3>1 DEF Tied, NoSession, NotStarted
    <2>3. CASE d # c
        BY <1>2, <1>5, <2>1, <2>3 DEF RemoteInv
    <2> QED
        BY <2>2, <2>3
<1>6. ASSUME NEW c \in Conns, Authenticate(c) \/ HandshakeFails(c),
             UNCHANGED <<user, helper, session>>
      PROVE  Tied(session'[d], stage'[d], helper'[d], d \in ctxDone')
    <2>1. /\ stage[c] = "handshake"
          /\ \/ stage' = [stage EXCEPT ![c] = "serving"] /\ ctxDone' = ctxDone
             \/ stage' = [stage EXCEPT ![c] = "gone"] /\ ctxDone' = ctxDone \cup {c}
        BY <1>6 DEF Authenticate, HandshakeFails, MoveTo
    <2>2. /\ stage'[d] = stage[d] \/ stage'[d] = "serving" \/ (stage'[d] = "gone" /\ d \in ctxDone')
          /\ d \in ctxDone => d \in ctxDone'
        BY <2>1 DEF RemoteInv
    <2> QED
        BY <1>2, <1>6, <2>2 DEF Tied
<1>7. ASSUME NEW c \in Conns, SessionStep(c)
      PROVE  Tied(session'[d], stage'[d], helper'[d], d \in ctxDone')
    <2>1. CASE d = c
        BY <1>7, <2>1, SessionStepTied
    <2>2. CASE d # c
        <3>1. UNCHANGED <<session[d], stage[d], helper[d]>> /\ (d \in ctxDone => d \in ctxDone')
            BY <1>7, <2>2, SessionStepOK, SessionStepTied DEF StepOf
        <3> QED
            BY <1>2, <3>1 DEF Tied
    <2> QED
        BY <2>1, <2>2
<1>8. ASSUME NEW c \in Conns, HelperStep(c), UNCHANGED <<serverVars, session>>
      PROVE  Tied(session'[d], stage'[d], helper'[d], d \in ctxDone')
    <2>1. UNCHANGED <<session, stage, ctxDone>>
        BY <1>8 DEF serverVars, connVars
    <2>2. d # c => helper'[d] = helper[d]
        BY <1>8, HelperStepOK
    <2>3. d = c => session[d].handler = "wait"
        BY <1>2, <1>8, HelperStepOK DEF Running, Tied
    <2> QED
        BY <1>2, <2>1, <2>2, <2>3 DEF Tied
<1>9. CASE StartStep /\ UNCHANGED <<user, helper, session>>
    BY <1>3, <1>9 DEF StartStep, EnsureRSAHostKey, EncodeHostKey, InjectHostKeys, Starting, connVars
<1> QED
    BY <1>3, <1>4, <1>5, <1>6, <1>7, <1>8, <1>9 DEF Next, vars, serverVars, connVars

\* No command outlives its handler, and none a connection without being killed; none is
\* started for a connection that is gone, however late its request is handled.
THEOREM CommandSafe == Spec => []NoOrphanCommand
BY RemoteInvInductive, SessionInvInductive, CommandInvInductive, CommandInvMeans, PTL DEF Spec
=============================================================================
