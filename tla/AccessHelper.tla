----------------------------- MODULE AccessHelper -----------------------------
(***************************************************************************)
(* access-helper, the program that nclet runs in a pseudo terminal for     *)
(* every SSH session: it asks for a node of the topology, or gets one as   *)
(* its argument, and connects its terminal with that node, over SSH or by  *)
(* docker exec.                                                            *)
(*                                                                         *)
(* While a node is accessed over SSH, the terminal is in raw mode, where a *)
(* read returns after a tenth of a second at the latest, and a goroutine,  *)
(* the stdin cloner, copies what is typed to the node.  In canonical mode  *)
(* a read returns when Enter is pressed.  What is typed is abstracted.     *)
(***************************************************************************)
CONSTANTS
    Conns,        \* SSH connections to nclet; each runs at most one access-helper
    Nodes,        \* the nodes of the topology
    AdminOnly,    \* those labelled adminOnly
    ExecNodes,    \* those whose accessMethod is exec; the others have ssh
    NoNode,       \* no node is given
    Users         \* who may connect

ASSUME NodesAssumption == AdminOnly \subseteq Nodes /\ ExecNodes \subseteq Nodes
ASSUME NoNodeAssumption == NoNode \notin Nodes

VARIABLES
    user,         \* who has connected, as parseUser reads it from the user name
    helper        \* the access-helper of each connection

\* parseUser: nc or ncadmin, and perhaps a node.
User == [admin : BOOLEAN, node : Nodes \cup {NoNode}]

ASSUME UsersAssumption == Users \subseteq User

Helper ==
    [main   : {"none", "ask", "access", "raw", "shell", "wait", "drain", "exec", "exited"},
     node   : Nodes \cup {NoNode},             \* the node being accessed
     raw    : BOOLEAN,                         \* the mode of the terminal
     link   : {"none", "open", "closed"},      \* the SSH session with the node
     closed : BOOLEAN,                         \* isConnectionClosed
     cloner : {"none", "check", "read", "write", "done"}]

NotStarted ==
    [main |-> "none", node |-> NoNode, raw |-> FALSE, link |-> "none", closed |-> FALSE,
     cloner |-> "none"]

\* Nothing is left of a process that has ended.
Exited == [NotStarted EXCEPT !.main = "exited"]

Running(c) == helper[c].main \notin {"none", "exited"}

Becomes(c, h) == helper' = [helper EXCEPT ![c] = h] /\ UNCHANGED user

-----------------------------------------------------------------------------
(***************************************************************************)
(* The main goroutine.                                                     *)
(***************************************************************************)

\* run: with a node as its argument it accesses that node, otherwise it asks.
Launched(u) ==
    [NotStarted EXCEPT !.main = IF u.node = NoNode THEN "ask" ELSE "access", !.node = u.node]

\* accessNode has returned: with a node as its argument the program ends.
Back(c) == Becomes(c, IF user[c].node = NoNode THEN Launched(user[c]) ELSE Exited)

\* stdin is no terminal, or the topology file cannot be loaded.
GiveUp(c) ==
    /\ helper[c] = Launched(user[c])
    /\ Becomes(c, Exited)

\* Mutant of Permitted: adminOnly is only honoured by the menu.
PermittedByMenu(u, n) == n \in Nodes

\* "if adminOnly is "true", normal user can't access such node"
Permitted(u, n) == n \in AdminOnly => u.admin

\* askUserForNode: a line that names no visible node is asked for again.
AskUserForNode(c) ==
    /\ helper[c].main = "ask"
    /\ \/ \E n \in Nodes :
            /\ n \in AdminOnly => user[c].admin
            /\ Becomes(c, [helper[c] EXCEPT !.main = "access", !.node = n])
       \/ Becomes(c, Exited)

\* _access of the ssh method up to makeRaw: the node is dialled, a session opened and
\* the terminal put into raw mode.
SSHAccess(h) == [h EXCEPT !.main = "raw", !.raw = TRUE, !.link = "open"]

\* accessNode, and the method of the node up to the point where the user is connected.
AccessNode(c) ==
    /\ helper[c].main = "access"
    /\ \/ Back(c)    \* not permitted, not inspected, not running, not reached, ...
       \/ /\ Permitted(user[c], helper[c].node)
          /\ helper[c].node \in ExecNodes
          /\ Becomes(c, [helper[c] EXCEPT !.main = "exec"])
       \/ /\ Permitted(user[c], helper[c].node)
          /\ helper[c].node \notin ExecNodes
          /\ Becomes(c, SSHAccess(helper[c]))

\* docker exec has ended.
ExecEnds(c) ==
    /\ helper[c].main = "exec"
    /\ Back(c)

\* RequestPty; when it fails, the deferred calls restore the terminal and close
\* the session.  Otherwise the stdin cloner starts.
RequestPty(c) ==
    /\ helper[c].main = "raw"
    /\ \/ Back(c)
       \/ Becomes(c, [helper[c] EXCEPT !.main = "shell", !.cloner = "check"])

\* session.Shell; when it fails, _access returns and the deferred calls begin.
Shell(c) ==
    /\ helper[c].main = "shell"
    /\ \/ Becomes(c, [helper[c] EXCEPT !.main = "wait"])
       \/ Becomes(c, [helper[c] EXCEPT !.main = "drain", !.closed = TRUE])

\* The user leaves the node, or the node goes away.
LinkCloses(c) ==
    /\ helper[c].link = "open"
    /\ Becomes(c, [helper[c] EXCEPT !.link = "closed"])

\* Mutant of WaitReturns: the terminal is restored before the cloner is awaited.
WaitReturnsRestoring(c) ==
    /\ helper[c].main = "wait"
    /\ helper[c].link = "closed"
    /\ Becomes(c, [helper[c] EXCEPT !.main = "drain", !.closed = TRUE, !.raw = FALSE])

\* session.Wait returns; the last of the deferred functions to be registered is
\* the first to run: it tells the cloner to stop and waits for it.
WaitReturns(c) ==
    /\ helper[c].main = "wait"
    /\ helper[c].link = "closed"
    /\ Becomes(c, [helper[c] EXCEPT !.main = "drain", !.closed = TRUE])

\* Mutant of Drained: the cloner is told to stop, but not awaited.
DrainedAtOnce(c) ==
    /\ helper[c].main = "drain"
    /\ IF user[c].node = NoNode
       THEN Becomes(c, [Launched(user[c]) EXCEPT !.cloner = helper[c].cloner])
       ELSE Becomes(c, Exited)

\* stdinClonerDone.Wait returns, and the other deferred calls follow: the signal
\* handler stops, the terminal is restored, the session and the client are closed.
Drained(c) ==
    /\ helper[c].main = "drain"
    /\ helper[c].cloner = "done"
    /\ Back(c)

-----------------------------------------------------------------------------
(***************************************************************************)
(* The stdin cloner.  isConnectionClosed is read without synchronisation;  *)
(* the loop makes a system call between two reads of it, so that it reads  *)
(* the variable itself each time.                                          *)
(***************************************************************************)
ClonerChecks(c) ==
    /\ helper[c].cloner = "check"
    /\ Becomes(c, [helper[c] EXCEPT !.cloner = IF helper[c].closed THEN "done" ELSE "read"])

\* os.Stdin.Read returns nothing, or what was typed, or an error.  It does so soon
\* in raw mode only.
ClonerReads(c) ==
    /\ helper[c].cloner = "read"
    /\ helper[c].raw
    /\ \E next \in {"check", "write", "done"} :
           Becomes(c, [helper[c] EXCEPT !.cloner = next])

\* stdinPipe.Write fails once the session is closed.
ClonerWrites(c) ==
    /\ helper[c].cloner = "write"
    /\ Becomes(c, [helper[c] EXCEPT
                      !.cloner = IF helper[c].link = "open" THEN "check" ELSE "done"])

\* What the two goroutines do without waiting for the user.
MainProceeds(c) == RequestPty(c) \/ Shell(c) \/ WaitReturns(c) \/ Drained(c)
ClonerProceeds(c) == ClonerChecks(c) \/ ClonerReads(c) \/ ClonerWrites(c)

HelperStep(c) ==
    \/ GiveUp(c) \/ AskUserForNode(c) \/ AccessNode(c) \/ ExecEnds(c) \/ LinkCloses(c)
    \/ MainProceeds(c) \/ ClonerProceeds(c)
=============================================================================
