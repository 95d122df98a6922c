------------------------------- MODULE SSHServer -------------------------------
(***************************************************************************)
(* The SSH server of nclet: nclet's Start, which prepares the host key and *)
(* checks passwords, and the part of the library in internal/ssh that      *)
(* accepts connections and handles each in a goroutine of its own.         *)
(*                                                                         *)
(* net and x/crypto/ssh are not part of this repository: the listener      *)
(* accepts, and NewServerConn returns after the client has been            *)
(* authenticated, or fails.  What the library keeps for Close and Shutdown *)
(* (srv.conns, the WaitGroups, doneChan) is left out, because nothing      *)
(* calls these two.                                                        *)
(***************************************************************************)
EXTENDS AccessHelper

CONSTANTS
    HostKeys,     \* what rsa.GenerateKey may return
    Events        \* whether "crash" may happen

ASSUME HostKeysAssumption == {"absent", "empty"} \cap HostKeys = {}

VARIABLES
    keyFile,      \* data/ssh_host_rsa_key: "absent", "empty", or the key in it
    serve,        \* where Start is
    stage,        \* where HandleConn is, for each connection
    stream,       \* the TCP connection below it
    ctxDone       \* the connections whose context is cancelled

connVars == <<stage, stream, ctxDone>>
serverVars == <<keyFile, serve, connVars>>

ServerTypeOK ==
    /\ keyFile \in {"absent", "empty"} \cup HostKeys
    /\ serve \in {"down", "keygen", "load", "accept"}
    /\ stage \in [Conns -> {"absent", "handshake", "serving", "gone"}]
    /\ stream \in [Conns -> {"none", "open", "eof", "lost", "closed"}]
    /\ ctxDone \subseteq Conns

ServerInit ==
    /\ keyFile = "absent"
    /\ serve = "down"
    /\ stage = [c \in Conns |-> "absent"]
    /\ stream = [c \in Conns |-> "none"]
    /\ ctxDone = {}

-----------------------------------------------------------------------------
(***************************************************************************)
(* Start.                                                                  *)
(***************************************************************************)
Starting(from, to) == serve = from /\ serve' = to /\ UNCHANGED connVars

\* Mutant of EnsureRSAHostKey: a new key at every start.
EnsureRSAHostKeyAnew == Starting("down", "keygen") /\ keyFile' = "empty"

\* ensureRSAHostKey: nothing to do if the file exists; otherwise it is created first ...
EnsureRSAHostKey ==
    IF keyFile # "absent"
    THEN Starting("down", "load") /\ UNCHANGED keyFile
    ELSE Starting("down", "keygen") /\ keyFile' = "empty"

\* ... and the key written into it afterwards.  Where that fails, nclet ends, as in a crash.
EncodeHostKey == Starting("keygen", "load") /\ keyFile' \in HostKeys

\* injectHostKeys and ListenAndServe.  A file that holds no key ends Start with an
\* error, and with it nclet, which is started again.
InjectHostKeys ==
    /\ \/ keyFile \in HostKeys /\ Starting("load", "accept")
       \/ keyFile \notin HostKeys /\ Starting("load", "down")
    /\ UNCHANGED keyFile

-----------------------------------------------------------------------------
(***************************************************************************)
(* Serve and HandleConn.                                                   *)
(***************************************************************************)
MoveTo(c, from, to) ==
    /\ stage[c] = from /\ stage' = [stage EXCEPT ![c] = to]
    /\ UNCHANGED <<keyFile, serve>>

\* A client connects, and Serve starts HandleConn on the connection.  The user name is
\* known from the start here.  A temporary error of Accept changes nothing.
Connect(c) ==
    /\ serve = "accept"
    /\ MoveTo(c, "absent", "handshake")
    /\ stream' = [stream EXCEPT ![c] = "open"]
    /\ user' \in {[user EXCEPT ![c] = u] : u \in Users}
    /\ UNCHANGED <<ctxDone, helper>>

\* handlePasswordAuthentication: an administrator has a password of their own; a
\* participant needs that of the environment, which nclet's cache must show assigned.
PasswordAccepted(u, password, environment) ==
    IF u.admin
    THEN password = "admin"
    ELSE environment = "assigned" /\ password = "environment"

\* NewServerConn returns with the client authenticated; a refused password may be
\* tried again and changes nothing.
Authenticate(c) ==
    /\ stream[c] = "open"
    /\ \E password \in {"admin", "environment", "other"},
          environment \in {"missing", "unassigned", "assigned"} :
           PasswordAccepted(user[c], password, environment)
    /\ MoveTo(c, "handshake", "serving")
    /\ UNCHANGED <<stream, ctxDone>>

\* NewServerConn fails: too many attempts, or the stream ended.
HandshakeFails(c) ==
    /\ MoveTo(c, "handshake", "gone")
    /\ stream' = [stream EXCEPT ![c] = "closed"]
    /\ ctxDone' = ctxDone \cup {c}

\* Mutant of HandleConnReturns: the context is only cancelled by failing reads and writes.
HandleConnReturnsQuietly(c) ==
    /\ MoveTo(c, "serving", "gone")
    /\ stream' = [stream EXCEPT ![c] = "closed"]
    /\ UNCHANGED ctxDone

\* The deferred conn.Close closes the stream and cancels the context.
HandleConnReturns(c) ==
    /\ MoveTo(c, "serving", "gone")
    /\ stream' = [stream EXCEPT ![c] = "closed"]
    /\ ctxDone' = ctxDone \cup {c}

StartStep == EnsureRSAHostKey \/ EncodeHostKey \/ InjectHostKeys
=============================================================================
