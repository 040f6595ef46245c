---------------------------- MODULE DaemonControl ----------------------------
(***************************************************************************)
(* The control endpoint of the per-user daemon (daemonctl): processes of   *)
(* one user that start it, stop it, crash and ask for it share two files,  *)
(* the control token and the Unix socket whose binding is the              *)
(* single-instance lock.  Each system call on one of them is a step.       *)
(*                                                                         *)
(* A socket file belongs to the process that bound it, and is stale once   *)
(* that process is gone.  A probe that times out although a daemon listens *)
(* (400 ms) is left out, and so is the Windows transport.                  *)
(***************************************************************************)
EXTENDS Naturals, FiniteSets

CONSTANTS
  Proc,        \* processes that run Listen
  Client,      \* processes that only ask a daemon something (Query, Call)
  Token,       \* control tokens: 32 random bytes, so a new one is like no other
  NoToken,     \* no token file, or an empty one
  NoSock,      \* no file at the socket's path
  Stale,       \* a socket file nobody listens on, whose owner is gone
  Overlap,     \* may starts, stops and first uses of the token overlap?
  MaxCrashes,  \* bound: processes that crash
  MaxCloses    \* bound: daemons that are stopped

ASSUME NameAssumption ==
  /\ Proc \cap Client = {}
  /\ NoSock \notin Proc /\ Stale \notin Proc /\ NoSock # Stale
  /\ NoToken \notin Token
ASSUME BoundAssumption == MaxCrashes \in Nat /\ MaxCloses \in Nat
ASSUME OverlapAssumption == Overlap \in BOOLEAN

VARIABLES
  status,     \* where each process is
  tok,        \* the token each has loaded: controlServer.token
  tokenFile,  \* the token file
  sock,       \* the socket's path: its file's owner
  crashes, closes

daemonVars == <<status, tok, tokenFile, sock, crashes, closes>>

Everyone == Proc \cup Client
Loading == {"load", "create", "write"}
Binding == {"bind", "probe", "remove", "rebind", "bound"}

Serving(p) == status[p] = "serving"

\* A process that at most reads a token that is there.
Quiet(p) ==
  \/ status[p] \in {"off", "serving"}
  \/ p \in Client /\ status[p] = "load" /\ tokenFile # NoToken

\* Unless Overlap, a process starts or stops while no other one is doing so; a query
\* may come at any time once there is a token.
Alone(p) ==
  \/ Overlap
  \/ p \in Client /\ tokenFile # NoToken
  \/ \A q \in Everyone \ {p} : Quiet(q)

Become(p, at) == status' = [status EXCEPT ![p] = at]

\* Listen returns an error, a query is over, a daemon has ended.
Leave(p) == Become(p, "off") /\ tok' = [tok EXCEPT ![p] = NoToken]

\* LoadOrCreateToken returns t.
Loaded(p, t) ==
  IF p \in Client THEN Leave(p)
                  ELSE Become(p, "bind") /\ tok' = [tok EXCEPT ![p] = t]

-----------------------------------------------------------------------------
DaemonInit ==
  /\ status = [p \in Everyone |-> "off"]
  /\ tok = [p \in Everyone |-> NoToken]
  /\ tokenFile \in Token \cup {NoToken}
  /\ sock \in {NoSock, Stale}
  /\ crashes = 0 /\ closes = 0

Start(p) ==
  /\ status[p] = "off"
  /\ Alone(p)
  /\ Become(p, "load")
  /\ UNCHANGED <<tok, tokenFile, sock, crashes, closes>>

-----------------------------------------------------------------------------
(* LoadOrCreateToken.                                                      *)

\* A mutant of Load: the token is made anew every time.
LoadNothing(p) ==
  /\ status[p] = "load"
  /\ Become(p, "create") /\ tok' = tok
  /\ UNCHANGED <<tokenFile, sock, crashes, closes>>

\* os.ReadFile.
Load(p) ==
  /\ status[p] = "load"
  /\ IF tokenFile = NoToken THEN Become(p, "create") /\ tok' = tok
                            ELSE Loaded(p, tokenFile)
  /\ UNCHANGED <<tokenFile, sock, crashes, closes>>

\* os.WriteFile: the file is created or truncated, and written.
Create(p) ==
  /\ status[p] = "create"
  /\ tokenFile' = NoToken
  /\ Become(p, "write")
  /\ UNCHANGED <<tok, sock, crashes, closes>>

Write(p) ==
  /\ status[p] = "write"
  /\ \E t \in Token \ ({tokenFile} \cup {tok[q] : q \in Everyone}) :
       tokenFile' = t /\ Loaded(p, t)
  /\ UNCHANGED <<sock, crashes, closes>>

-----------------------------------------------------------------------------
(* bindControl and Close.                                                  *)

\* net.Listen binds the path, or finds a file there.
Bind(p) ==
  /\ status[p] = "bind"
  /\ IF sock = NoSock THEN sock' = p /\ Become(p, "bound")
                      ELSE sock' = sock /\ Become(p, "probe")
  /\ UNCHANGED <<tok, tokenFile, crashes, closes>>

\* Then it listens.  Until it does, a connection to the path is refused.
Listen(p) ==
  /\ status[p] = "bound"
  /\ Become(p, "serving")
  /\ UNCHANGED <<tok, tokenFile, sock, crashes, closes>>

\* A mutant of Probe: whoever does not listen yet, or no more, answers.
ProbeTrusting(p) ==
  /\ status[p] = "probe"
  /\ IF sock # NoSock THEN Leave(p) ELSE Become(p, "remove") /\ tok' = tok
  /\ UNCHANGED <<tokenFile, sock, crashes, closes>>

\* A mutant of Probe: the socket that is in the way is taken for stale.
ProbeNobody(p) ==
  /\ status[p] = "probe"
  /\ Become(p, "remove")
  /\ UNCHANGED <<tok, tokenFile, sock, crashes, closes>>

\* The connection to the socket that is in the way: ErrAlreadyRunning if somebody
\* accepts it.
Probe(p) ==
  /\ status[p] = "probe"
  /\ IF sock \in Proc /\ Serving(sock) THEN Leave(p)
                                       ELSE Become(p, "remove") /\ tok' = tok
  /\ UNCHANGED <<tokenFile, sock, crashes, closes>>

\* os.Remove takes what is at the path now.
Remove(p) ==
  /\ status[p] = "remove"
  /\ sock' = NoSock
  /\ Become(p, "rebind")
  /\ UNCHANGED <<tok, tokenFile, crashes, closes>>

\* The second net.Listen is not tried again.
Rebind(p) ==
  /\ status[p] = "rebind"
  /\ IF sock = NoSock THEN sock' = p /\ Become(p, "bound") /\ tok' = tok
                      ELSE sock' = sock /\ Leave(p)
  /\ UNCHANGED <<tokenFile, crashes, closes>>

\* controlServer.Close: ln.Close removes the path's file before it closes the
\* listener, and release removes it once more.
Close(p) ==
  /\ Serving(p) /\ Alone(p)
  /\ closes < MaxCloses
  /\ closes' = closes + 1
  /\ sock' = NoSock
  /\ Become(p, "unlinked")
  /\ UNCHANGED <<tok, tokenFile, crashes>>

ReleaseLock(p) ==
  /\ status[p] = "unlinked"
  /\ sock' = NoSock
  /\ Leave(p)
  /\ UNCHANGED <<tokenFile, crashes, closes>>

\* A process is killed; its socket file stays.
Crash(p) ==
  /\ status[p] # "off"
  /\ crashes < MaxCrashes
  /\ crashes' = crashes + 1
  /\ sock' = IF sock = p THEN Stale ELSE sock
  /\ Leave(p)
  /\ UNCHANGED <<tokenFile, closes>>

Step(p) ==
  \/ Load(p) \/ Create(p) \/ Write(p)
  \/ Bind(p) \/ Listen(p) \/ Probe(p) \/ Remove(p) \/ Rebind(p) \/ ReleaseLock(p)

DaemonNext == \E p \in Everyone : Start(p) \/ Step(p) \/ Close(p) \/ Crash(p)

DaemonSpec == DaemonInit /\ [][DaemonNext]_daemonVars

\* A process that runs makes its next system call, and the daemon is started again
\* whenever it ends (by the user, or by the service manager).
FairDaemon ==
  /\ DaemonSpec
  /\ \A p \in Everyone : WF_daemonVars(Step(p))
  /\ \A p \in Proc : SF_daemonVars(Start(p))

-----------------------------------------------------------------------------
(* Properties.                                                             *)

\* Every variable stays in its range, and a process that binds or serves has a
\* token: an empty one would let everybody in.
DaemonTypeOK ==
  /\ status \in [Everyone -> Loading \cup Binding \cup {"off", "serving", "unlinked"}]
  /\ tok \in [Everyone -> Token \cup {NoToken}]
  /\ \A p \in Everyone : status[p] \in Binding \cup {"serving", "unlinked"} => tok[p] \in Token
  /\ tokenFile \in Token \cup {NoToken}
  /\ sock \in Proc \cup {NoSock, Stale}
  /\ crashes \in Nat /\ closes \in Nat

\* "Binding the endpoint is the single-instance lock": no two processes serve.
SingleInstance == \A p, q \in Everyone : Serving(p) /\ Serving(q) => p = q

\* A daemon that serves can be asked: whoever asks finds its socket at the path and
\* its token in the file (Running and OwnsReceiver answer yes).
Reachable == \A p \in Everyone : Serving(p) => sock = p /\ tokenFile = tok[p]

\* Whatever a crash leaves behind, at any step, a daemon comes to serve again.
ServedAgain == []<>(\E p \in Proc : Serving(p))
=============================================================================
