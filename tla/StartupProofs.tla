---------------------------- MODULE StartupProofs ----------------------------
(* What the start of a command and of the processes behind it promises, for *)
(* any number of commands, paths, edits and processes: the search for a     *)
(* configuration file (Config), and the socket path under both that use it, *)
(* the daemon (DaemonStart) and the IPC server of the remote process (Ipc). *)
EXTENDS Config, DaemonStart, Ipc, TLAPS

-----------------------------------------------------------------------------
(* The search for a configuration file.                                    *)

\* A command in progress is a record, and its path is one of the search.
IsCommand(i) ==
    /\ i = [at |-> i.at, explicit |-> i.explicit, path |-> i.path,
            config |-> i.config, does |-> i.does]
    /\ i.at \in {"exists", "read", "loaded", "runs", "saving"}
    /\ i.path \in 1..(MaxPath + 1)
    /\ i.at \in {"exists", "read", "saving"} => i.path \in FallbackPath

\* A search has passed over none of the paths in s; config init leaves its search.
Ahead(i, s) == i.at # "saving" /\ ~i.explicit => \A p \in s : i.path <= p

\* What holds of a command i that has seen the files at s steady.
Sound(i, s) ==
    i # Nothing => IsCommand(i) /\ Ahead(i, s) /\ (i.at = "runs" => Validates(i.config))

\* The inductive invariant: what is steady is whole now, and every command is sound.
SearchInv ==
    /\ files = [p \in FallbackPath |-> files[p]]
    /\ invoked = [c \in Invocation |-> invoked[c]]
    /\ steady \in [Invocation -> SUBSET FallbackPath]
    /\ \A c \in Invocation : steady[c] \subseteq Whole(files) /\ Sound(invoked[c], steady[c])

\* What an update of a command's record leaves alone.
LEMMA Fields ==
    ASSUME NEW i, IsCommand(i), NEW a, NEW v
    PROVE  /\ [i EXCEPT !.at = a, !.config = v]
                  = [at |-> a, explicit |-> i.explicit, path |-> i.path,
                     config |-> v, does |-> i.does]
           /\ [i EXCEPT !.at = a, !.path = v]
                  = [at |-> a, explicit |-> i.explicit, path |-> v,
                     config |-> i.config, does |-> i.does]
<1>1. /\ i = [at |-> i.at, explicit |-> i.explicit, path |-> i.path,
               config |-> i.config, does |-> i.does]
      /\ DOMAIN i = {"at", "explicit", "path", "config", "does"}
  BY DEF IsCommand
<1> DEFINE h == [at |-> a, explicit |-> i.explicit, path |-> i.path,
                 config |-> i.config, does |-> i.does]
<1>2. [i EXCEPT !.at = a] = h
  BY <1>1
<1>3. [h EXCEPT !.config = v] = [at |-> a, explicit |-> i.explicit, path |-> i.path,
                                 config |-> v, does |-> i.does]
  OBVIOUS
<1>4. [h EXCEPT !.path = v] = [at |-> a, explicit |-> i.explicit, path |-> v,
                               config |-> i.config, does |-> i.does]
  OBVIOUS
<1> HIDE DEF h
<1> QED
  BY <1>2, <1>3, <1>4

\* Nothing runs in an initial state.
LEMMA SearchInit == ConfigInit => SearchInv
BY DEF ConfigInit, SearchInv, Sound

\* A step of one command that writes no file needs to be looked at for that command only.
LEMMA OneMoves ==
    ASSUME SearchInv, NEW c \in Invocation, NEW i, NEW s \in SUBSET FallbackPath,
           files' = files, invoked' = [invoked EXCEPT ![c] = i],
           steady' = [steady EXCEPT ![c] = s], s \subseteq Whole(files), Sound(i, s)
    PROVE  SearchInv'
<1>1. /\ files' = [p \in FallbackPath |-> files'[p]]
      /\ invoked' = [d \in Invocation |-> invoked'[d]]
      /\ steady' \in [Invocation -> SUBSET FallbackPath]
  BY DEF SearchInv
<1>2. Whole(files') = Whole(files)
  OBVIOUS
<1>3. ASSUME NEW d \in Invocation
      PROVE  steady'[d] \subseteq Whole(files') /\ Sound(invoked'[d], steady'[d])
  <2>1. CASE d = c
    <3>1. invoked'[d] = i /\ steady'[d] = s
      BY <2>1 DEF SearchInv
    <3> QED
      BY <1>2, <3>1
  <2>2. CASE d # c
    <3>1. invoked'[d] = invoked[d] /\ steady'[d] = steady[d]
      BY <2>2 DEF SearchInv
    <3> QED
      BY <1>2, <3>1 DEF SearchInv
  <2> QED
    BY <2>1, <2>2
<1> QED
  BY <1>1, <1>3 DEF SearchInv

\* A command that ends takes its duties with it.
LEMMA OneEnds ==
    ASSUME SearchInv, NEW c \in Invocation, files' = files, Ends(c)
    PROVE  SearchInv'
<1>1. Sound(Nothing, {}) /\ {} \subseteq Whole(files) /\ {} \in SUBSET FallbackPath
  BY DEF Sound
<1> QED
  BY <1>1, OneMoves DEF Ends, GoOn

\* A command that goes on with what it saw steady.
LEMMA OneGoesOn ==
    ASSUME SearchInv, NEW c \in Invocation, NEW i, files' = files, GoOn(c, i),
           steady' = steady, Sound(i, steady[c])
    PROVE  SearchInv'
<1>1. steady' = [steady EXCEPT ![c] = steady[c]] /\ steady[c] \in SUBSET FallbackPath
  BY DEF SearchInv
<1>2. steady[c] \subseteq Whole(files)
  BY DEF SearchInv
<1> QED
  BY <1>1, <1>2, OneMoves DEF GoOn

\* A path that does not parse was not steady, so the search may leave it behind.
LEMMA PassOver ==
    ASSUME SearchInv, NEW c \in Invocation, invoked[c] # Nothing,
           invoked[c].at \in {"exists", "read"}, ~Parses(files[invoked[c].path])
    PROVE  Sound(NextPath(invoked[c]), steady[c])
<1> DEFINE i == invoked[c]
           n == NextPath(i)
<1>1. IsCommand(i) /\ Ahead(i, steady[c]) /\ steady[c] \subseteq Whole(files)
  BY DEF SearchInv, Sound
<1>2. i.path \in FallbackPath /\ i.path \notin steady[c] /\ steady[c] \subseteq FallbackPath
  BY <1>1 DEF IsCommand, Whole
<1>3. ~i.explicit => \A p \in steady[c] : i.path + 1 <= p /\ p <= MaxPath
  BY <1>1, <1>2, ConfigAssumption DEF Ahead, FallbackPath
<1>4. CASE i.path < MaxPath
  <2>1. n = [at |-> "exists", explicit |-> i.explicit, path |-> i.path + 1,
             config |-> i.config, does |-> i.does]
    BY <1>1, <1>4 DEF NextPath, IsCommand
  <2>2. i.path + 1 \in FallbackPath /\ i.path + 1 \in 1..(MaxPath + 1)
    BY <1>2, <1>4, ConfigAssumption DEF FallbackPath
  <2> HIDE DEF n
  <2> QED
    BY <1>3, <2>1, <2>2 DEF Sound, IsCommand, Ahead, n
<1>5. CASE ~(i.path < MaxPath)
  <2>1. n = [at |-> "loaded", explicit |-> i.explicit, path |-> MaxPath + 1,
             config |-> i.config, does |-> i.does]
    BY <1>1, <1>5 DEF NextPath, IsCommand
  <2>2. MaxPath + 1 \in 1..(MaxPath + 1)
    BY ConfigAssumption
  <2>3. ~i.explicit => \A p \in steady[c] : MaxPath + 1 <= p
    BY <1>2, <1>3, <1>5, ConfigAssumption DEF FallbackPath
  <2> HIDE DEF n
  <2> QED
    BY <2>1, <2>2, <2>3 DEF Sound, IsCommand, Ahead, n
<1> QED
  BY <1>4, <1>5

\* A write to a file takes from what is steady, never adds to it.
LEMMA WriteKeeps ==
    ASSUME SearchInv, NEW p \in FallbackPath, NEW content, WriteFile(p, content),
           invoked' = [c \in Invocation |-> invoked'[c]],
           \A c \in Invocation : Sound(invoked'[c], steady[c])
    PROVE  SearchInv'
<1>1. /\ files' = [q \in FallbackPath |-> files'[q]]
      /\ steady' \in [Invocation -> SUBSET FallbackPath]
  BY DEF SearchInv, WriteFile
<1>2. ASSUME NEW c \in Invocation
      PROVE  steady'[c] \subseteq Whole(files') /\ Sound(invoked'[c], steady'[c])
  <2>1. steady'[c] = steady[c] \cap Whole(files')
    BY DEF WriteFile
  <2> QED
    BY <2>1 DEF Sound, Ahead
<1> QED
  BY <1>1, <1>2 DEF SearchInv

\* The search keeps the invariant, whatever users and other commands write meanwhile.
LEMMA SearchStep == SearchInv /\ [ConfigNext]_configVars => SearchInv'
<1> SUFFICES ASSUME SearchInv, [ConfigNext]_configVars PROVE SearchInv'
  OBVIOUS
<1> USE DEF In
<1>1. ASSUME NEW c \in Invocation, NEW does \in {"other", "profile", "init"},
             NEW p \in 0..MaxPath, Invoke(c, does, p)
      PROVE  SearchInv'
  <2> DEFINE i == [at |-> IF p = 0 THEN "exists" ELSE "read", explicit |-> p # 0,
                   path |-> IF p = 0 THEN 1 ELSE p, config |-> DefaultConfig, does |-> does]
  <2>1. /\ files' = files /\ invoked' = [invoked EXCEPT ![c] = i]
        /\ steady' = [steady EXCEPT ![c] = Whole(files)]
    BY <1>1 DEF Invoke, GoOn
  <2>2. Whole(files) \subseteq FallbackPath
    BY DEF Whole
  <2>3. Sound(i, Whole(files))
    <3>1. CASE p = 0
      <4>1. i = [at |-> "exists", explicit |-> FALSE, path |-> 1,
                 config |-> DefaultConfig, does |-> does]
        BY <3>1
      <4> HIDE DEF i
      <4> QED
        BY <2>2, <4>1, ConfigAssumption DEF Sound, IsCommand, Ahead, FallbackPath
    <3>2. CASE p # 0
      <4>1. i = [at |-> "read", explicit |-> TRUE, path |-> p,
                 config |-> DefaultConfig, does |-> does]
        BY <3>2
      <4> HIDE DEF i
      <4> QED
        BY <3>2, <4>1, ConfigAssumption DEF Sound, IsCommand, Ahead, FallbackPath
    <3> QED
      BY <3>1, <3>2
  <2> QED
    BY <2>1, <2>2, <2>3, OneMoves
<1>2. ASSUME NEW c \in Invocation, LookForFile(c) PROVE SearchInv'
  <2>1. /\ files' = files /\ steady' = steady /\ invoked[c] # Nothing
        /\ invoked[c].at = "exists" /\ Sound(invoked[c], steady[c])
    BY <1>2 DEF LookForFile, SearchInv
  <2>2. CASE files[invoked[c].path] # Absent
    <3>1. GoOn(c, [invoked[c] EXCEPT !.at = "read"])
      BY <1>2, <2>2 DEF LookForFile
    <3>2. Sound([invoked[c] EXCEPT !.at = "read"], steady[c])
      BY <2>1 DEF Sound, IsCommand, Ahead
    <3> QED
      BY <2>1, <3>1, <3>2, OneGoesOn
  <2>3. CASE files[invoked[c].path] = Absent
    <3>1. GoOn(c, NextPath(invoked[c]))
      BY <1>2, <2>3 DEF LookForFile
    <3> QED
      BY <2>1, <2>3, <3>1, PassOver, OneGoesOn DEF Parses
  <2> QED
    BY <2>2, <2>3
<1>3. ASSUME NEW c \in Invocation, LoadFromFile(c) PROVE SearchInv'
  <2>1. /\ files' = files /\ invoked[c] # Nothing
        /\ invoked[c].at = "read" /\ Sound(invoked[c], steady[c])
    BY <1>3 DEF LoadFromFile, SearchInv
  <2> DEFINE r == [invoked[c] EXCEPT !.at = "loaded", !.config = files[invoked[c].path]]
  <2>2. CASE GoOn(c, r) /\ steady' = steady
    <3>1. r = [at |-> "loaded", explicit |-> invoked[c].explicit, path |-> invoked[c].path,
               config |-> files[invoked[c].path], does |-> invoked[c].does]
      BY <2>1, Fields DEF Sound
    <3> HIDE DEF r
    <3>2. Sound(r, steady[c])
      BY <2>1, <3>1 DEF Sound, IsCommand, Ahead
    <3> QED
      BY <2>1, <2>2, <3>2, OneGoesOn
  <2>3. CASE Ends(c)
    BY <2>1, <2>3, OneEnds
  <2>4. CASE ~Parses(files[invoked[c].path]) /\ GoOn(c, NextPath(invoked[c])) /\ steady' = steady
    BY <2>1, <2>4, PassOver, OneGoesOn
  <2> QED
    BY <1>3, <2>2, <2>3, <2>4 DEF LoadFromFile
<1>4. ASSUME NEW c \in Invocation, MergeAndValidate(c) PROVE SearchInv'
  <2> DEFINE merged == MergeWithEnv(invoked[c].config)
             r == [invoked[c] EXCEPT !.at = "runs", !.config = merged]
  <2>1. /\ files' = files /\ invoked[c] # Nothing
        /\ invoked[c].at = "loaded" /\ Sound(invoked[c], steady[c])
    BY <1>4 DEF MergeAndValidate, SearchInv
  <2>2. CASE Validates(merged) /\ GoOn(c, r) /\ steady' = steady
    <3> HIDE DEF merged
    <3>1. r = [at |-> "runs", explicit |-> invoked[c].explicit, path |-> invoked[c].path,
               config |-> merged, does |-> invoked[c].does]
      BY <2>1, Fields DEF Sound
    <3> HIDE DEF r
    <3>2. Sound(r, steady[c])
      BY <2>1, <2>2, <3>1 DEF Sound, IsCommand, Ahead
    <3> QED
      BY <2>1, <2>2, <3>2, OneGoesOn
  <2>3. CASE Ends(c)
    BY <2>1, <2>3, OneEnds
  <2> QED
    BY <1>4, <2>2, <2>3 DEF MergeAndValidate
<1>5. ASSUME NEW c \in Invocation, RunsCommand(c) \/ NoProfile(c) \/ Killed(c) PROVE SearchInv'
  BY <1>5, OneEnds DEF RunsCommand, NoProfile, Killed
<1>6. ASSUME NEW c \in Invocation, NEW p \in FallbackPath, InitTruncates(c, p) PROVE SearchInv'
  <2> DEFINE r == [invoked[c] EXCEPT !.at = "saving", !.path = p]
  <2>1. /\ invoked[c] # Nothing /\ Sound(invoked[c], steady[c])
        /\ invoked' = [invoked EXCEPT ![c] = r] /\ WriteFile(p, Broken)
    BY <1>6 DEF InitTruncates, SearchInv, GoOn
  <2>2. p \in 1..(MaxPath + 1)
    BY ConfigAssumption DEF FallbackPath
  <2>3. Sound(r, steady[c])
    <3>1. r = [at |-> "saving", explicit |-> invoked[c].explicit, path |-> p,
               config |-> invoked[c].config, does |-> invoked[c].does]
      BY <2>1, Fields DEF Sound
    <3> HIDE DEF r
    <3> QED
      BY <2>2, <3>1 DEF Sound, IsCommand, Ahead
  <2>4. \A d \in Invocation : Sound(invoked'[d], steady[d])
    BY <2>1, <2>3 DEF SearchInv
  <2> QED
    BY <2>1, <2>4, WriteKeeps DEF SearchInv
<1>7. ASSUME NEW c \in Invocation, InitWrites(c) PROVE SearchInv'
  <2>1. invoked[c] # Nothing /\ invoked[c].at = "saving" /\ Sound(invoked[c], steady[c])
        /\ invoked' = [invoked EXCEPT ![c] = Nothing]
        /\ WriteFile(invoked[c].path, DefaultConfig)
    BY <1>7 DEF InitWrites, SearchInv, GoOn
  <2>2. \A d \in Invocation : Sound(invoked'[d], steady[d])
    BY <2>1 DEF SearchInv, Sound
  <2>3. invoked[c].path \in FallbackPath
    BY <2>1 DEF Sound, IsCommand
  <2> QED
    BY <2>1, <2>2, <2>3, WriteKeeps DEF SearchInv
<1>8. ASSUME NEW p \in FallbackPath, EditFile(p) PROVE SearchInv'
  BY <1>8, WriteKeeps DEF EditFile, SearchInv
<1>9. CASE UNCHANGED configVars
  BY <1>9 DEF configVars, SearchInv, Whole
<1> QED
  BY <1>1, <1>2, <1>3, <1>4, <1>5, <1>6, <1>7, <1>8, <1>9 DEF ConfigNext, InvocationStep

\* Of the fallback paths, the first file that was whole while a command searched is
\* never passed over (load_with_fallback), and no command runs with numbers that
\* validate would refuse, for any number of commands, paths and concurrent writes.
THEOREM FirstSteadyAlwaysWins == ConfigSpec => []FirstSteadyWins
<1>1. SearchInv => FirstSteadyWins
  BY DEF SearchInv, FirstSteadyWins, Sound, Ahead, In
<1> QED
  BY <1>1, SearchInit, SearchStep, PTL DEF ConfigSpec

-----------------------------------------------------------------------------
(* The socket path.  Whatever else its two users do, a step of theirs does *)
(* one of three things to the socket: it begins a start, it goes on with   *)
(* one, or it takes a process towards its end.                             *)

Ended == {"stopping", "exiting", "closed", "gone"}

\* A process that has been started is on its way out.  Nobody but a daemon
\* that exits touches the file then.
Leaves(p) ==
    /\ server[p] # "off"
    /\ \E phase \in Ended : server' = [server EXCEPT ![p] = phase]
    /\ \/ UNCHANGED <<socket_file, contended>>
       \/ socket_file' = None /\ contended' = contended \cup Starting

SocketNext == \E p \in Process : Spawn(p) \/ StartStep(p) \/ Leaves(p)

\* Every step of the daemons and of the commands that use them is a step of the
\* socket or leaves it alone.
LEMMA StartIsSocketStep ==
    ASSUME SocketTypeOK, [StartNext]_startVars PROVE [SocketNext]_socketVars
<1> USE DEF SocketNext, socketVars
<1>1. ASSUME NEW c \in Cli, NEW phase, Connects(c, phase) PROVE [SocketNext]_socketVars
  <2>1. PICK p \in Reachable : server' = [server EXCEPT ![p] = IF @ = "stopping" THEN "exiting" ELSE @]
    BY <1>1 DEF Connects
  <2>2. UNCHANGED <<socket_file, contended>> /\ p \in Process /\ server[p] # "off"
    BY <1>1 DEF Connects, Reachable, Listening
  <2>3. CASE server[p] = "stopping"
    BY <2>1, <2>2, <2>3 DEF Leaves, Ended
  <2>4. CASE server[p] # "stopping"
    BY <2>1, <2>2, <2>4 DEF SocketTypeOK
  <2> QED
    BY <2>3, <2>4
<1>2. ASSUME NEW c \in Cli, EnsureDaemonRunning(c) PROVE UNCHANGED socketVars
  BY <1>2 DEF EnsureDaemonRunning
<1>3. ASSUME NEW c \in Cli, DaemonActionStart(c) PROVE [SocketNext]_socketVars
  BY <1>3 DEF DaemonActionStart
<1>4. ASSUME NEW c \in Cli, DaemonActionStop(c) PROVE [SocketNext]_socketVars
  BY <1>1, <1>4 DEF DaemonActionStop
<1>5. ASSUME NEW c \in Cli, DaemonActionAsk(c) PROVE [SocketNext]_socketVars
  BY <1>1, <1>5 DEF DaemonActionAsk
<1>6. ASSUME NEW c \in Cli, CliStep(c) PROVE [SocketNext]_socketVars
  <2>1. CASE Probe(c)
    BY <1>1, <2>1 DEF Probe
  <2>2. CASE Verify(c)
    BY <1>1, <2>2 DEF Verify
  <2>3. CASE Ping(c)
    BY <2>3 DEF Ping
  <2>4. CASE ConnectForSession(c)
    BY <1>1, <2>4 DEF ConnectForSession
  <2>5. CASE RequestOfSession(c)
    BY <2>5 DEF RequestOfSession
  <2>6. CASE RequestShutdown(c)
    <3>1. UNCHANGED <<socket_file, contended>>
      BY <2>6 DEF RequestShutdown
    <3>2. CASE Lost(c) /\ UNCHANGED server
      BY <3>1, <3>2
    <3>3. CASE /\ Answered(c)
               /\ server' = [server EXCEPT ![conn[c]] = IF @ = "serving" THEN "stopping" ELSE @]
      <4>1. conn[c] \in Process /\ server[conn[c]] # "off"
        BY <3>3 DEF Answered, Listening
      <4>2. CASE server[conn[c]] = "serving"
        BY <3>1, <3>3, <4>1, <4>2 DEF Leaves, Ended
      <4>3. CASE server[conn[c]] # "serving"
        BY <3>1, <3>3, <4>1, <4>3 DEF SocketTypeOK
      <4> QED
        BY <4>2, <4>3
    <3> QED
      BY <2>6, <3>2, <3>3 DEF RequestShutdown
  <2> QED
    BY <1>6, <2>1, <2>2, <2>3, <2>4, <2>5, <2>6 DEF CliStep
<1>7. ASSUME NEW p \in Process, DaemonStep(p) PROVE SocketNext
  BY <1>7 DEF DaemonStep, DaemonExits, Leaves, Ended
<1>8. ASSUME NEW p \in Process, Crash(p) PROVE SocketNext
  BY <1>8 DEF Crash, Leaves, Ended, Listening, Starting
<1> QED
  BY <1>2, <1>3, <1>4, <1>5, <1>6, <1>7, <1>8 DEF StartNext, startVars

\* Every step of the remote processes and of the shells is a step of the socket
\* or leaves it alone.
LEMMA IpcIsSocketStep == ASSUME [IpcNext]_ipcVars PROVE [SocketNext]_socketVars
<1> USE DEF SocketNext, socketVars
<1>1. ASSUME NEW p \in Process, StartRemote(p) \/ IpcStart(p) PROVE SocketNext
  BY <1>1 DEF StartRemote, IpcStart
<1>2. ASSUME NEW p \in Process, AcceptFails(p) PROVE SocketNext
  BY <1>2 DEF AcceptFails, Leaves, Ended
<1>3. ASSUME NEW p \in Process, RemoteEnds(p) PROVE SocketNext
  BY <1>3 DEF RemoteEnds, Leaves, Ended
<1>4. ASSUME NEW s \in Shell, ShellStep(s) PROVE UNCHANGED socketVars
  BY <1>4 DEF ShellStep, HandleCommand, ReadResponse, ReadEof
<1>5. ASSUME NEW s \in Shell, NEW command, Connect(s, command) PROVE UNCHANGED socketVars
  BY <1>5 DEF Connect
<1> QED
  BY <1>1, <1>2, <1>3, <1>4, <1>5 DEF IpcNext, ipcVars

\* The variables of the socket keep their types.
LEMMA SocketTyping ==
    ASSUME SocketTypeOK, [SocketNext]_socketVars PROVE SocketTypeOK'
<1> USE DEF SocketTypeOK, ServerPhase
<1>1. ASSUME NEW p \in Process, Spawn(p) PROVE SocketTypeOK'
  BY <1>1 DEF Spawn, Starting
<1>2. ASSUME NEW p \in Process, StartStep(p) PROVE SocketTypeOK'
  BY <1>2 DEF StartStep, CheckPath, RemovePath, BindPath
<1>3. ASSUME NEW p \in Process, Leaves(p) PROVE SocketTypeOK'
  BY <1>3 DEF Leaves, Ended, Starting
<1> QED
  BY <1>1, <1>2, <1>3 DEF SocketNext, socketVars

-----------------------------------------------------------------------------
\* A start fails because of another process only.  What makes this inductive is
\* when the two checks of a start go stale: a process that saw a file finds none
\* to remove, or one that saw none finds one when it binds, only if another
\* started or exited meanwhile.
Contention ==
    /\ \A p \in Starting : \A q \in Starting : p # q => p \in contended
    /\ \A p \in Process : server[p] = "found" /\ socket_file = None => p \in contended
    /\ \A p \in Process : server[p] = "clear" /\ socket_file # None => p \in contended
    /\ FailsOnlyContended

\* While nobody leaves, the file leads to a process that serves, and when there
\* is no file some process that will not fail is about to make one.
Reaching ==
    (\A p \in Process : server[p] \notin Ended) =>
        /\ socket_file # None => server[socket_file] = "serving"
        /\ (socket_file = None /\ \E p \in Process : server[p] # "off")
           => \E p \in Process : server[p] \in {"starting", "clear"}

SocketInv == SocketTypeOK /\ Contention /\ Reaching

\* The socket as it is at first satisfies all three.
LEMMA SocketInitially == ASSUME SocketInit PROVE SocketInv
BY DEF SocketInit, SocketInv, SocketTypeOK, ServerPhase, Contention, Reaching, Starting,
       FailsOnlyContended

\* Every step of the socket keeps Contention.
LEMMA ContentionKept ==
    ASSUME SocketTypeOK, Contention, [SocketNext]_socketVars PROVE Contention'
<1> USE NoneIsNoProcess DEF SocketTypeOK, Contention, FailsOnlyContended, Starting
<1>1. ASSUME NEW p \in Process, Spawn(p) PROVE Contention'
  BY <1>1 DEF Spawn
<1>2. ASSUME NEW p \in Process, CheckPath(p) PROVE Contention'
  BY <1>2 DEF CheckPath
<1>3. ASSUME NEW p \in Process, RemovePath(p) PROVE Contention'
  BY <1>3 DEF RemovePath
<1>4. ASSUME NEW p \in Process, BindPath(p) PROVE Contention'
  BY <1>4 DEF BindPath
<1>5. ASSUME NEW p \in Process, Leaves(p) PROVE Contention'
  BY <1>5 DEF Leaves, Ended
<1>6. CASE UNCHANGED socketVars
  BY <1>6 DEF socketVars
<1> QED
  BY <1>1, <1>2, <1>3, <1>4, <1>5, <1>6 DEF SocketNext, StartStep

\* Every step of the socket keeps Reaching.
LEMMA ReachingKept ==
    ASSUME SocketTypeOK, Reaching, [SocketNext]_socketVars PROVE Reaching'
<1> USE NoneIsNoProcess DEF SocketTypeOK, Reaching, Ended
<1>1. ASSUME NEW p \in Process, Spawn(p) PROVE Reaching'
  BY <1>1 DEF Spawn
<1>2. ASSUME NEW p \in Process, CheckPath(p) PROVE Reaching'
  BY <1>2 DEF CheckPath
<1>3. ASSUME NEW p \in Process, RemovePath(p) PROVE Reaching'
  BY <1>3 DEF RemovePath
<1>4. ASSUME NEW p \in Process, BindPath(p) PROVE Reaching'
  BY <1>4 DEF BindPath
<1>5. ASSUME NEW p \in Process, Leaves(p) PROVE Reaching'
  BY <1>5 DEF Leaves
<1>6. CASE UNCHANGED socketVars
  BY <1>6 DEF socketVars
<1> QED
  BY <1>1, <1>2, <1>3, <1>4, <1>5, <1>6 DEF SocketNext, StartStep

\* So the three together are inductive ...
LEMMA SocketInvKept == ASSUME SocketInv, [SocketNext]_socketVars PROVE SocketInv'
BY SocketTyping, ContentionKept, ReachingKept DEF SocketInv

\* ... and give the properties of SocketPath.
LEMMA SocketProperties ==
    ASSUME SocketInv PROVE FailsOnlyContended /\ SomeoneReachable
<1>1. FailsOnlyContended
  BY DEF SocketInv, Contention
<1>2. SomeoneReachable
  BY NoneIsNoProcess DEF SocketInv, SocketTypeOK, Reaching, SomeoneReachable, Reachable,
                         Listening, Starting, Ended
<1> QED
  BY <1>1, <1>2

-----------------------------------------------------------------------------
\* The daemons keep the invariant, whatever the commands do.
THEOREM DaemonsKeepSocketInv == StartSpec => []SocketInv
<1>1. StartInit => SocketInv
  BY SocketInitially DEF StartInit
<1>2. SocketInv /\ [StartNext]_startVars => SocketInv'
  BY StartIsSocketStep, SocketInvKept DEF SocketInv
<1> QED
  BY <1>1, <1>2, PTL DEF StartSpec

\* A daemon fails to start only when another one starts or exits during its start:
\* neither the file of a killed daemon nor that of a living one is in its way.
THEOREM DaemonFailsOnlyContended == StartSpec => []FailsOnlyContended
BY DaemonsKeepSocketInv, SocketProperties, PTL

\* However many daemons the commands start at the same time, one of them is
\* reachable once all starts are through, as long as none exits.
THEOREM DaemonReachable == StartSpec => []SomeoneReachable
BY DaemonsKeepSocketInv, SocketProperties, PTL

\* The IPC servers of the remote processes keep the invariant, whatever the shells
\* do.
THEOREM RemotesKeepSocketInv == IpcSpec => []SocketInv
<1>1. IpcInit => SocketInv
  BY SocketInitially DEF IpcInit
<1>2. SocketInv /\ [IpcNext]_ipcVars => SocketInv'
  BY IpcIsSocketStep, SocketInvKept
<1> QED
  BY <1>1, <1>2, PTL DEF IpcSpec

\* An IPC server fails to start only when another one starts meanwhile.
THEOREM RemoteFailsOnlyContended == IpcSpec => []FailsOnlyContended
BY RemotesKeepSocketInv, SocketProperties, PTL

\* Of the remote processes that start at the same time, one takes the commands of
\* the shells once all starts are through, as long as none ends.
THEOREM RemoteReachable == IpcSpec => []SomeoneReachable
BY RemotesKeepSocketInv, SocketProperties, PTL
==============================================================================
