------------------------------- MODULE Config -------------------------------
(***************************************************************************)
(* Configuration files (core/src/config.rs) as the command line uses them  *)
(* (cli/src/main.rs): every command finds, reads, merges and validates its *)
(* configuration before it does anything else, while other commands write  *)
(* configuration files and users edit them.                                *)
(*                                                                         *)
(* A configuration is the fields that decide whether a command runs: the   *)
(* two numbers the environment can override, whether the other numbers are *)
(* all above zero, and what the profile named on the command line holds.   *)
(***************************************************************************)
EXTENDS Naturals

CONSTANTS
    Invocation,    \* commands that run at the same time
    MaxPath,       \* the fallback paths are 1..MaxPath, in the order of the search
    Written,       \* the configurations users write
    Environments,  \* the environments that commands run in
    MaxEdits,      \* bound on the edits of files
    Absent, Broken, Nothing

\* YuhaConfig; a number matters by being zero or not.
YuhaConfig == [default_port : 0..1, connection_timeout : 0..1, others : 0..1,
               profile : {"none", "ssh", "local"}]

\* YUHA_TCP_PORT and YUHA_TIMEOUT, where they are set to a number.
Environment == [default_port : {Nothing, 0, 1}, connection_timeout : {Nothing, 0, 1}]

ASSUME ConfigAssumption ==
    /\ MaxPath \in Nat \ {0} /\ MaxEdits \in Nat
    /\ Written \subseteq YuhaConfig /\ Environments \subseteq Environment

VARIABLES
    files,     \* path -> Absent, Broken (it does not parse) or a configuration
    env,       \* the environment of the commands
    invoked,   \* command -> [at, explicit, path, config, does], or Nothing
    steady,    \* command -> the paths whose file was there and parsed all the time
    edits      \* number of edits

configVars == <<files, env, invoked, steady, edits>>

FallbackPath == 1..MaxPath

\* YuhaConfig::default
DefaultConfig == [default_port |-> 1, connection_timeout |-> 1, others |-> 1, profile |-> "none"]

Parses(content) == content \notin {Absent, Broken}
Whole(f) == {p \in FallbackPath : Parses(f[p])}

ConfigInit ==
    /\ files \in [FallbackPath -> {Absent, Broken} \cup Written]
    /\ env \in Environments
    /\ invoked = [c \in Invocation |-> Nothing]
    /\ steady = [c \in Invocation |-> {}]
    /\ edits = 0

In(c, step) == invoked[c] # Nothing /\ invoked[c].at = step
GoOn(c, next) == invoked' = [invoked EXCEPT ![c] = next]

\* The command is over, with success or with an error.
Ends(c) == GoOn(c, Nothing) /\ steady' = [steady EXCEPT ![c] = {}]

\* A write to a file ends the steadiness of what is not whole after it.
WriteFile(p, content) ==
    /\ files' = [files EXCEPT ![p] = content]
    /\ steady' = [c \in Invocation |-> steady[c] \cap Whole(files')]

-----------------------------------------------------------------------------
(* main: load_from_file or load_with_fallback                              *)

\* does: "profile" is the ssh command with --profile, "init" config init, "other"
\* any other command.  An explicit path is read at once, and 0 stands for none.
Invoke(c, does, explicit) ==
    /\ invoked[c] = Nothing
    /\ GoOn(c, [at |-> IF explicit = 0 THEN "exists" ELSE "read", explicit |-> explicit # 0,
                path |-> IF explicit = 0 THEN 1 ELSE explicit,
                config |-> DefaultConfig, does |-> does])
    /\ steady' = [steady EXCEPT ![c] = Whole(files)]
    /\ UNCHANGED <<files, env, edits>>

\* The next path of the search, or the defaults at its end.
NextPath(i) ==
    IF i.path < MaxPath THEN [i EXCEPT !.path = @ + 1, !.at = "exists"]
    ELSE [i EXCEPT !.path = MaxPath + 1, !.at = "loaded"]

LookForFile(c) ==
    LET i == invoked[c] IN
    /\ In(c, "exists")
    /\ GoOn(c, IF files[i.path] # Absent THEN [i EXCEPT !.at = "read"] ELSE NextPath(i))
    /\ UNCHANGED <<files, env, steady, edits>>

\* Mutation: a file that cannot be loaded ends the search.
LoadFromFileOrDefault(c) ==
    LET i == invoked[c] IN
    /\ In(c, "read")
    /\ IF Parses(files[i.path])
       THEN GoOn(c, [i EXCEPT !.at = "loaded", !.config = files[i.path]])
       ELSE GoOn(c, [i EXCEPT !.at = "loaded", !.path = MaxPath + 1])
    /\ UNCHANGED <<files, env, steady, edits>>

\* load_from_file: an explicit path must load; a fallback that does not is skipped.
LoadFromFile(c) ==
    LET i == invoked[c] IN
    /\ In(c, "read")
    /\ \/ /\ Parses(files[i.path])
          /\ GoOn(c, [i EXCEPT !.at = "loaded", !.config = files[i.path]])
          /\ UNCHANGED steady
       \/ ~Parses(files[i.path]) /\ i.explicit /\ Ends(c)
       \/ ~Parses(files[i.path]) /\ ~i.explicit /\ GoOn(c, NextPath(i)) /\ UNCHANGED steady
    /\ UNCHANGED <<files, env, edits>>

\* merge_with_env
MergeWithEnv(config) ==
    [config EXCEPT !.default_port = IF env.default_port = Nothing THEN @ ELSE env.default_port,
                   !.connection_timeout =
                       IF env.connection_timeout = Nothing THEN @ ELSE env.connection_timeout]

\* validate
Validates(config) ==
    config.default_port > 0 /\ config.connection_timeout > 0 /\ config.others > 0

MergeAndValidate(c) ==
    LET merged == MergeWithEnv(invoked[c].config) IN
    /\ In(c, "loaded")
    /\ \/ /\ Validates(merged)
          /\ GoOn(c, [invoked[c] EXCEPT !.at = "runs", !.config = merged])
          /\ UNCHANGED steady
       \/ ~Validates(merged) /\ Ends(c)
    /\ UNCHANGED <<files, env, edits>>

-----------------------------------------------------------------------------
(* The commands themselves.                                                *)

\* The command connects, shows or asks the daemon; the ssh command ends without
\* that when the profile it was given is not there or is not one for SSH.
RunsCommand(c) ==
    LET i == invoked[c] IN
    /\ In(c, "runs")
    /\ i.does = "other" \/ (i.does = "profile" /\ i.config.profile = "ssh")
    /\ Ends(c)
    /\ UNCHANGED <<files, env, edits>>

NoProfile(c) ==
    /\ In(c, "runs") /\ invoked[c].does = "profile" /\ invoked[c].config.profile # "ssh"
    /\ Ends(c)
    /\ UNCHANGED <<files, env, edits>>

\* config init, save_to_file: the file is truncated, then written.
InitTruncates(c, p) ==
    /\ In(c, "runs") /\ invoked[c].does = "init" /\ edits < MaxEdits
    /\ WriteFile(p, Broken)
    /\ GoOn(c, [invoked[c] EXCEPT !.at = "saving", !.path = p])
    /\ edits' = edits + 1
    /\ UNCHANGED env

InitWrites(c) ==
    /\ In(c, "saving")
    /\ WriteFile(invoked[c].path, DefaultConfig)
    /\ GoOn(c, Nothing)
    /\ UNCHANGED <<env, edits>>

\* A command is killed, or its disk is full.
Killed(c) ==
    /\ In(c, "saving")
    /\ Ends(c)
    /\ UNCHANGED <<files, env, edits>>

\* A user edits, breaks, removes or replaces a file.
EditFile(p) ==
    /\ edits < MaxEdits /\ edits' = edits + 1
    /\ \E content \in {Absent, Broken} \cup Written : WriteFile(p, content)
    /\ UNCHANGED <<env, invoked>>

InvocationStep(c) ==
    \/ LookForFile(c) \/ LoadFromFile(c) \/ MergeAndValidate(c)
    \/ RunsCommand(c) \/ NoProfile(c) \/ InitWrites(c) \/ Killed(c)
    \/ \E p \in FallbackPath : InitTruncates(c, p)

ConfigNext ==
    \/ \E c \in Invocation :
          \/ InvocationStep(c)
          \/ \E does \in {"other", "profile", "init"} : \E p \in 0..MaxPath : Invoke(c, does, p)
    \/ \E p \in FallbackPath : EditFile(p)

ConfigSpec == ConfigInit /\ [][ConfigNext]_configVars

-----------------------------------------------------------------------------
(* Properties.                                                             *)

\* Whatever is written while a command searches, no file that was whole all that
\* time is passed over for a later one or for the defaults, and the command runs
\* with numbers that are valid after the environment was merged in.
FirstSteadyWins ==
    \A c \in Invocation : In(c, "runs") =>
        /\ Validates(invoked[c].config)
        /\ invoked[c].explicit \/ \A p \in steady[c] : invoked[c].path <= p

-----------------------------------------------------------------------------
(* What comments of the repository say and this code does not keep: see    *)
(* "Disagreements" in the README.                                          *)

\* A command whose configuration file exists all the time uses a file.
DefaultsOnlyWithoutFile ==
    \A c \in Invocation : In(c, "runs") /\ invoked[c].path > MaxPath
                          => \A p \in FallbackPath : files[p] = Absent
=============================================================================
