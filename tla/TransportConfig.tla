-------------------------- MODULE TransportConfig --------------------------
(***************************************************************************)
(* Transport configurations: the builders (core/src/transport/builder.rs), *)
(* validate and connection_key (core/src/transport/mod.rs), the names      *)
(* under which the command line asks for sessions (cli/src/main.rs) and    *)
(* what the transport factory connects to (client/src/transport_factory    *)
(* .rs).  The daemon hands out one session for all configurations with the *)
(* same key or name, so the two decide who shares a session with whom.     *)
(*                                                                         *)
(* Hosts, users and paths are sequences of tokens, because keys and names  *)
(* are made by putting them one after another.  The fields that neither a  *)
(* key nor a target depends on are left out: timeouts, retries, arguments, *)
(* environment, directories, certificates.  Of password and key file it    *)
(* only matters that there is one.                                         *)
(***************************************************************************)
EXTENDS Naturals, Sequences, FiniteSets, TLC

CONSTANTS
    Host, Port, Account, Path, Distribution,   \* values given to the setters
    Lossy,       \* tokens of a path that are not UTF-8
    MaxBuilt,    \* bound on the configurations built
    Unset

HasToken(s, token) == \E n \in DOMAIN s : s[n] = token

\* A host name has no "@", nor has the name of a WSL distribution.
ASSUME TransportAssumption ==
    /\ \A h \in Host \cup Distribution : ~HasToken(h, "@")
    /\ Port \subseteq Nat /\ MaxBuilt \in Nat

\* Hosts, users and paths are tokens in a row, and a port is written as a token
\* that no other port is written as.
ASSUME TokenAssumption ==
    /\ Host \cup Account \cup Path \cup Distribution \subseteq Seq(STRING)
    /\ \A p, q \in Port \cup {0, 22} :
          ToString(p) \in STRING /\ (ToString(p) = ToString(q) => p = q)

VARIABLES
    windows,     \* the platform the program was built for
    installed,   \* the paths at which there is a file
    builder,     \* [type, config], or Unset
    built        \* the configurations that were built

transportVars == <<windows, installed, builder, built>>

-----------------------------------------------------------------------------
(* The builders: where they start and what their setters set.              *)
SshDefault == [host |-> <<>>, port |-> 22, username |-> <<>>, auth |-> FALSE,
               auto_upload_binary |-> FALSE]
SshSetters == [host |-> Host, port |-> Port, username |-> Account, auth |-> {TRUE},
               auto_upload_binary |-> {TRUE}]

LocalDefault == [binary_path |-> <<"yuha-remote">>]
LocalSetters == [binary_path |-> Path]

TcpDefault == [host |-> <<>>, port |-> 0, tls |-> FALSE]
TcpSetters == [host |-> Host, port |-> Port]

WslDefault == [distribution |-> Unset, user |-> Unset, binary_path |-> Unset]
WslSetters == [distribution |-> Distribution, user |-> Account, binary_path |-> Path]

Default == [ssh |-> SshDefault, local |-> LocalDefault, tcp |-> TcpDefault, wsl |-> WslDefault]
Setters == [ssh |-> SshSetters, local |-> LocalSetters, tcp |-> TcpSetters, wsl |-> WslSetters,
            tls |-> <<>>]
TransportType == DOMAIN Default

TransportInit ==
    /\ windows \in BOOLEAN
    /\ installed \in SUBSET Path
    /\ builder = Unset /\ built = {}

NewBuilder ==
    /\ builder = Unset /\ Cardinality(built) < MaxBuilt
    /\ \E type \in TransportType : builder' = [type |-> type, config |-> Default[type]]
    /\ UNCHANGED <<windows, installed, built>>

SetField ==
    /\ builder # Unset
    /\ \E field \in DOMAIN Setters[builder.type] :
          \E value \in Setters[builder.type][field] :
              builder' = [builder EXCEPT !.config[field] = value]
    /\ UNCHANGED <<windows, installed, built>>

\* with_tls leads to a builder of its own, and done back from it.
WithTls ==
    /\ builder # Unset /\ builder.type = "tcp"
    /\ builder' = [builder EXCEPT !.type = "tls"]
    /\ UNCHANGED <<windows, installed, built>>

TlsDone ==
    /\ builder # Unset /\ builder.type = "tls"
    /\ builder' = [builder EXCEPT !.type = "tcp", !.config.tls = TRUE]
    /\ UNCHANGED <<windows, installed, built>>

\* validate.  The path is looked up by the process that builds, while it builds.
Validate(type, c) ==
    CASE type = "ssh" -> c.host # <<>> /\ c.username # <<>> /\ c.auth
      [] type = "local" -> c.binary_path \in installed
      [] type = "tcp" -> c.host # <<>> /\ c.port # 0
      [] type = "wsl" -> windows

\* The builder is used up, whether it builds or fails.
Build ==
    /\ builder # Unset /\ builder.type \in TransportType
    /\ built' = IF Validate(builder.type, builder.config) THEN built \cup {builder} ELSE built
    /\ builder' = Unset
    /\ UNCHANGED <<windows, installed>>

\* Files come and go.
FileChanges ==
    /\ \E p \in Path : installed' \in {installed \cup {p}, installed \ {p}}
    /\ UNCHANGED <<windows, builder, built>>

TransportNext == NewBuilder \/ SetField \/ WithTls \/ TlsDone \/ Build \/ FileChanges

TransportSpec == TransportInit /\ [][TransportNext]_transportVars

-----------------------------------------------------------------------------
(* What is made of a configuration.                                        *)

\* Path::display puts the same character for everything that is not UTF-8.
Display(path) == [n \in DOMAIN path |-> IF path[n] \in Lossy THEN "?" ELSE path[n]]

OrDefault(name) == IF name = Unset THEN <<"default">> ELSE name

\* Mutation: the port is left out of the key.
ConnectionKeyNoPort(t) ==
    LET c == t.config IN
    CASE t.type = "ssh" -> <<"ssh://">> \o c.username \o <<"@">> \o c.host
      [] t.type = "local" -> <<"local://">> \o Display(c.binary_path)
      [] t.type = "tcp" -> <<IF c.tls THEN "tcps://" ELSE "tcp://">> \o c.host
      [] t.type = "wsl" -> <<"wsl://">> \o OrDefault(c.user) \o <<"@">> \o OrDefault(c.distribution)

\* connection_key
ConnectionKeyOf(t) ==
    LET c == t.config IN
    CASE t.type = "ssh" -> <<"ssh://">> \o c.username \o <<"@">> \o c.host \o <<":", ToString(c.port)>>
      [] t.type = "local" -> <<"local://">> \o Display(c.binary_path)
      [] t.type = "tcp" -> <<IF c.tls THEN "tcps://" ELSE "tcp://">> \o c.host \o <<":", ToString(c.port)>>
      [] t.type = "wsl" -> <<"wsl://">> \o OrDefault(c.user) \o <<"@">> \o OrDefault(c.distribution)

\* The name under which the commands ssh and local ask the daemon for a session.
SessionName(t) ==
    LET c == t.config IN
    CASE t.type = "ssh" -> <<"ssh-">> \o c.username \o <<"@">> \o c.host \o <<":", ToString(c.port)>>
      [] t.type = "local" -> <<"local">>
      [] OTHER -> Unset

\* create_transport: where a connection with this configuration leads ("place"), and
\* what it starts there ("binary").  The TLS settings are not handed on.
CreateTransport(t) ==
    LET c == t.config IN
    CASE t.type = "ssh" -> [place |-> <<"ssh", c.host, c.port, c.username>>,
                            binary |-> IF c.auto_upload_binary THEN <<"uploaded">>
                                       ELSE <<"/usr/local/bin/yuha-remote">>]
      [] t.type = "local" -> [place |-> <<"local">>, binary |-> c.binary_path]
      [] t.type = "tcp" -> [place |-> <<"tcp", c.host, c.port>>, binary |-> Unset]
      [] t.type = "wsl" -> [place |-> <<"wsl", c.distribution, c.user>>,
                            binary |-> IF c.binary_path = Unset THEN <<"yuha-remote">>
                                       ELSE c.binary_path]

-----------------------------------------------------------------------------
(* Properties.                                                             *)

\* A configuration whose key says all of it: a distribution or user called
\* "default" and a path that is not UTF-8 are told from others by no key.
Telling(t) ==
    CASE t.type = "wsl" -> <<"default">> \notin {t.config.distribution, t.config.user}
      [] t.type = "local" -> \A token \in Lossy : ~HasToken(t.config.binary_path, token)
      [] OTHER -> TRUE

\* Whoever shares a session, by its key or by the name of an SSH session, wants to
\* reach the same place: the strings put together from users, hosts and ports
\* cannot be taken apart in two ways, and leave out nothing the place depends on.
\* The key of a local session says which binary it runs as well; those of SSH and
\* WSL sessions do not.
SharedReachesTarget ==
    \A s, t \in built :
        /\ Telling(s) /\ Telling(t)
        /\ \/ ConnectionKeyOf(s) = ConnectionKeyOf(t)
           \/ s.type = "ssh" /\ t.type = "ssh" /\ SessionName(s) = SessionName(t)
        => /\ CreateTransport(s).place = CreateTransport(t).place
           /\ s.type = "local" => CreateTransport(s).binary = CreateTransport(t).binary

-----------------------------------------------------------------------------
(* What comments of the repository say and this code does not keep: see    *)
(* "Disagreements" in the README.                                          *)

\* A session found by its name is one of the configuration asked for.
NamedReachesTarget ==
    \A s, t \in built : s.type \in {"ssh", "local"} /\ SessionName(s) = SessionName(t)
                        => CreateTransport(s) = CreateTransport(t)

\* Whoever shares a session by its key wants the same binary to be started.
SharedStartsBinary ==
    \A s, t \in built : Telling(s) /\ Telling(t) /\ ConnectionKeyOf(s) = ConnectionKeyOf(t)
                        => CreateTransport(s).binary = CreateTransport(t).binary

\* A configuration with TLS connects differently from one without.
TlsMatters ==
    \A s, t \in built : s.type = "tcp" /\ t.type = "tcp" /\ s.config.tls # t.config.tls
                        => CreateTransport(s) # CreateTransport(t)

\* The binary of a local configuration is there.
BinaryFound == \A t \in built : t.type = "local" => t.config.binary_path \in installed
=============================================================================
