----------------------------- MODULE Environment -----------------------------
(***************************************************************************)
(* What a booted app is told: the variables of its environment, from the    *)
(* dotenv file, the manifest, its port and its address                      *)
(* (crates/adj/src/env.rs, supervisor.rs:40-105, 163-212).                  *)
(*                                                                          *)
(* A port is a text, and the port of a listener is None if nothing tells    *)
(* it.  The env of a manifest is a dotenv file, None or Failed if it names  *)
(* none or a missing one, a table of variables, and the name for the port.  *)
(***************************************************************************)
EXTENDS Names

CONSTANTS
  Inherited,    \* the environment the daemon was started with
  Configured,   \* what ADJACENT_PROXY_PORT and ADJACENT_HTTPS_PORT may say
  PortFiles     \* what may be in proxy.port and https.port, None if no number

Kernel == <<"0">>

ASSUME PortAssumption ==
  /\ ":" \in Chars
  /\ (Configured \ {Kernel}) \cup (PortFiles \ {None}) \subseteq Seq(Digit)

-----------------------------------------------------------------------------
Quotes == {"'", "''"}  \* "''" stands for the double one

strip_matching_quotes(value) ==
  IF Len(value) >= 2 /\ value[1] \in Quotes /\ value[1] = value[Len(value)]
  THEN SubSeq(value, 2, Len(value) - 1) ELSE value

(* A line has a key, which is None in a comment and Failed without a key    *)
(* or an equals sign.  The last line of a key counts.                       *)
parse_dotenv(lines) ==
  LET Of(key) == {i \in DOMAIN lines : lines[i].key = key} IN
  IF Of(Failed) # {} THEN Failed
  ELSE [key \in {lines[i].key : i \in DOMAIN lines} \ {None} |->
          strip_matching_quotes(lines[Last(Of(key))].value)]

(* Read before anything is reserved or spawned, for an error to leave       *)
(* nothing behind.                                                          *)
load_env_file(file) ==
  CASE file = None -> <<>>
    [] file = Failed -> Failed
    [] OTHER -> parse_dotenv(file)

(* The port of a listener: as configured, or where the kernel chose it, as  *)
(* the file that some daemon wrote says.                                    *)
ProxyPort(configured, file) == IF configured # Kernel THEN configured ELSE file

Url(scheme, authority) == <<scheme, "://">> \o authority

(* Variables set in layers, of which the first to set one counts.           *)
Layered(layers) ==
  LET Setting(variable) == {i \in DOMAIN layers : variable \in DOMAIN layers[i]}
  IN  [variable \in UNION {DOMAIN layers[i] : i \in DOMAIN layers} |->
         layers[First(Setting(variable))][variable]]

Direct(variable, scheme, host, port) ==
  IF port = None THEN <<>>
  ELSE [v \in {variable} |-> Url(scheme, host \o <<":">> \o port)]

adj_env(name, http, https) ==
  LET host == name \o Suffix IN
  Layered(<<[ADJ_NAME |-> name, ADJ_HOST |-> host,
             ADJ_URL |-> Url("https", host), ADJ_URL_HTTP |-> Url("http", host)],
            Direct("ADJ_URL_DIRECT", "https", host, https),
            Direct("ADJ_URL_HTTP_DIRECT", "http", host, http)>>)

port_env(env) == IF env.port_env = None THEN "PORT" ELSE env.port_env

PortLayer(env, port) == [v \in {port_env(env)} |-> port]

(* The environment `up` gives the shell of an app, later layers first.      *)
(* Mutant: the user's layers come last. *)
child_env_user_last(name, env, port, http, https) ==
  Layered(<<load_env_file(env.file), env.table,
            adj_env(name, http, https), PortLayer(env, port), Inherited>>)

child_env(name, env, port, http, https) ==
  Layered(<<adj_env(name, http, https), PortLayer(env, port),
            env.table, load_env_file(env.file), Inherited>>)

-----------------------------------------------------------------------------
Authority(url) == SubSeq(url, 3, Len(url))

(* What an app is told is where it is found (supervisor.rs:203-208,         *)
(* README.md:21, 123): whatever the daemon's environment, the manifest and  *)
(* the dotenv file set, each URL the daemon gives the app, with a port or   *)
(* without, is routed back to it, and it finds its port under the name it   *)
(* asked for, unless that is one the daemon keeps for itself.               *)
AppsAddressed ==
  \A key \in DOMAIN apps :
    LET env == manifest[apps[key]].env  port == <<"8", "8">> IN
    Boots(key) /\ load_env_file(env.file) # Failed =>
      \A configured \in Configured, file \in PortFiles :
        LET told == ProxyPort(configured, file)
            given == adj_env(key, told, told)
            e == child_env(key, env, port, told, told)
        IN  /\ \A variable \in DOMAIN given \ {"ADJ_NAME", "ADJ_HOST"} :
                 handle(Authority(e[variable])) = <<"app", key>>
            /\ handle(e["ADJ_HOST"]) = <<"app", key>>
            /\ port_env(env) \in DOMAIN given \/ e[port_env(env)] = port
=============================================================================
