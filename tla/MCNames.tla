------------------------------- MODULE MCNames -------------------------------
(* Two directories, one with a name that is cut within a run of hyphens and *)
(* one without a usable name; labels of at most two characters, and numbers *)
(* of four bits.                                                            *)
EXTENDS Environment, TLC

MCChars ==
  {"a", "A", "s", "S", "p", "adj", "ADJ", "ac", "app", "8", "-", "_", ".", ":"}

MCBasename == [d1 |-> <<"A", "_", "_", "a">>, d2 |-> <<"_", "-">>]
MCMarkers == [d1 |-> {"config.ru", "node"}, d2 |-> {"hugo"}]

Words(chars, n) == UNION {[1 .. i -> chars] : i \in 0 .. n}

MCBranches == {<<"s">>} \cup Words({"a", "A", "-", "_", "."}, 4)

MCLabels ==
  {<<"a">>, <<"A">>, <<"s">>, <<"a", ".", "a">>, <<"a", "-">>, <<"a", "a", "a">>}

Idle(n, unit) == [n |-> n, unit |-> unit]
App(name, cmd, idle, env) == [name |-> name, cmd |-> cmd, idle |-> idle, env |-> env]
Unset == Idle(0, "unset")

Line(key, value) == [key |-> key, value |-> value]
Dotenv ==
  <<Line(None, <<>>), Line("PORT", <<"a">>), Line("ADJ_URL", <<"'", "a", "'">>),
    Line("PORT", <<"'">>), Line("BIND", <<"a", "'">>), Line("ADJ_URL_DIRECT", <<>>)>>
Env(file, table, name) == [file |-> file, table |-> table, port_env |-> name]

MCManifests ==
  {App(name, "node", Unset, NoEnv) :
     name \in {<<"a">>, <<"a", "a">>, <<"s">>, <<"A">>, <<"a", ".", "a">>}}
  \cup {App(<<"a">>, "", Unset, NoEnv)}
  \cup {App(<<"a">>, "node", idle, NoEnv) :
          idle \in {Idle(0, "typo"), Idle(0, "s"), Idle(4, "m"), Idle(16, "ms")}}
  \cup {App(<<"a">>, "node", Idle(0, "off"), Env(Dotenv, "ADJ_HOST" :> <<"a">>, "BIND")),
        App(<<"a">>, "node", Idle(5, "m"), Env(Dotenv, "PORT" :> <<"a">>, None)),
        App(<<"a">>, "node", Unset, Env(<<Line(Failed, <<>>)>>, <<>>, "ADJ_HOST"))}

MCInherited == "PORT" :> <<"a">> @@ "ADJ_HOST" :> <<"a">>
MCConfigured == {Kernel, <<"8">>}
MCPortFiles == {None, <<"8", "8">>}

Prefixes ==
  Words({"a", "."}, 3)
    \cup {<<"s">>, <<"S">>, <<"A">>, <<"A", ".", "a">>, <<"a", "p", "p">>, <<"app">>,
          <<"a", ".", "app">>, <<"a", "a", ".", "a">>, Verify}
Suffixes ==
  {Suffix \o port : port \in {<<>>, <<":">>, <<":", "8">>, <<":", "a">>}}
    \cup {<<".", "ADJ", ".", "ac">>}

MCHosts ==
  {prefix \o suffix : prefix \in Prefixes, suffix \in Suffixes}
    \cup {<<"a">>, <<"a", ".", "ac">>, <<"a">> \o Suffix \o <<".">>}
=============================================================================
