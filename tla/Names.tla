-------------------------------- MODULE Names --------------------------------
(***************************************************************************)
(* What apps are called: from the directory or the branch `adj add` finds,  *)
(* over the manifest and the registry, to the host of a request and to the  *)
(* key `adj agent-docs` prints (crates/adj/src/worktree.rs, scaffold.rs,    *)
(* client.rs:51-111, daemon.rs:313-395, registry.rs, proxy.rs:208-340,      *)
(* 522-545, agent_docs.rs:14-63).                                           *)
(*                                                                          *)
(* A text is a sequence of characters; a run of letters whose inside does   *)
(* not matter, such as "adj", is one character.  Handlers are one step      *)
(* each: how they interleave is the subject of Daemon.tla.                  *)
(***************************************************************************)
EXTENDS Integers, Sequences, FiniteSets

CONSTANTS
  Chars,        \* the characters of texts
  Dirs,         \* directories a user runs `adj add` in
  Basename,     \* their names
  Markers,      \* the framework files in them
  Manifests,    \* what a user may write to adjacent.toml
  Labels,       \* what a user may pass as --label
  Branches,     \* the branches a worktree may be on
  Hosts,        \* the Host headers of requests
  MaxLabel,     \* 63, the longest DNS label
  Word,         \* 2^64, the modulus of a u64
  MaxApps,      \* bound: registered apps
  None, Failed  \* no value; an Err

ASSUME NamesAssumption ==
  /\ MaxLabel \in Nat \ {0} /\ Word \in Nat \ {0}
  /\ None \notin Dirs /\ Failed # None /\ None # 0

VARIABLES
  manifest,  \* the manifest of each directory, or None
  apps,      \* registry.toml: a function from keys to directories
  sent       \* the `Add` a client has sent, or None

namesVars == <<manifest, apps, sent>>

-----------------------------------------------------------------------------
LowerOf == [A |-> "a", S |-> "s", ADJ |-> "adj"]
Lower == {"a", "s", "adj", "ac", "app"}
Digit == {"8"}
Alnum(c) == c \in Lower \cup Digit

(* What the user and the operating system hand over as texts are texts.     *)
Text == Seq(Chars)

ASSUME TextAssumption ==
  /\ Lower \cup Digit \cup {"-", "."} \subseteq Chars
  /\ \A d \in Dirs : Basename[d] \in Text
  /\ \A cfg \in Manifests : cfg.name \in Text
  /\ Labels \cup Branches \cup Hosts \subseteq Text
  /\ None \notin Text /\ Failed \notin Text

Suffix == <<".", "adj", ".", "ac">>
Status == <<"s">>  \* the text "status"
Verify == <<"_", "_", "adj", "_", "a", "_", "_">>  \* "__adj_verify__"
RESERVED_NAMES == {Status, Verify}

Has(text, c) == \E i \in DOMAIN text : text[i] = c
Positions(text, c) == {i \in DOMAIN text : text[i] = c}
First(S) == CHOOSE i \in S : \A j \in S : i <= j
Last(S) == CHOOSE i \in S : \A j \in S : j <= i

to_ascii_lowercase(text) ==
  [i \in DOMAIN text |->
     IF text[i] \in DOMAIN LowerOf THEN LowerOf[text[i]] ELSE text[i]]

Trimmed(text) ==
  LET Inner == {i \in DOMAIN text : text[i] # "-"} IN
  IF Inner = {} THEN <<>> ELSE SubSeq(text, First(Inner), Last(Inner))

(* Cut to the limit of a DNS label, between two trims.                      *)
(* Mutant: without the second. *)
CappedOnce(text) ==
  LET t == Trimmed(text) IN IF Len(t) > MaxLabel THEN SubSeq(t, 1, MaxLabel) ELSE t

Capped(text) ==
  LET t == Trimmed(text) IN
  IF Len(t) > MaxLabel THEN Trimmed(SubSeq(t, 1, MaxLabel)) ELSE t

(* What a text has at the places in S, in its order. *)
Picked(text, S) ==
  LET out[n \in 0 .. Len(text)] ==
        IF n = 0 THEN <<>>
        ELSE IF n \in S THEN Append(out[n - 1], text[n]) ELSE out[n - 1]
  IN  out[Len(text)]

(* Branches lose what a label cannot hold ...                               *)
sanitize_label(branch) ==
  LET Hyphened(c) == IF c \in {"/", "_"} THEN "-" ELSE c
      low == to_ascii_lowercase(branch)
      raw == [i \in DOMAIN low |-> Hyphened(low[i])]
  IN  Capped(Picked(raw, {i \in DOMAIN raw : Alnum(raw[i]) \/ raw[i] = "-"}))

(* ... and each run of it becomes one hyphen in the name of a directory.    *)
sanitize_name(raw) ==
  LET low == to_ascii_lowercase(raw)
      kept == {i \in DOMAIN low : i = 1 \/ Alnum(low[i]) \/ Alnum(low[i - 1])}
      dashed == [i \in DOMAIN low |-> IF Alnum(low[i]) THEN low[i] ELSE "-"]
  IN  Capped(Picked(dashed, kept))

(* Mutant: letters of both cases. *)
validate_anycase(text) ==
  /\ Len(text) \in 1 .. MaxLabel
  /\ text[1] # "-" /\ text[Len(text)] # "-"
  /\ \A i \in DOMAIN text : Alnum(to_ascii_lowercase(text)[i]) \/ text[i] = "-"

validate_dns_label(text) ==
  /\ Len(text) \in 1 .. MaxLabel
  /\ text[1] # "-" /\ text[Len(text)] # "-"
  /\ \A i \in DOMAIN text : Alnum(text[i]) \/ text[i] = "-"

base_name(key) ==
  IF Has(key, ".") THEN SubSeq(key, First(Positions(key, ".")) + 1, Len(key)) ELSE key

-----------------------------------------------------------------------------
(* idle_timeout: a number and a unit; "off" and "unset" have no number, and *)
(* "typo" is any other text.  A window is in milliseconds.                  *)
Seconds == [s |-> 1, m |-> 60, h |-> 3600]

(* The product of a release build; a debug build panics, which ends the     *)
(* command as an error does.                                                *)
Window(raw) ==
  IF raw.unit = "ms" THEN raw.n ELSE ((raw.n * Seconds[raw.unit]) % Word) * 1000

parse_idle_timeout(raw) ==
  CASE raw.unit = "off" -> None
    [] raw.unit = "typo" -> Failed
    [] OTHER -> IF raw.n < Word /\ Window(raw) # 0 THEN Window(raw) ELSE Failed

(* Whether read_app_config returns the manifest of a directory.             *)
read_app_config(cfg) ==
  /\ cfg # None
  /\ validate_dns_label(cfg.name)
  /\ cfg.cmd # ""
  /\ cfg.idle.unit # "unset" => parse_idle_timeout(cfg.idle) # Failed

-----------------------------------------------------------------------------
(* A checkout is [kind, branch]; a submodule counts as a plain directory.   *)
Detached == <<"HEAD">>

detect_label(git) ==
  IF git.kind # "worktree" THEN None
  ELSE IF git.branch \in {Detached, Failed} \/ sanitize_label(git.branch) = <<>> THEN Failed
  ELSE sanitize_label(git.branch)

Checkouts ==
  [kind: {"plain", "submodule"}, branch: {Detached}]
    \cup [kind: {"worktree"}, branch: Branches \cup {Detached, Failed}]

Detected == {detect_label(git) : git \in Checkouts}

(* The first framework that shows, in this order.                           *)
Detectors == <<"deno", "hugo", "node", "manage.py", "bin/rails", "config.ru">>

detect_cmd(files) ==
  LET shown == {i \in DOMAIN Detectors : Detectors[i] \in files} IN
  IF shown = {} THEN "" ELSE Detectors[First(shown)]

(* No env_file, an empty [env] table and no port_env, see Environment.tla.  *)
NoEnv == [file |-> None, table |-> <<>>, port_env |-> None]

(* The manifest `adj add` writes, with placeholders for what it did not     *)
(* find, and whether it found all.                                          *)
build(d) ==
  LET name == sanitize_name(Basename[d]) IN
  [name |-> IF name = <<>> THEN <<"app">> ELSE name,
   cmd |-> detect_cmd(Markers[d]),
   idle |-> [n |-> 0, unit |-> "unset"],
   env |-> NoEnv]

Complete(d) == sanitize_name(Basename[d]) # <<>> /\ detect_cmd(Markers[d]) # ""

-----------------------------------------------------------------------------
NamesInit ==
  /\ manifest \in [Dirs -> {None}]
  /\ apps = <<>>
  /\ sent = None

(* A manifest is edited, created or deleted by hand. *)
Edit(d) ==
  /\ \E cfg \in Manifests \cup {None} : manifest' = [manifest EXCEPT ![d] = cfg]
  /\ UNCHANGED <<apps, sent>>

(* `adj add d`, up to its request: `label` is what --label says, or         *)
(* else what the checkout is called.                                        *)
ClientAdd(d, label, derived) ==
  /\ sent = None /\ Cardinality(DOMAIN apps) < MaxApps
  /\ manifest' = IF manifest[d] = None THEN [manifest EXCEPT ![d] = build(d)] ELSE manifest
  /\ sent' =
       IF (manifest[d] = None /\ ~Complete(d)) \/ label = Failed THEN None
       ELSE [dir |-> d, label |-> label, derived |-> derived,
             wrote |-> IF manifest[d] = None THEN build(d) ELSE None]
  /\ UNCHANGED apps

Key(label, name) == IF label = None THEN name ELSE label \o <<".">> \o name

(* Mutant: the label is taken as it comes. *)
TakesLabel(label, key) ==
  /\ label \notin RESERVED_NAMES
  /\ key \notin DOMAIN apps

Takes(label, key) ==
  /\ label # None => validate_dns_label(label) /\ label \notin RESERVED_NAMES
  /\ key \notin DOMAIN apps

(* The daemon's `add`: its reply, when it refuses, changes nothing.         *)
Add ==
  /\ sent # None
  /\ LET cfg == manifest[sent.dir]
         key == Key(sent.label, cfg.name)
     IN  IF read_app_config(cfg) /\ cfg.name \notin RESERVED_NAMES /\ Takes(sent.label, key)
         THEN apps' = [k \in DOMAIN apps \cup {key} |->
                         IF k = key THEN sent.dir ELSE apps[k]]
         ELSE UNCHANGED apps
  /\ sent' = None
  /\ UNCHANGED manifest

(* `adj remove`, and `adj prune` for a directory that is gone. *)
Remove(key) ==
  /\ apps' = [k \in DOMAIN apps \ {key} |-> apps[k]]
  /\ UNCHANGED <<manifest, sent>>

NamesNext ==
  \/ \E d \in Dirs :
       \/ Edit(d)
       \/ \E label \in Labels : ClientAdd(d, label, FALSE)
       \/ \E label \in Detected : ClientAdd(d, label, TRUE)
  \/ Add
  \/ \E key \in DOMAIN apps : Remove(key)

NamesSpec == NamesInit /\ [][NamesNext]_namesVars

-----------------------------------------------------------------------------
strip_port(host) ==
  LET colons == Positions(host, ":") IN
  IF colons # {} /\ \A i \in Last(colons) + 1 .. Len(host) : host[i] \in Digit
  THEN SubSeq(host, 1, Last(colons) - 1) ELSE host

name_from_host(host) ==
  LET lower == to_ascii_lowercase(host)
      n == Len(host) - Len(Suffix)
      prefix == SubSeq(lower, 1, n)
      dots == Positions(prefix, ".")
  IN  IF /\ n > 0 /\ SubSeq(lower, n + 1, Len(host)) = Suffix
         /\ Cardinality(dots) <= 1 /\ dots \cap {1, n} = {}
      THEN prefix ELSE None

(* Where `handle` sends a request: to the dashboard, to the doctor's        *)
(* marker, to an app, or nowhere.                                           *)
handle(host) ==
  LET name == name_from_host(strip_port(host)) IN
  CASE name = None -> <<"not found">>
    [] name = Status -> <<"status">>
    [] strip_port(host) = Verify \o Suffix -> <<"verify">>
    [] OTHER -> IF name \in DOMAIN apps THEN <<"app", name>> ELSE <<"not found">>

(* Whether `up` and `ensure_running` find a manifest that is the app's.     *)
Boots(key) ==
  LET cfg == manifest[apps[key]] IN read_app_config(cfg) /\ base_name(key) = cfg.name

(* The keys `adj agent-docs` may print in a directory, whose checkout is    *)
(* called `label`: the first one, in the order of the registry, that is     *)
(* registered under the manifest's name, or else the one `adj add` would    *)
(* make up; where that is an error, the bare name.                          *)
registered_key(d) ==
  {key \in DOMAIN apps : apps[key] = d /\ base_name(key) = manifest[d].name}

(* Mutant: the branch is not looked at. *)
derive_bare(label, name) == name

derive_key(label, name) == Key(IF label = Failed THEN None ELSE label, name)

emit(d, label) ==
  IF registered_key(d) # {} THEN registered_key(d)
  ELSE {derive_key(label, manifest[d].name)}

-----------------------------------------------------------------------------
(* Every registered key splits, at its only dot, into DNS labels            *)
(* (registry.rs:86-88 relies on it), and a request in flight has a label or *)
(* none.                                                                    *)
NamesTypeOK ==
  /\ \A key \in DOMAIN apps :
       /\ apps[key] \in Dirs
       /\ \/ validate_dns_label(key)
          \/ \E i \in DOMAIN key :
               /\ key[i] = "."
               /\ validate_dns_label(SubSeq(key, 1, i - 1))
               /\ validate_dns_label(SubSeq(key, i + 1, Len(key)))
  /\ sent # None => sent.dir \in Dirs /\ sent.label # Failed

(* The host <key>.adj.ac, in any case and with or without a port.           *)
Spells(host, key) ==
  LET n == Len(key) + Len(Suffix) IN
  /\ n <= Len(host)
  /\ to_ascii_lowercase(SubSeq(host, 1, n)) = to_ascii_lowercase(key \o Suffix)
  /\ n < Len(host) => host[n + 1] = ":"
  /\ \A i \in n + 2 .. Len(host) : host[i] \in Digit

(* Whatever is added, a request reaches a registered app exactly when its   *)
(* host is a spelling of the app's key: no key that `add` accepts is out of *)
(* reach, behind a built-in route or shared (registry.rs:106-110).          *)
HostsRoute ==
  \A host \in Hosts :
    LET to == handle(host) IN
    \A key \in DOMAIN apps : to = <<"app", key>> <=> Spells(host, key)

(* What the client makes up is well-formed for the daemon (worktree.rs:     *)
(* 64-66, scaffold.rs:32-36): the label of a branch is a DNS label, and the *)
(* manifest it wrote and went on to register can be read back.  A reserved  *)
(* name and a key that is taken are refused all the same.                   *)
DerivedNamesValid ==
  sent # None =>
    /\ sent.derived /\ sent.label # None => validate_dns_label(sent.label)
    /\ sent.wrote # None => read_app_config(sent.wrote)

(* agent-docs points at "the instance key the daemon will actually route    *)
(* to" (agent_docs.rs:20-25): in a directory that `adj add` then registers, *)
(* it has printed the very key the daemon makes of the request, and from    *)
(* then on it prints keys of that directory that boot, whatever was         *)
(* registered at the path before.                                           *)
DocKeyAdded ==
  [][\A add \in {sent} : Add /\ add.derived /\ apps' # apps =>
       /\ \A key \in emit(add.dir, add.label)' :
            key \in DOMAIN apps' /\ apps'[key] = add.dir /\ Boots(key)'
       /\ registered_key(add.dir) = {} =>
            emit(add.dir, add.label)' = emit(add.dir, add.label)]_namesVars
=============================================================================
