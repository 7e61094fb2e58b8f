------------------------------ MODULE Loggers ------------------------------
(***************************************************************************)
(* The loggers of a process and its configuration (log/log.cpp, the loader *)
(* log/log_config.cpp, reload() of server/server.h; bus/bus_config.cpp is  *)
(* the configuration of the daemon).  A signal makes the server read its   *)
(* files anew while it runs; a file may be unreadable, or a field of it    *)
(* missing or no number, and a log file may fail to open.                  *)
(***************************************************************************)
EXTENDS Integers, Sequences, SequencesExt

CONSTANTS
  Documents,  \* what log_conf.xml may hold: categories in their order, or Unreadable
  Levels      \* bound: levels of messages, from 0 (TRACE)

VARIABLES
  document,   \* the file as it is now
  conf,       \* conf_.categories
  loggers,    \* name2logger_: a set of the categories the loggers were made from
  cfg,        \* the server's own configuration cfg_: the values of its fields
  proc_conf,  \* the file of it as it is now: its fields, none if it is unreadable
  stage,      \* "starting", "running" or "failed"
  exact,      \* the last init() or reload() succeeded
  sunk        \* where the last message went: a name, "warned" (to the default logger) or "nowhere"

loggerVars == <<document, conf, loggers, cfg, proc_conf, stage, exact, sunk>>

DEFAULT_LOGGER == "default"

\* A category: devices is the number of its devices, broken says that a node of
\* it is missing.  The one init() adds when there is none of this name:
DefaultCategory == [name |-> DEFAULT_LOGGER, level |-> "DEBUG", devices |-> 1, broken |-> FALSE]
Unreadable == <<[name |-> "", level |-> "", devices |-> 0, broken |-> TRUE]>>

\* Levels are ordered; a name that is none of them stands for TRACE.
LevelNames == <<"TRACE", "DEBUG", "INFO", "WARN", "ERROR", "CRITICAL">>
string2level(name) == IF Contains(LevelNames, name) THEN SelectInSeq(LevelNames, LAMBDA x : x = name) - 1 ELSE 0
Warn == string2level("WARN")

\* What the server's file may hold: fields in their order, each with the number
\* read from it, which is 0 for a field that is missing and may be a part of one
\* that is no number.
Field(n, ok) == [n |-> n, ok |-> ok]
ConfFiles == {<<Field(1, TRUE), Field(1, TRUE)>>, <<Field(2, TRUE), Field(2, TRUE)>>,
              <<Field(3, TRUE), Field(0, FALSE)>>, <<Field(3, FALSE), Field(3, TRUE)>>, <<>>}

NamesIn(cats) == {c.name : c \in ToSet(cats)}

Init ==
  /\ document \in Documents \cup {Unreadable}
  /\ conf = <<>> /\ loggers = {} /\ cfg = <<0, 0>> /\ proc_conf \in ConfFiles
  /\ stage = "starting" /\ exact = FALSE /\ sunk = "nowhere"
----------------------------------------------------------------------------
\* load_from_xml_file(): the categories before the first that is broken
IsWhole(doc) == \A k \in 1 .. Len(doc) : ~doc[k].broken
Loaded(doc) ==
  LET first == SelectInSeq(doc, LAMBDA c : c.broken)
  IN  IF first = 0 THEN doc ELSE SubSeq(doc, 1, first - 1)

WithDefault(cats) == IF DEFAULT_LOGGER \in NamesIn(cats) THEN cats ELSE Append(cats, DefaultCategory)

\* The loggers of the first n categories: one without a device has none, and of
\* two with one name the later stays.
MadeOf(cats, n) ==
  {cats[k] : k \in {j \in 1 .. n : cats[j].devices > 0 /\ \A l \in j + 1 .. n : cats[l].devices > 0 => cats[l].name # cats[j].name}}

\* logger::init() with the document.  A device of the category stop + 1 cannot
\* be opened, when stop is less than the number of categories.
InitWith(doc, stop) ==
  LET cats == WithDefault(doc)
      made == MadeOf(cats, stop)
  IN  IF ~IsWhole(doc) THEN [ok |-> FALSE, conf |-> Loaded(doc), made |-> {}]
      ELSE [ok |-> stop = Len(cats) /\ DEFAULT_LOGGER \in {c.name : c \in made}, conf |-> cats, made |-> made]

Stops(doc) == IF IsWhole(doc) THEN {k \in 0 .. Len(WithDefault(doc)) :
                                      k = Len(WithDefault(doc)) \/ WithDefault(doc)[k + 1].devices > 0}
              ELSE {0}

\* The old loggers go back to their names; new ones stay under other names.
Restored(old, made) == old \cup {c \in made : \A d \in old : d.name # c.name}

\* load_from_xml_file() of the server's own configuration succeeds.
Loadable(file) == file # <<>> /\ \A k \in DOMAIN file : file[k].ok

\* What it leaves in value: the fields are read in their order, up to the first
\* that cannot be, and that one is set too.
Read(value, file) ==
  [k \in DOMAIN value |->
     IF file # <<>> /\ \A j \in 1 .. k - 1 : file[j].ok THEN file[k].n ELSE value[k]]

\* init_logger() and init_conf()
start ==
  /\ stage = "starting"
  /\ \E stop \in Stops(document) : \E r \in {InitWith(document, stop)} :
       /\ conf' = r.conf /\ loggers' = r.made /\ exact' = r.ok
       /\ cfg' = IF r.ok THEN Read(cfg, proc_conf) ELSE cfg
       /\ stage' = IF r.ok /\ Loadable(proc_conf) THEN "running" ELSE "failed"
  /\ UNCHANGED <<document, proc_conf, sunk>>

\* reload() of the server, which reads into a temporary, and logger::reload() in it
reload ==
  /\ stage = "running"
  /\ cfg' = IF Loadable(proc_conf) THEN Read(<<0, 0>>, proc_conf) ELSE cfg
  /\ \E stop \in Stops(document) : \E r \in {InitWith(document, stop)} :
       /\ conf' = IF r.ok THEN r.conf ELSE conf
       /\ loggers' = IF r.ok THEN r.made ELSE Restored(loggers, r.made)
       /\ exact' = r.ok
  /\ UNCHANGED <<document, proc_conf, stage, sunk>>

\* Somebody writes the files.
Edit(doc, file) ==
  /\ document' = doc /\ proc_conf' = file
  /\ UNCHANGED <<conf, loggers, cfg, stage, exact, sunk>>

Named(n) == {c \in loggers : c.name = n}

\* A logger of this name takes messages of this level.
level_enabled(n, level) == \E c \in Named(n) : level >= string2level(c.level)

\* log(): a logger that is not there is warned of, in the default one.
log(n, level) ==
  /\ stage = "running"
  /\ sunk' = IF Named(n) # {} THEN IF level_enabled(n, level) THEN n ELSE "nowhere"
             ELSE IF level_enabled(DEFAULT_LOGGER, Warn) THEN "warned" ELSE "nowhere"
  /\ UNCHANGED <<document, conf, loggers, cfg, proc_conf, stage, exact>>

Next ==
  \/ start \/ reload
  \/ \E doc \in Documents \cup {Unreadable}, file \in ConfFiles : Edit(doc, file)
  \/ \E n \in UNION {NamesIn(doc) : doc \in Documents}, level \in 0 .. Levels : log(n, level)
----------------------------------------------------------------------------
\* While the process runs there is a default logger, and every category of the
\* configuration in use that has a device has its logger, made from it,
\* whatever a reload found and wherever it failed; after one that succeeded
\* there is no other.  A failed reload may leave loggers it had just made,
\* under names the configuration does not have.  The server's own
\* configuration is that of one file, with no field missing.
LoggersStand ==
  stage = "running" =>
    /\ Named(DEFAULT_LOGGER) # {}
    /\ MadeOf(conf, Len(conf)) \subseteq loggers /\ (exact => loggers = MadeOf(conf, Len(conf)))
    /\ \A c \in loggers, d \in loggers : c.name = d.name => c = d
    /\ IsWhole(conf)
    /\ \E file \in ConfFiles : Loadable(file) /\ cfg = [k \in DOMAIN file |-> file[k].n]

\* With it, what a start and a reload begin from: the files, and for a start a
\* configuration that nothing has been read into.
IInv ==
  /\ document \in Documents \cup {Unreadable} /\ proc_conf \in ConfFiles
  /\ stage = "starting" => cfg = <<0, 0>>
  /\ LoggersStand
============================================================================
