---------------------------- MODULE OptionParser ----------------------------
(***************************************************************************)
(* The command line of a server (server/option_parser.cpp, and             *)
(* init_parser() and init_context() of server/server.h).  Options are      *)
(* registered, the arguments parsed from left to right, and an option is   *)
(* removed from the tables when it has been parsed: it is unknown from     *)
(* then on, and one that is required and still there is missing.           *)
(*                                                                         *)
(* An argument is "--name" or "--name=text" (a long option), "-" and       *)
(* letters (short options), or anything else.  A text is what follows the  *)
(* "=", or the whole argument after a short option.                        *)
(***************************************************************************)
EXTENDS Integers, Sequences, SequencesExt

CONSTANTS
  OptionSets, \* sets of options a process registers, with id, sopt, lopt, required, vtype
  Arguments,  \* [form, name, letters, text] with form "long", "short" or "word"
  MaxArgs,    \* bound: arguments
  Modulus,    \* 2^32, of an s32 option; numbers are read as 64-bit ones
  Scanned,    \* for the n of a text, the numbers with dots between them that it begins with
  U8          \* 2^8, of a part of a bus id

VARIABLES
  todo,       \* options not yet registered
  conf_list, sopt2conf, lopt2conf,
  args, i,    \* argv and the index in it
  value,      \* what the options' pointers point to
  from,       \* the argument that set an option's value, 0: none
  ret,        \* "parsing", "ok", "error", "help" or "started"; "assert" when an assertion failed
  refused,    \* options register_option() refused
  ctx         \* ctx_: the bus id, and the parts by which the default pid file is named

optionVars == <<todo, conf_list, sopt2conf, lopt2conf, args, i, value, from, ret, refused, ctx>>

NoName == ""
NoText == [kind |-> "none", n |-> 0]
Unset == [kind |-> "unset", n |-> 0]
Help == [id |-> "help", sopt |-> "h", lopt |-> "help", required |-> FALSE, vtype |-> "help"]
Options == UNION OptionSets
Ids == {o.id : o \in Options}

\* The constructor registers the help option.
Init ==
  /\ todo \in OptionSets /\ conf_list = {Help} /\ sopt2conf = {Help} /\ lopt2conf = {Help}
  /\ args = <<>> /\ i = 1 /\ ret = "parsing" /\ refused = {}
  /\ value = [o \in Ids |-> Unset] /\ from = [o \in Ids |-> 0]
  /\ ctx = [id |-> 0, parts |-> <<>>]
-----------------------------------------------------------------------------
ByLetter(letter) == {o \in sopt2conf : o.sopt = letter}
ByName(name) == {o \in lopt2conf : o.lopt = name}

\* register_option(): a name that is taken is refused, and the process gives up.
register_option(o) ==
  /\ ret = "parsing" /\ o \in todo /\ todo' = todo \ {o}
  /\ IF (o.sopt # NoName /\ ByLetter(o.sopt) # {}) \/ (o.lopt # NoName /\ ByName(o.lopt) # {})
        \/ (o.sopt = NoName /\ o.lopt = NoName)
     THEN refused' = refused \cup {o} /\ ret' = "error" /\ UNCHANGED <<conf_list, sopt2conf, lopt2conf>>
     ELSE /\ conf_list' = conf_list \cup {o}
          /\ sopt2conf' = IF o.sopt # NoName THEN sopt2conf \cup {o} ELSE sopt2conf
          /\ lopt2conf' = IF o.lopt # NoName THEN lopt2conf \cup {o} ELSE lopt2conf
          /\ UNCHANGED <<refused, ret>>
  /\ UNCHANGED <<args, i, value, from, ctx>>

init_parser == \E o \in todo : register_option(o)

\* The process is given one more argument.
Given(a) ==
  /\ todo = {} /\ i = 1 /\ ret = "parsing" /\ Len(args) < MaxArgs
  /\ args' = Append(args, a)
  /\ UNCHANGED <<todo, conf_list, sopt2conf, lopt2conf, i, value, from, ret, refused, ctx>>
-----------------------------------------------------------------------------
(* What parsing does is an operator on p, the parser's part of the state. *)

Parser == [list |-> conf_list, short |-> sopt2conf, long |-> lopt2conf, value |-> value, from |-> from,
           ret |-> "parsing", next |-> i + 1]

Removed(p, o) == [p EXCEPT !.list = @ \ {o}, !.short = @ \ {o}, !.long = @ \ {o}]

Assigned(p, o, v) == [p EXCEPT !.value[o.id] = v, !.from[o.id] = i]
Fails(p) == [p EXCEPT !.ret = "error"]

\* from_string(): the number, cut to the width of the type, is assigned even
\* when it is not all of the text (kind "partial").
from_string(text) == [kind |-> "number", n |-> text.n % Modulus]

set_value(p, o, text) ==
  IF o.vtype = "help" THEN [p EXCEPT !.ret = "assert"]
  ELSE IF o.vtype = "string" THEN Removed(Assigned(p, o, text), o)
  ELSE LET set == Assigned(p, o, from_string(text))
       IN  IF text.kind = "number" THEN Removed(set, o) ELSE Fails(set)

set_bool(p, o) == Removed(Assigned(p, o, [kind |-> "number", n |-> 1]), o)

parse_long(p, a) ==
  IF ByName(a.name) = {} THEN p
  ELSE LET o == CHOOSE o \in ByName(a.name) : TRUE
       IN  IF o.vtype = "bool" THEN IF a.text = NoText THEN set_bool(p, o) ELSE Fails(p)
           ELSE IF a.text.kind \in {"none", "empty"} THEN Fails(p) ELSE set_value(p, o, a.text)

\* One letter of a short argument; the value of the last is the next argument.
parse_letter(p, k) ==
  LET letters == args[i].letters
      found == {o \in p.short : o.sopt = letters[k]}
      o == CHOOSE o \in found : TRUE
  IN  IF p.ret # "parsing" \/ found = {} THEN p
      ELSE IF o.vtype = "bool" THEN set_bool(p, o)
      ELSE IF k # Len(letters) \/ i + 1 > Len(args) THEN Fails(p)
      ELSE [set_value(p, o, args[i + 1].text) EXCEPT !.next = i + 2]

parse_short(p, letters) == FoldLeft(parse_letter, p, [k \in 1 .. Len(letters) |-> k])

Parsed(p, a) ==
  CASE a.form = "long" -> parse_long(p, a) [] a.form = "short" -> parse_short(p, a.letters) [] OTHER -> p

\* A "-h" or "--help" anywhere ends the process before anything is parsed.
print_usage == ret' = "help"
IsHelp(a) == (a.form = "long" /\ a.name = "help" /\ a.text = NoText) \/ (a.form = "short" /\ a.letters = <<"h">>)

\* parse(): one turn of its loop, for the argument i
parse ==
  /\ todo = {} /\ ret = "parsing" /\ i <= Len(args)
  /\ IF i = 1 /\ \E k \in 1 .. Len(args) : IsHelp(args[k])
     THEN print_usage /\ UNCHANGED <<conf_list, sopt2conf, lopt2conf, i, value, from>>
     ELSE \E p \in {Parsed(Parser, args[i])} :
            /\ conf_list' = p.list /\ sopt2conf' = p.short /\ lopt2conf' = p.long
            /\ value' = p.value /\ from' = p.from /\ ret' = p.ret /\ i' = p.next
  /\ UNCHANGED <<todo, args, refused, ctx>>

\* The end of parse(): no option that is required is left.
parse_done ==
  /\ todo = {} /\ ret = "parsing" /\ i > Len(args)
  /\ ret' = IF \E o \in conf_list : o.required THEN "error" ELSE "ok"
  /\ UNCHANGED <<todo, conf_list, sopt2conf, lopt2conf, args, i, value, from, refused, ctx>>

-----------------------------------------------------------------------------
(* The bus id (bus/bus.cpp): an int whose bytes, the lowest first, are the *)
(* ids of area, zone, function and instance.                               *)

Int32 == U8 * U8 * U8 * U8
Part == 0 .. U8 - 1

\* A part keeps its lowest byte, and the int is signed.
busid_format(parts) ==
  LET byte(k) == parts[k] % U8
      bits == byte(1) + U8 * (byte(2) + U8 * (byte(3) + U8 * byte(4)))
  IN  IF bits >= Int32 \div 2 THEN bits - Int32 ELSE bits

from_subid(area_id, zone_id, func_id, inst_id) == busid_format(<<area_id, zone_id, func_id, inst_id>>)

\* bus::from_string(); scanned: the numbers sscanf() finds in the text, in their places
busid_from_string(scanned) == IF Len(scanned) # 4 THEN -1 ELSE busid_format(scanned)

\* area_id(), zone_id(), func_id() and inst_id(): the part at a place of the id
SubId(bus_id, place) == (bus_id \div U8 ^ (place - 1)) % U8

to_string(bus_id) == [place \in 1 .. 4 |-> SubId(bus_id, place)]
-----------------------------------------------------------------------------
Default == [kind |-> "default", n |-> 0]

\* init_context(): what was not given, or given as 0, has a default; without
\* a bus id the process ends.
init_context ==
  /\ ret = "ok"
  /\ LET parts == Scanned[value["id"].n] IN
     IF value["id"] = Unset \/ busid_from_string(parts) = -1
     THEN ret' = "error" /\ UNCHANGED <<value, ctx>>
     ELSE /\ ret' = "started" /\ ctx' = [id |-> busid_from_string(parts), parts |-> parts]
          /\ value' = [o \in Ids |-> IF value[o].kind = "unset" \/ (value[o].kind = "number" /\ value[o].n = 0)
                                     THEN Default ELSE value[o]]
  /\ UNCHANGED <<todo, conf_list, sopt2conf, lopt2conf, args, i, from, refused>>

Next ==
  \/ init_parser
  \/ \E a \in Arguments : Given(a)
  \/ parse \/ parse_done \/ init_context
-----------------------------------------------------------------------------
\* The options that were, all of them, when parsing has begun
Registered == {o \in Options : o \in conf_list \/ from[o.id] # 0}
Names(a, o) ==
  \/ a.form = "long" /\ a.name = o.lopt
  \/ a.form = "short" /\ o.sopt # NoName /\ \E k \in 1 .. Len(a.letters) : a.letters[k] = o.sopt

\* The argument is the value of a short option before it.
IsValue(k) == \E o \in Registered : o.vtype # "bool" /\ from[o.id] = k - 1 /\ k > 1 /\ args[k - 1].form = "short"
                                    /\ Last(args[k - 1].letters) = o.sopt

\* The tables hold the same options, each under all its names.  When parsing
\* has succeeded every option that was named has the value of its first
\* occurrence, later ones change nothing, no other option has one, and none
\* that is required is without.  The assertion in set_value() is reached only
\* by a help option among others or with a value.  A process that is started
\* has the bus id its text says: the text says it again, unless a part of it
\* is no byte, and then the process shares the id of another text, though not
\* its pid file.
OptionsParsed ==
  /\ sopt2conf = {o \in conf_list : o.sopt # NoName} /\ lopt2conf = {o \in conf_list : o.lopt # NoName}
  /\ \A o \in conf_list, q \in conf_list :
       o # q => (o.sopt # q.sopt \/ o.sopt = NoName) /\ (o.lopt # q.lopt \/ o.lopt = NoName)
  /\ ret \in {"ok", "started"} =>
       \A o \in Registered :
         LET named == {k \in 1 .. Len(args) : Names(args[k], o) /\ ~IsValue(k)}
         IN  /\ from[o.id] = IF named = {} THEN 0 ELSE CHOOSE k \in named : \A j \in named : k <= j
             /\ o.required => named # {}
  /\ ret = "started" =>
       /\ ctx.id # -1
       /\ to_string(ctx.id) = ctx.parts \/ \E k \in 1 .. 4 : ctx.parts[k] \notin Part
       /\ ctx.id = from_subid(SubId(ctx.id, 1), SubId(ctx.id, 2), SubId(ctx.id, 3), SubId(ctx.id, 4))
  /\ ret = "assert" => \E k \in 1 .. Len(args) : Names(args[k], Help)
=============================================================================
