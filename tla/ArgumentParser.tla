--------------------------- MODULE ArgumentParser ---------------------------
(***************************************************************************)
(* The command line parser of Argparse.h: the program adds arguments,       *)
(* options, positionals and commands, and parses lines.  A command has a    *)
(* parser of its own, which shares the arguments and options of the root.   *)
(* The line is not stored: its strings are chosen when Process reads them.  *)
(* What a string converts to is left to the program: a match is accepted or *)
(* rejected.                                                                *)
(***************************************************************************)
EXTENDS Naturals, Sequences, FiniteSets

CONSTANTS Names, Flags, None,
          Aliases,      \* the names that are given as an alias
          MaxArgs       \* bound: the arguments that are added

Argument == 0
Command == 1
Option == 2
Positional == 3

Root == 0

VARIABLES arg,          \* the arguments in the order they were made
          m_args,       \* of each parser: the root's, and one for each command
          m_foundArgs, m_command,
          phase, parser,            \* where Parse is: the phase, and the parser that processes
          result, times, before     \* how it ended, and while it has not failed: its matches,
                                    \* and what was found before it

vars == <<arg, m_args, m_foundArgs, m_command, phase, parser, result, times, before>>

Elements(s) == {s[i] : i \in DOMAIN s}
Parsers == DOMAIN m_args
HelpOption == [type |-> Option, name |-> "help", alias |-> None, flag |-> "h", required |-> FALSE, sequence |-> FALSE]

Init ==
    /\ arg = <<HelpOption>>
    /\ m_args = [p \in {Root} |-> <<1>>]
    /\ m_foundArgs = {} /\ m_command = None
    /\ phase = "idle" /\ parser = Root
    /\ result = "none" /\ times = <<0>> /\ before = {}

-----------------------------------------------------------------------------
(* Adding arguments.                                                        *)

\* The matches of the last line are of no interest any more.
Forget == times' = [i \in DOMAIN arg' |-> 0] /\ before' = {}

\* std::sort by type, which keeps the order of up to 16 elements of one type.
Sort(table, s) ==
    LET OfType(type) == SelectSeq(s, LAMBDA i : table[i].type = type)
    IN  OfType(Argument) \o OfType(Command) \o OfType(Option) \o OfType(Positional)

CheckArgName(p, name, isCommand) ==
    \A i \in Elements(m_args[p]) :
       name \in {arg[i].name, arg[i].alias} => isCommand /\ arg[i].type # Command

CheckArgFlag(p, flag) == flag # None => \A i \in Elements(m_args[p]) : arg[i].flag # flag

\* Arguments and options of the root belong to every command as well.
Shared(a) == a.type \in {Argument, Option} /\ a.name # "help"

\* AddArgument(ptr): to the commands' parsers, to m_args, and sorted.
AddArgument(p, a) ==
    LET table == Append(arg, a)
    IN  /\ arg' = table
        /\ m_args' = [q \in Parsers |->
                        IF q = p \/ (p = Root /\ Shared(a)) THEN Sort(table, Append(m_args[q], Len(table))) ELSE m_args[q]]

\* AddArgument, AddOption and AddPositional, of the root or of a command, with
\* Alias and Required; a positional has no flag and is required.
Add(p, type, name, alias, flag, required, sequence) ==
    /\ phase = "idle" /\ Len(arg) < MaxArgs
    /\ CheckArgName(p, name, FALSE) /\ CheckArgFlag(p, flag)
    /\ type = Positional => required /\ flag = None
    /\ AddArgument(p, [type |-> type, name |-> name, alias |-> alias, flag |-> flag,
                       required |-> required, sequence |-> sequence])
    /\ result' = "none" /\ Forget
    /\ UNCHANGED <<m_foundArgs, m_command, phase, parser>>

\* AddCommand: a parser with a help option and what the root has so far.
AddCommand(name) ==
    LET command == [type |-> Command, name |-> name, alias |-> None, flag |-> None,
                    required |-> FALSE, sequence |-> FALSE]
        table == arg \o <<command, HelpOption>>
        id == Len(arg) + 1
    IN  /\ phase = "idle" /\ Len(arg) + 1 < MaxArgs
        /\ CheckArgName(Root, name, TRUE)
        /\ arg' = table
        /\ m_args' = [q \in Parsers \cup {id} |->
                        IF q = id THEN Sort(table, <<id + 1>> \o SelectSeq(m_args[Root], LAMBDA i : Shared(arg[i])))
                        ELSE IF q = Root THEN Sort(table, Append(m_args[Root], id))
                        ELSE m_args[q]]
        /\ result' = "none" /\ Forget
        /\ UNCHANGED <<m_foundArgs, m_command, phase, parser>>

-----------------------------------------------------------------------------
(* Parsing a line.                                                          *)

\* A string of the line: a word, "-f", "--name" or "--name=word".
Strings == [kind : {"word"}, text : Names] \cup [kind : {"short"}, text : Flags \cup {"h"}]
              \cup [kind : {"long"}, text : Names \cup {"help"}]

\* The Match of the four classes; a long string with a value matches like one without.
Match(a, string) ==
    CASE a.type = Command -> string.kind = "word" /\ string.text = a.name
      [] a.type = Positional -> a.sequence \/ a.name \notin m_foundArgs
      [] OTHER -> \/ string.kind = "short" /\ string.text = a.flag
                  \/ string.kind = "long" /\ string.text \in {a.name, a.alias}

\* The argument that takes a string: the first one of the parser that matches it.
Matches(string) == SelectSeq(m_args[parser], LAMBDA i : Match(arg[i], string))

Reset == m_foundArgs' = {} /\ m_command' = None

\* Process fails on the way: Parse resets the parser.
Fail ==
    /\ Reset
    /\ phase' = "idle" /\ parser' = Root /\ result' = "failure"
    /\ UNCHANGED <<arg, m_args>> /\ Forget

\* Parse enters Process with what is behind the offset.  The form for char** has
\* cut the line there already and passes offset on to the form for a vector, which
\* cuts as much again.  Bound: offset is 0 or, the default, 1.
Parse ==
    /\ phase = "idle"
    /\ phase' \in {"process", "cut"} /\ parser' = Root /\ result' = "none"
    /\ times' = [i \in DOMAIN arg |-> 0] /\ before' = m_foundArgs
    /\ UNCHANGED <<arg, m_args, m_foundArgs, m_command>>

\* The first argument of a line that is a char** is not looked at.
Cut ==
    /\ phase = "cut"
    /\ phase' = "process"
    /\ UNCHANGED <<arg, m_args, m_foundArgs, m_command, parser, result, times, before>>

\* Parse returns early for an empty list or a wrong offset.
ParseRefused ==
    /\ phase = "idle" /\ result' = "failure"
    /\ UNCHANGED <<arg, m_args, m_foundArgs, m_command, phase, parser>> /\ Forget

IsDuplicate(i) == arg[i].name \in m_foundArgs /\ ~arg[i].sequence

Duplicate(string) ==
    /\ phase = "process" /\ Matches(string) # <<>>
    /\ IsDuplicate(Matches(string)[1])
    /\ Fail

Count(i) == times' = [times EXCEPT ![i] = IF @ < 2 THEN @ + 1 ELSE 2]

\* MarkArgumentFound of a command's parser goes on to the root.
MarkArgumentFound(name) == m_foundArgs' = m_foundArgs \cup {name}

\* The argument takes the string, and a value, and its action succeeds.
Accept(string) ==
    LET i == Matches(string)[1]
    IN  /\ phase = "process" /\ Matches(string) # <<>>
        /\ ~IsDuplicate(i) /\ arg[i].type # Command /\ arg[i].name # "help"
        /\ MarkArgumentFound(arg[i].name) /\ Count(i)
        /\ UNCHANGED <<arg, m_args, m_command, phase, parser, result, before>>

\* There is no value, it does not convert, is not one of the choices, or the
\* action fails; the action of help always does.
Reject(string) ==
    /\ phase = "process" /\ Matches(string) # <<>>
    /\ arg[Matches(string)[1]].type # Command
    /\ Fail

\* The Parse of a command: its parser processes the rest.
Enter(string) ==
    LET i == Matches(string)[1]
    IN  /\ phase = "process" /\ Matches(string) # <<>>
        /\ ~IsDuplicate(i) /\ arg[i].type = Command
        /\ m_command' = arg[i].name /\ parser' = i /\ Count(i)
        /\ UNCHANGED <<arg, m_args, m_foundArgs, phase, result, before>>

Unrecognized(string) == phase = "process" /\ Matches(string) = <<>> /\ Fail

HasRequired_OfRoot ==
    \A i \in Elements(m_args[Root]) : arg[i].required => arg[i].name \in m_foundArgs

HasRequired ==
    \A i \in Elements(m_args[parser]) : arg[i].required => arg[i].name \in m_foundArgs

MissingRequired == phase \in {"process", "rest"} /\ ~HasRequired /\ Fail

\* The line ends: the root is done, a command's action is executed.
End ==
    /\ phase \in {"process", "rest"} /\ HasRequired
    /\ IF parser = Root THEN phase' = "idle" /\ result' = "success"
                        ELSE phase' = "execute" /\ result' = result
    /\ UNCHANGED <<arg, m_args, m_foundArgs, m_command, parser, times, before>>

Execute_Unmarked ==
    /\ phase = "execute"
    /\ phase' = "rest" /\ parser' = Root
    /\ UNCHANGED <<arg, m_args, m_foundArgs, m_command, result, times, before>>

\* Execute succeeds, and the root goes on with an empty line.
Execute ==
    /\ phase = "execute"
    /\ m_foundArgs' = m_foundArgs \cup {arg[parser].name}
    /\ phase' = "rest" /\ parser' = Root
    /\ UNCHANGED <<arg, m_args, m_command, result, times, before>>

ExecuteFails == phase = "execute" /\ Fail

ResetParser ==
    /\ phase = "idle" /\ Reset /\ result' = "none"
    /\ UNCHANGED <<arg, m_args, phase, parser>> /\ Forget

\* A bound: an alias is another name than that of the argument.
AddAny ==
    \/ \E p \in Parsers, type \in {Argument, Option, Positional}, name \in Names,
          flag \in Flags \cup {None}, required, sequence \in BOOLEAN :
             \E alias \in (Aliases \ {name}) \cup {None} : Add(p, type, name, alias, flag, required, sequence)
    \/ \E name \in Names : AddCommand(name)

Next ==
    \/ AddAny
    \/ Parse \/ Cut \/ ParseRefused \/ MissingRequired \/ End \/ Execute \/ ExecuteFails \/ ResetParser
    \/ \E string \in Strings :
          Duplicate(string) \/ Accept(string) \/ Reject(string) \/ Enter(string) \/ Unrecognized(string)

Spec == Init /\ [][Next]_vars

-----------------------------------------------------------------------------
(* Properties.                                                              *)

\* Type correctness; a parser only has arguments that were made.
TypeOK ==
    /\ \A p \in Parsers : Elements(m_args[p]) \subseteq DOMAIN arg /\ p \in {Root} \cup DOMAIN arg
    /\ m_foundArgs \subseteq Names /\ m_command \in Names \cup {None}
    /\ phase \in {"idle", "cut", "process", "execute", "rest"} /\ parser \in Parsers
    /\ result \in {"none", "success", "failure"}
    /\ times \in [DOMAIN arg -> 0 .. 2] /\ before \subseteq Names

\* One line never gives an argument twice, unless it is a sequence, not even one
\* time before a command and one time behind it.  What IsArgumentFound answers
\* after a successful Parse: the names that were read on the line, for the root and
\* for the command, and what was found on the lines before it, since a Parse that
\* succeeds does not reset.  Everything on the line is read but what Cut loses.
FoundIsLine ==
    /\ \A i \in DOMAIN arg : times[i] > 1 => arg[i].sequence
    /\ result = "success" => m_foundArgs = before \cup {arg[i].name : i \in {j \in DOMAIN arg : times[j] > 0}}

\* A successful Parse has seen the required arguments of the root and of the
\* command that was executed, on its line or on one before it; and between two calls of Parse, Command() is a
\* command that is found as well.
RequiredGiven ==
    /\ result = "success" =>
        \A p \in {Root} \cup {c \in Parsers \ {Root} : times[c] > 0} :
           \A i \in Elements(m_args[p]) :
              arg[i].required => \/ arg[i].name \in before
                                 \/ \E j \in DOMAIN arg : arg[j].name = arg[i].name /\ times[j] > 0
    /\ phase = "idle" /\ m_command # None => m_command \in m_foundArgs

\* A command understands each argument and option of the root, in whatever order
\* the program has added them and the command, and a positional, which matches
\* every string, comes behind everything else.
ParsersBuilt ==
    /\ \A i \in Elements(m_args[Root]), c \in Parsers \ {Root} :
          Shared(arg[i]) => Cardinality({k \in DOMAIN m_args[c] : m_args[c][k] = i}) = 1
    /\ \A p \in Parsers : \A i, j \in DOMAIN m_args[p] :
          i < j /\ arg[m_args[p][i]].type = Positional => arg[m_args[p][j]].type = Positional
==============================================================================
