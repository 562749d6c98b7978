------------------------------- MODULE Console -------------------------------
(***************************************************************************)
(* The setup shell's terminal (src/shell.c): the line it reads and echoes, *)
(* the words it cuts the line into, in place, and the one command that     *)
(* changes neither configuration nor power, identify, with the LED thread. *)
(* What the other commands do is in Shell and Device.                      *)
(*                                                                         *)
(* A char * into the line is its offset, and -1 is NULL.                   *)
(***************************************************************************)
EXTENDS Integers, Sequences, LED

CONSTANTS
    Letters,    \* the printing characters but the blank
    Size,       \* PDBS_SHELL_MAX_LINE_LENGTH
    MaxArgs,    \* PDBS_SHELL_MAX_ARGUMENTS
    Identify    \* the word "identify"

NUL == "end"
BS == "back"
Blank == "blank"
Prompt == "prompt"
Char == Letters \cup {Blank}
Cell == Char \cup {NUL}
NULL == -1

ASSUME ConsoleAssumption ==
    /\ Size \in Nat \ {0} /\ MaxArgs \in Nat
    /\ Identify \in Seq(Letters)
    /\ Letters \cap {NUL, BS, Blank} = {}

VARIABLES
    pc,     \* what the thread does: "read" a line, "cut" it, "collect" the
            \* arguments, "run" the command
    line,   \* the buffer
    p,      \* where shellGetLine puts the next character
    tty,    \* the row of the terminal, from the end of the prompt
    tokp,   \* _strtok's saved pointer
    cmd, args,
    led,
    typed   \* what the line was when Enter was pressed: no variable of the code

parse == <<tokp, cmd, args>>
vars == <<pc, line, p, tty, parse, led, typed>>

-----------------------------------------------------------------------------
(* The terminal: a character overwrites a cell, a backspace steps back.    *)
Put(t, c) == IF c = BS THEN [t EXCEPT !.col = @ - 1]
             ELSE [cells |-> [t.cells EXCEPT ![t.col] = c], col |-> t.col + 1]
EmptyRow == [cells |-> [k \in -1..(Size - 1) |-> IF k < 0 THEN Prompt ELSE Blank],
             col |-> 0]

(* Strings in the line.                                                    *)
First(S) == CHOOSE k \in S : \A j \in S : k <= j
End(l, q) == First({k \in q..(Size - 1) : l[k] = NUL})
Text(l, q) == [k \in 1..(End(l, q) - q) |-> l[q + k - 1]]

\* Mutant: the saved pointer is left on the 0 that ends the token.
strtok_stays(l, from) ==
    LET start == First({k \in from..End(l, from) : l[k] # Blank})
        ends == {k \in start..End(l, start) : l[k] = Blank}
    IN [token |-> IF l[start] = NUL THEN NULL ELSE start,
        line |-> IF ends = {} THEN l ELSE [l EXCEPT ![First(ends)] = NUL],
        next |-> IF ends = {} THEN NULL ELSE First(ends)]

\* strspn, strpbrk, and a 0 over the blank that ends the token.
_strtok(l, from) ==
    LET start == First({k \in from..End(l, from) : l[k] # Blank})
        ends == {k \in start..End(l, start) : l[k] = Blank}
    IN [token |-> IF l[start] = NUL THEN NULL ELSE start,
        line |-> IF ends = {} THEN l ELSE [l EXCEPT ![First(ends)] = NUL],
        next |-> IF ends = {} THEN NULL ELSE First(ends) + 1]

-----------------------------------------------------------------------------
(* The buffer is on the stack: what it holds at first is anything.         *)
Init == /\ pc = "read"
        /\ line \in [0..(Size - 1) -> Cell]
        /\ p = 0
        /\ tty = EmptyRow
        /\ tokp = NULL /\ cmd = NULL /\ args = <<>>
        /\ led = Signalled(LEDInit, CONFIG)
        /\ typed = <<>>

\* A prompt on a new row.
Again == pc' = "read" /\ p' = 0 /\ tty' = EmptyRow /\ typed' = <<>>

(* shellGetLine. Control characters other than these are ignored, a tab    *)
(* too; so is what the buffer has no room for.                             *)
CtrlD == /\ pc = "read"
         /\ Again
         /\ UNCHANGED <<line, parse, led>>

\* Mutant: an empty line is not looked for before the terminal is told.
delete_always ==
    /\ pc = "read"
    /\ tty' = Put(Put(Put(tty, BS), Blank), BS)
    /\ p' = IF p # 0 THEN p - 1 ELSE p
    /\ UNCHANGED <<pc, line, parse, led, typed>>

Delete == /\ pc = "read"
          /\ p # 0
          /\ tty' = Put(Put(Put(tty, BS), Blank), BS)
          /\ p' = p - 1
          /\ UNCHANGED <<pc, line, parse, led, typed>>

Type(c) == /\ pc = "read"
           /\ p < Size - 1
           /\ tty' = Put(tty, c)
           /\ line' = [line EXCEPT ![p] = c]
           /\ p' = p + 1
           /\ UNCHANGED <<pc, parse, led, typed>>

Enter == /\ pc = "read"
         /\ line' = [line EXCEPT ![p] = NUL]
         /\ typed' = [k \in 1..p |-> line[k - 1]]
         /\ pc' = "cut"
         /\ UNCHANGED <<p, tty, parse, led>>

(* pdbs_shell.                                                             *)
Cut == /\ pc = "cut"
       /\ LET t == _strtok(line, 0) IN
          line' = t.line /\ tokp' = t.next /\ cmd' = t.token
       /\ args' = <<>>
       /\ pc' = "collect"
       /\ UNCHANGED <<p, tty, led, typed>>

NoMoreTokens == /\ pc = "collect"
                /\ tokp # NULL => _strtok(line, tokp).token = NULL
                /\ tokp' = NULL
                /\ pc' = "run"
                /\ UNCHANGED <<line, p, tty, cmd, args, led, typed>>

\* "If we have too many tokens, abort."
Collect == /\ pc = "collect"
           /\ tokp # NULL
           /\ LET t == _strtok(line, tokp) IN
              /\ t.token # NULL
              /\ line' = t.line /\ tokp' = t.next
              /\ IF Len(args) >= MaxArgs
                 THEN cmd' = NULL /\ pc' = "run" /\ UNCHANGED args
                 ELSE args' = Append(args, t.token) /\ UNCHANGED <<pc, cmd>>
           /\ UNCHANGED <<p, tty, led, typed>>

\* help, the table's commands, and the answer "?" to any other.
Run == /\ pc = "run"
       /\ led' = IF cmd # NULL /\ Text(line, cmd) = Identify /\ args = <<>>
                 THEN Signalled(led, IDENTIFY) ELSE led
       /\ Again
       /\ UNCHANGED <<line, parse>>

Tick == ~led.steady /\ led' = Ticked(led) /\ UNCHANGED <<pc, line, p, tty, parse, typed>>

Next == \/ CtrlD \/ Delete \/ Enter \/ \E c \in Char : Type(c)
        \/ Cut \/ NoMoreTokens \/ Collect \/ Run
        \/ Tick

\* The LED's virtual timer fires, whatever is typed.
Spec == Init /\ [][Next]_vars /\ WF_vars(Tick)

-----------------------------------------------------------------------------
(* Properties.                                                             *)

\* What the user sees after the prompt is what the buffer holds, and all that it
\* holds: after deletions, at either end of the line, and after ^D.
ScreenShowsLine ==
    pc = "read" =>
        /\ tty.col = p
        /\ \A k \in 0..(Size - 1) : tty.cells[k] = IF k < p THEN line[k] ELSE Blank
        /\ tty.cells[-1] = Prompt

\* Where the words of t begin, and the word that begins at i.
Starts(t) == {i \in 1..Len(t) : t[i] # Blank /\ (i > 1 => t[i - 1] = Blank)}
Word(t, i) ==
    SubSeq(t, i, CHOOSE j \in i..Len(t) : /\ \A k \in i..j : t[k] # Blank
                                          /\ j < Len(t) => t[j + 1] = Blank)

\* The command and its arguments are the words that were typed, in their order,
\* whatever the buffer held before and wherever the blanks are; with too many
\* there is no command.
ParseIsWords ==
    pc = "run" =>
        LET found == (IF cmd = NULL THEN <<>> ELSE <<cmd>>) \o args
            starts == Starts(typed)
        IN IF Cardinality(starts) > MaxArgs + 1 THEN cmd = NULL
           ELSE /\ {found[i] + 1 : i \in 1..Len(found)} = starts
                /\ \A i, j \in 1..Len(found) : i < j => found[i] < found[j]
                /\ \A i \in 1..Len(found) :
                     Text(line, found[i]) = Word(typed, found[i] + 1)

\* Identifying the device ends, and the LED says again that it is in setup mode,
\* however often it is asked for.
IdentifyEnds == led.state = IDENTIFY ~> led.state = CONFIG
=============================================================================
