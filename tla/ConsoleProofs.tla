---------------------------- MODULE ConsoleProofs ----------------------------
(***************************************************************************)
(* What the terminal shows is what the line buffer holds, and the command  *)
(* that runs is the words typed, for every size of the buffer, number of   *)
(* arguments and alphabet, with the LED thread running beside.             *)
(***************************************************************************)
EXTENDS Console, SequenceTheorems, FiniteSetTheorems, WellFoundedInduction, TLAPS

\* The offset stays in the buffer, with room for the 0 that ends the line; the
\* terminal's row has the buffer's width.
InLine ==
    /\ p \in 0..(Size - 1)
    /\ line \in [0..(Size - 1) -> Cell]
    /\ tty.cells \in [-1..(Size - 1) -> Cell \cup {Prompt}]
    /\ tty = [cells |-> tty.cells, col |-> tty.col]
    /\ pc \in {"read", "cut", "collect", "run"}

\* Neither the offset nor the row changes when a command runs.
Inv == InLine /\ ScreenShowsLine

\* A prompt on an empty row shows the empty line.
LEMMA PromptShows == ASSUME Inv, Again, line' \in [0..(Size - 1) -> Cell]
                     PROVE  Inv'
  <1>1. Size \in Nat \ {0} BY ConsoleAssumption
  <1> QED BY <1>1 DEF Inv, InLine, ScreenShowsLine, Again, EmptyRow, Cell, Char

\* Three characters to the terminal take one away: the last.
LEMMA DeleteShows == ASSUME Inv, Delete PROVE Inv'
  <1>0. Size \in Nat \ {0} /\ BS # Blank BY ConsoleAssumption DEF BS, Blank
  <1> DEFINE erased == [tty.cells EXCEPT ![p - 1] = Blank]
  <1>1. tty.col = p /\ p \in 1..(Size - 1) BY <1>0 DEF Inv, InLine, ScreenShowsLine, Delete
  <1>2. Put(tty, BS) = [cells |-> tty.cells, col |-> p - 1]
    BY <1>1 DEF Put, Inv, InLine
  <1>3. Put(Put(tty, BS), Blank) = [cells |-> erased, col |-> p]
    BY <1>0, <1>1, <1>2 DEF Put
  <1>4. tty' = [cells |-> erased, col |-> p - 1]
    BY <1>1, <1>3 DEF Put, Delete
  <1>5. erased \in [-1..(Size - 1) -> Cell \cup {Prompt}]
    BY <1>0 DEF Inv, InLine, Cell, Char
  <1> HIDE DEF erased
  <1>6. InLine' BY <1>0, <1>1, <1>4, <1>5 DEF Inv, InLine, Delete
  <1>7. ScreenShowsLine'
    BY <1>0, <1>1, <1>4 DEF Inv, InLine, ScreenShowsLine, Delete, erased
  <1> QED BY <1>6, <1>7 DEF Inv

\* A character goes to the same place of the buffer and of the row.
LEMMA TypeShows == ASSUME Inv, NEW c \in Char, Type(c) PROVE Inv'
  <1>0. Size \in Nat \ {0} /\ c # BS BY ConsoleAssumption DEF BS, Blank, Char
  <1> DEFINE added == [tty.cells EXCEPT ![p] = c]
  <1>1. tty.col = p /\ p \in 0..(Size - 2) BY <1>0 DEF Inv, InLine, ScreenShowsLine, Type
  <1>2. tty' = [cells |-> added, col |-> p + 1]
    BY <1>0, <1>1 DEF Put, Type
  <1>3. added \in [-1..(Size - 1) -> Cell \cup {Prompt}]
    BY <1>0 DEF Inv, InLine, Cell
  <1>4. line' = [line EXCEPT ![p] = c] /\ line' \in [0..(Size - 1) -> Cell]
    BY <1>0, <1>1 DEF Inv, InLine, Type, Cell
  <1>5. InLine' BY <1>0, <1>1, <1>2, <1>3, <1>4 DEF Inv, InLine, Type
  <1>6. ScreenShowsLine'
    BY <1>0, <1>1, <1>2, <1>4 DEF Inv, InLine, ScreenShowsLine, Type
  <1> QED BY <1>5, <1>6 DEF Inv

\* Cutting a token puts a 0 into the line, or leaves it.
LEMMA TokenInLine ==
    ASSUME line \in [0..(Size - 1) -> Cell], NEW from
    PROVE  _strtok(line, from).line \in [0..(Size - 1) -> Cell]
  BY DEF _strtok, Cell

\* Every step keeps the invariant.
LEMMA NextKeepsInv == ASSUME Inv, [Next]_vars PROVE Inv'
  <1>0. Size \in Nat \ {0} BY ConsoleAssumption
  <1>1. CASE CtrlD BY <1>1, PromptShows DEF CtrlD, Inv, InLine
  <1>2. CASE Delete BY <1>2, DeleteShows
  <1>3. CASE \E c \in Char : Type(c) BY <1>3, TypeShows
  <1>4. CASE Enter
    BY <1>0, <1>4 DEF Enter, Inv, InLine, ScreenShowsLine, Cell
  <1>5. CASE Cut
    <2>1. line' \in [0..(Size - 1) -> Cell]
      BY <1>5, TokenInLine DEF Cut, Inv, InLine
    <2> QED BY <1>5, <2>1 DEF Cut, Inv, InLine, ScreenShowsLine
  <1>6. CASE NoMoreTokens
    BY <1>6 DEF NoMoreTokens, Inv, InLine, ScreenShowsLine
  <1>7. CASE Collect
    <2>1. line' \in [0..(Size - 1) -> Cell]
      BY <1>7, TokenInLine DEF Collect, Inv, InLine
    <2>2. pc' \in {"run", "collect"} /\ p' = p /\ tty' = tty
      BY <1>7 DEF Collect
    <2> QED BY <2>1, <2>2 DEF Inv, InLine, ScreenShowsLine
  <1>8. CASE Run BY <1>8, PromptShows DEF Run, Inv, InLine
  <1>9. CASE Tick BY <1>9 DEF Tick, Inv, InLine, ScreenShowsLine
  <1>10. CASE UNCHANGED vars BY <1>10 DEF vars, Inv, InLine, ScreenShowsLine
  <1> QED BY <1>1, <1>2, <1>3, <1>4, <1>5, <1>6, <1>7, <1>8, <1>9, <1>10 DEF Next

\* The user sees what the shell will read: shellGetLine echoes and deletes in
\* step with its buffer, whatever its size.
THEOREM ScreenIsLine == Spec => []ScreenShowsLine
  <1>1. Init => Inv
    <2>0. Size \in Nat \ {0} BY ConsoleAssumption
    <2> QED BY <2>0 DEF Init, Inv, InLine, ScreenShowsLine, EmptyRow, Cell, Char
  <1>2. Inv /\ [Next]_vars => Inv' BY NextKeepsInv
  <1>3. Inv => ScreenShowsLine BY DEF Inv
  <1> QED BY <1>1, <1>2, <1>3, PTL DEF Spec

\* shellGetLine writes no character outside its buffer, and leaves room for the
\* 0 that ends the line.
THEOREM StaysInLine == Spec => [](p \in 0..(Size - 1))
  <1>1. Init => Inv
    <2>0. Size \in Nat \ {0} BY ConsoleAssumption
    <2> QED BY <2>0 DEF Init, Inv, InLine, ScreenShowsLine, EmptyRow, Cell, Char
  <1>2. Inv /\ [Next]_vars => Inv' BY NextKeepsInv
  <1>3. Inv => p \in 0..(Size - 1) BY DEF Inv, InLine
  <1> QED BY <1>1, <1>2, <1>3, PTL DEF Spec

-----------------------------------------------------------------------------
(* Scanning a line.                                                        *)

\* A set of offsets has a first one.
LEMMA Firsts ==
    ASSUME NEW S \in SUBSET Nat, S # {}
    PROVE  First(S) \in S /\ \A k \in S : First(S) <= k
<1> DEFINE R == OpToRel(<, Nat)
<1>1. IsWellFoundedOn(R, Nat) BY NatLessThanWellFounded
<1>2. \A x, y \in Nat : <<x, y>> \in R <=> x < y BY DEF OpToRel
<1> HIDE DEF R
<1>3. PICK m \in S : \A k \in S : ~(<<k, m>> \in R) BY <1>1, WFMin
<1>4. \A k \in S : m <= k
  <2>1. SUFFICES ASSUME NEW k \in S PROVE m <= k OBVIOUS
  <2>2. k \in Nat /\ m \in Nat /\ ~(k < m) BY <1>2, <1>3
  <2>3. QED BY <2>2
<1>5. QED BY <1>4, Zenon DEF First

\* The first offset of which something holds.
LEMMA FirstIs ==
    ASSUME NEW S \in SUBSET Nat, NEW m \in S, \A k \in S : m <= k
    PROVE  First(S) = m
<1>1. First(S) \in S /\ First(S) <= m BY Firsts
<1>2. First(S) \in Nat /\ m \in Nat /\ m <= First(S) BY <1>1
<1>3. QED BY <1>1, <1>2

Lines == [0..(Size - 1) -> Cell]

\* The 0 that ends a string is the first one.
LEMMA EndIs ==
    ASSUME NEW l \in Lines, NEW q \in Nat, NEW e \in q..(Size - 1), l[e] = NUL,
           \A k \in q..(e - 1) : l[k] # NUL
    PROVE  End(l, q) = e
<1> DEFINE S == {k \in q..(Size - 1) : l[k] = NUL}
<1>1. Size \in Nat BY ConsoleAssumption
<1>2. S \in SUBSET Nat /\ e \in S BY <1>1
<1>3. \A k \in S : e <= k
  <2>1. SUFFICES ASSUME NEW k \in S PROVE e <= k OBVIOUS
  <2>2. k \in q..(Size - 1) /\ l[k] = NUL /\ e \in Nat BY <1>2
  <2>3. ~(k \in q..(e - 1)) BY <2>2
  <2>4. QED BY <1>1, <2>2, <2>3
<1> HIDE DEF S
<1>4. First(S) = e BY <1>2, <1>3, FirstIs
<1>5. QED BY <1>4 DEF S, End

\* The characters are none of the other two.
LEMMA Chars == NUL \notin Char /\ Blank \in Char /\ NUL # Blank
BY ConsoleAssumption DEF Char, NUL, Blank, BS

\* What _strtok makes of the rest of a line, from an offset on: there are only
\* blanks, or the first word is a token and what follows it begins after the 0.
Scanned(l, from, n, t) ==
    \/ /\ t.token = NULL /\ t.line = l /\ t.next = NULL
       /\ \A k \in from..(n - 1) : l[k] = Blank
    \/ \E s \in from..(n - 1), e \in 1..n :
         /\ s < e /\ t.token = s
         /\ \A k \in from..(s - 1) : l[k] = Blank
         /\ \A k \in s..(e - 1) : l[k] # Blank
         /\ \/ e = n /\ t.line = l /\ t.next = NULL
            \/ /\ e < n /\ l[e] = Blank
               /\ t.line = [l EXCEPT ![e] = NUL] /\ t.next = e + 1

LEMMA OneToken ==
    ASSUME NEW l, NEW from, NEW n, NEW t, NEW s \in from..(n - 1), NEW e \in 1..n,
           s < e, t.token = s, \A k \in from..(s - 1) : l[k] = Blank,
           \A k \in s..(e - 1) : l[k] # Blank,
           \/ e = n /\ t.line = l /\ t.next = NULL
           \/ /\ e < n /\ l[e] = Blank
              /\ t.line = [l EXCEPT ![e] = NUL] /\ t.next = e + 1
    PROVE  Scanned(l, from, n, t)
BY Zenon DEF Scanned

LEMMA Scans ==
    ASSUME NEW l \in Lines, NEW n \in 0..(Size - 1), l[n] = NUL,
           NEW from \in 0..n, \A k \in from..(n - 1) : l[k] \in Char
    PROVE  Scanned(l, from, n, _strtok(l, from))
<1> DEFINE S == {k \in from..End(l, from) : l[k] # Blank}
           s == First(S)
           ends == {k \in s..End(l, s) : l[k] = Blank}
           t == _strtok(l, from)
<1>0. Size \in Nat BY ConsoleAssumption
<1>1. End(l, from) = n BY <1>0, EndIs, Chars
<1>2. S = {k \in from..n : l[k] # Blank} BY <1>1
<1>3. S \in SUBSET Nat /\ n \in S BY <1>2, Chars
<1>4. s \in S /\ \A k \in S : s <= k BY <1>3, Firsts
<1>5. s \in from..n /\ l[s] # Blank BY <1>2, <1>4
<1>6. \A k \in from..(s - 1) : l[k] = Blank
  <2>1. SUFFICES ASSUME NEW k \in from..(s - 1), l[k] # Blank PROVE FALSE OBVIOUS
  <2>2. k \in S BY <1>2, <1>5, <2>1
  <2>3. QED BY <1>4, <1>5, <2>1, <2>2
<1>7. /\ t.token = IF l[s] = NUL THEN NULL ELSE s
      /\ t.line = IF ends = {} THEN l ELSE [l EXCEPT ![First(ends)] = NUL]
      /\ t.next = IF ends = {} THEN NULL ELSE First(ends) + 1
  BY DEF _strtok
<1>13. SUFFICES Scanned(l, from, n, t) OBVIOUS
<1> HIDE DEF S, s, t
<1>8. End(l, s) = n
  <2>1. s \in Nat /\ n \in s..(Size - 1) BY <1>0, <1>5
  <2>2. \A k \in s..(n - 1) : l[k] # NUL BY <1>5, Chars
  <2>3. QED BY <2>1, <2>2, EndIs
<1>9. ends = {k \in s..n : l[k] = Blank} BY <1>8
<1> HIDE DEF ends
<1>10. CASE s = n
  <2>1. ends = {} BY <1>5, <1>9, <1>10
  <2>2. /\ t.token = NULL /\ t.line = l /\ t.next = NULL
        /\ \A k \in from..(n - 1) : l[k] = Blank
    BY <1>6, <1>7, <1>10, <2>1
  <2>3. QED BY <2>2, Zenon DEF Scanned
<1>11. CASE s # n
  <2>1. s \in from..(n - 1) /\ s \in Nat BY <1>5, <1>11
  <2>2. t.token = s BY <1>7, <2>1, Chars
  <2>3. CASE ends = {}
    <3>1. \A k \in s..(n - 1) : l[k] # Blank BY <1>9, <2>1, <2>3
    <3>2. n \in 1..n /\ s < n BY <2>1
    <3>3. t.line = l /\ t.next = NULL BY <1>7, <2>3
    <3>4. QED BY <1>6, <2>1, <2>2, <3>1, <3>2, <3>3, OneToken
  <2>4. CASE ends # {}
    <3> DEFINE e == First(ends)
    <3>1. ends \in SUBSET Nat BY <1>9, <2>1
    <3>2. e \in ends /\ \A k \in ends : e <= k BY <2>4, <3>1, Firsts
    <3> HIDE DEF e
    <3>3. e \in s..n /\ l[e] = Blank BY <1>9, <3>2
    <3>4. e # n /\ e # s BY <1>5, <3>3, Chars
    <3>5. e \in 1..n /\ s < e /\ e < n BY <2>1, <3>3, <3>4
    <3>6. \A k \in s..(e - 1) : l[k] # Blank
      <4>1. SUFFICES ASSUME NEW k \in s..(e - 1), l[k] = Blank PROVE FALSE OBVIOUS
      <4>2. k \in ends BY <1>9, <2>1, <3>5, <4>1
      <4>3. QED BY <2>1, <3>2, <3>5, <4>1, <4>2
    <3>7. t.line = [l EXCEPT ![e] = NUL] /\ t.next = e + 1 BY <1>7, <2>4 DEF e
    <3>8. QED BY <1>6, <2>1, <2>2, <3>3, <3>5, <3>6, <3>7, OneToken
  <2>5. QED BY <2>3, <2>4
<1>12. QED BY <1>10, <1>11

-----------------------------------------------------------------------------
(* Words.                                                                  *)

\* A word of text t lies at the offsets q to e of line l, with a 0 after it.
WordAt(l, t, q, e) ==
    /\ l[e] = NUL
    /\ \A k \in q..(e - 1) : l[k] = t[k + 1] /\ l[k] # Blank
    /\ e < Len(t) => t[e + 1] = Blank

LEMMA TextIsWord ==
    ASSUME NEW l \in Lines, NEW t \in Seq(Char), Len(t) \in 0..(Size - 1),
           NEW q \in Nat, NEW e \in (q + 1)..Len(t), WordAt(l, t, q, e)
    PROVE  Text(l, q) = Word(t, q + 1)
<1> DEFINE n == Len(t)
           IsEnd(j) == /\ \A k \in (q + 1)..j : t[k] # Blank
                       /\ j < n => t[j + 1] = Blank
           j == CHOOSE j \in (q + 1)..n : IsEnd(j)
           text == Text(l, q)
           word == SubSeq(t, q + 1, e)
<1>0. n \in Nat /\ n < Size /\ e \in Nat /\ q < e /\ Size \in Nat
  BY ConsoleAssumption
<1>1. \A k \in q..(e - 1) : l[k] = t[k + 1] /\ l[k] \in Char /\ l[k] # Blank
  <2>1. \A k \in 1..n : t[k] \in Char BY ElementOfSeq
  <2>2. \A k \in q..(e - 1) : k + 1 \in 1..n BY <1>0
  <2>3. QED BY <2>1, <2>2 DEF WordAt
<1>2. End(l, q) = e
  <2>1. e \in q..(Size - 1) BY <1>0
  <2>2. \A k \in q..(e - 1) : l[k] # NUL BY <1>1, Chars
  <2>3. QED BY <2>1, <2>2, EndIs DEF WordAt
<1>3. text = [k \in 1..(e - q) |-> l[q + k - 1]] BY <1>2 DEF Text
<1>4. \A k \in 1..(e - q) : text[k] = t[q + k] /\ text[k] \in Char
  <2>1. SUFFICES ASSUME NEW k \in 1..(e - q)
                 PROVE  text[k] = t[q + k] /\ text[k] \in Char
    OBVIOUS
  <2>2. q + k - 1 \in q..(e - 1) /\ (q + k - 1) + 1 = q + k BY <1>0, <2>1
  <2>3. text[k] = l[q + k - 1] BY <1>3
  <2>4. QED BY <1>1, <2>2, <2>3
<1>5. text \in Seq(Char) /\ Len(text) = e - q
  <2> HIDE DEF text
  <2>1. e - q \in Nat BY <1>0
  <2>2. text \in [1..(e - q) -> Char] BY <1>3, <1>4
  <2>3. QED BY <2>1, <2>2
<1>6. word \in Seq(Char) /\ Len(word) = e - q
      /\ \A k \in 1..(e - q) : word[k] = t[q + k]
  <2>1. \A k \in (q + 1)..e : t[k] \in Char
    <3>1. \A k \in (q + 1)..e : k \in 1..n BY <1>0
    <3>2. QED BY <3>1, ElementOfSeq
  <2>2. q + 1 \in Int /\ e \in Int /\ e - (q + 1) + 1 = e - q BY <1>0
  <2>3. \A k \in 1..(e - q) : (q + 1) + k - 1 = q + k BY <1>0
  <2>4. /\ word \in Seq(Char)
        /\ Len(word) = IF q + 1 <= e THEN e - (q + 1) + 1 ELSE 0
        /\ \A k \in 1..(e - (q + 1) + 1) : word[k] = t[(q + 1) + k - 1]
    BY <2>1, <2>2, SubSeqProperties
  <2>5. QED BY <1>0, <2>2, <2>3, <2>4
<1>7. text = word
  <2> HIDE DEF text, word
  <2>1. \A k \in 1..Len(text) : text[k] = word[k] BY <1>4, <1>5, <1>6
  <2>2. QED BY <1>5, <1>6, <2>1, SeqEqual
<1>8. IsEnd(e)
  <2>1. \A k \in (q + 1)..e : t[k] # Blank
    <3>1. SUFFICES ASSUME NEW k \in (q + 1)..e PROVE t[k] # Blank OBVIOUS
    <3>2. k - 1 \in q..(e - 1) /\ (k - 1) + 1 = k BY <1>0, <3>1
    <3>3. QED BY <1>1, <3>2
  <2>2. QED BY <2>1 DEF WordAt
<1>9. \A m \in (q + 1)..n : IsEnd(m) => m = e
  <2>1. SUFFICES ASSUME NEW m \in (q + 1)..n, IsEnd(m), m # e PROVE FALSE OBVIOUS
  <2>2. CASE m < e
    <3>1. m \in q..(e - 1) /\ m < n BY <1>0, <2>1, <2>2
    <3>2. QED BY <1>1, <2>1, <3>1
  <2>3. CASE e < m
    <3>1. e < n /\ e + 1 \in (q + 1)..m BY <1>0, <2>1, <2>3
    <3>2. t[e + 1] = Blank BY <3>1 DEF WordAt
    <3>3. QED BY <2>1, <3>1, <3>2
  <2>4. QED BY <1>0, <2>1, <2>2, <2>3
<1>10. j = e
  <2> HIDE DEF IsEnd
  <2>1. \E m \in (q + 1)..n : IsEnd(m) BY <1>8
  <2>2. j \in (q + 1)..n /\ IsEnd(j) BY <2>1
  <2>3. QED BY <1>9, <2>2
<1>11. Word(t, q + 1) = SubSeq(t, q + 1, j) BY DEF Word
<1>12. QED BY <1>7, <1>10, <1>11

\* The words that begin before a place.
Before(t, m) == {i \in Starts(t) : i <= m}

\* Where there are only blanks no word begins.
LEMMA NoStart ==
    ASSUME NEW t \in Seq(Char), NEW from \in 0..Len(t),
           \A k \in from..(Len(t) - 1) : t[k + 1] = Blank
    PROVE  Starts(t) = Before(t, from)
<1>1. \A i \in Starts(t) : i <= from
  <2>1. SUFFICES ASSUME NEW i \in Starts(t), ~(i <= from) PROVE FALSE OBVIOUS
  <2>2. i \in 1..Len(t) /\ t[i] # Blank BY DEF Starts
  <2>3. i - 1 \in from..(Len(t) - 1) /\ (i - 1) + 1 = i BY <2>1, <2>2
  <2>4. QED BY <2>2, <2>3
<1>2. QED BY <1>1 DEF Before

\* After place from of text t a word lies at the offsets s to e, with only blanks
\* before it; the next one begins after place past.
NextWord(t, from, s, e, past) ==
    /\ from # 0 => t[from] = Blank
    /\ s < e
    /\ \A k \in from..(s - 1) : t[k + 1] = Blank
    /\ \A k \in s..(e - 1) : t[k + 1] # Blank
    /\ \/ past = e /\ e = Len(t)
       \/ past = e + 1 /\ t[e + 1] = Blank /\ e < Len(t)

\* Up to the end of the first word of the rest one more word begins.
LEMMA OneStart ==
    ASSUME NEW t \in Seq(Char), NEW from \in 0..Len(t),
           NEW s \in from..(Len(t) - 1), NEW e \in 1..Len(t), NEW past,
           NextWord(t, from, s, e, past)
    PROVE  Before(t, past) = Before(t, from) \cup {s + 1} /\ s + 1 \notin Before(t, from)
<1>0. /\ from # 0 => t[from] = Blank
      /\ s < e
      /\ \A k \in from..(s - 1) : t[k + 1] = Blank
      /\ \A k \in s..(e - 1) : t[k + 1] # Blank
      /\ \/ past = e /\ e = Len(t)
         \/ past = e + 1 /\ t[e + 1] = Blank /\ e < Len(t)
  BY DEF NextWord
<1> USE <1>0
<1>1. s + 1 \notin Before(t, from) BY DEF Before
<1>2. s + 1 \in Before(t, past)
  <2>1. s + 1 \in 1..Len(t) /\ t[s + 1] # Blank /\ s + 1 <= past OBVIOUS
  <2>2. s + 1 > 1 => t[(s + 1) - 1] = Blank
    <3>1. SUFFICES ASSUME s + 1 > 1 PROVE t[s] = Blank OBVIOUS
    <3>2. CASE s = from BY <3>1, <3>2
    <3>3. CASE s # from
      <4>1. s - 1 \in from..(s - 1) /\ (s - 1) + 1 = s BY <3>3
      <4>2. QED BY <4>1
    <3>4. QED BY <3>2, <3>3
  <2>3. QED BY <2>1, <2>2 DEF Before, Starts
<1>3. \A i \in Before(t, from) : i \in Before(t, past)
  <2>1. from <= past OBVIOUS
  <2>2. QED BY <2>1 DEF Before, Starts
<1>4. \A i \in Before(t, past) : i \in Before(t, from) \/ i = s + 1
  <2>1. SUFFICES ASSUME NEW i \in Before(t, past), i > from, i # s + 1 PROVE FALSE
    BY DEF Before, Starts
  <2>2. /\ i \in 1..Len(t) /\ i <= past /\ t[i] # Blank
        /\ i > 1 => t[i - 1] = Blank
    BY DEF Before, Starts
  <2>3. CASE i <= s
    <3>1. i - 1 \in from..(s - 1) /\ (i - 1) + 1 = i BY <2>1, <2>2, <2>3
    <3>2. QED BY <2>2, <3>1
  <2>4. CASE i > s + 1 /\ i <= e
    <3>1. i - 2 \in s..(e - 1) /\ (i - 2) + 1 = i - 1 /\ i > 1 BY <2>2, <2>4
    <3>2. QED BY <2>2, <3>1
  <2>5. CASE i > e BY <2>2, <2>5
  <2>6. QED BY <2>1, <2>2, <2>3, <2>4, <2>5
<1>5. QED BY <1>1, <1>2, <1>3, <1>4

\* Finitely many words begin in a line.
LEMMA FewStarts ==
    ASSUME NEW t \in Seq(Char), NEW m
    PROVE  /\ IsFiniteSet(Starts(t)) /\ IsFiniteSet(Before(t, m))
           /\ Cardinality(Before(t, m)) <= Cardinality(Starts(t))
           /\ Cardinality(Starts(t)) \in Nat /\ Cardinality(Before(t, m)) \in Nat
<1>1. Len(t) \in Nat BY LenProperties
<1>2. IsFiniteSet(1..Len(t)) BY <1>1, FS_Interval
<1>3. Starts(t) \in SUBSET (1..Len(t)) BY DEF Starts
<1>4. IsFiniteSet(Starts(t)) BY <1>2, <1>3, FS_Subset
<1>5. Before(t, m) \in SUBSET Starts(t) BY DEF Before
<1>6. IsFiniteSet(Before(t, m)) /\ Cardinality(Before(t, m)) <= Cardinality(Starts(t))
  BY <1>4, <1>5, FS_Subset
<1>7. QED BY <1>4, <1>6, FS_CardinalityType

-----------------------------------------------------------------------------
(* Parsing.                                                                *)

\* The offsets f are those of the words of text t that begin up to place m, in
\* their order, and each has been cut out of line l.
Parsed(f, l, t, m) ==
    /\ f \in Seq(Nat)
    /\ \A i, j \in 1..Len(f) : i < j => f[i] < f[j]
    /\ {f[i] + 1 : i \in 1..Len(f)} = Before(t, m)
    /\ Cardinality(Before(t, m)) = Len(f)
    /\ \A i \in 1..Len(f) : \E e \in (f[i] + 1)..m : WordAt(l, t, f[i], e)

LEMMA NothingParsed ==
    ASSUME NEW l, NEW t \in Seq(Char) PROVE Parsed(<<>>, l, t, 0)
<1>1. Before(t, 0) = {} BY DEF Before, Starts
<1>2. Cardinality(Before(t, 0)) = 0 BY <1>1, FS_EmptySet
<1>3. <<>> \in Seq(Nat) /\ Len(<<>>) = 0 OBVIOUS
<1>4. QED BY <1>1, <1>2, <1>3 DEF Parsed

LEMMA AllParsed ==
    ASSUME NEW f, NEW l, NEW t \in Seq(Char), NEW from \in 0..Len(t),
           Parsed(f, l, t, from), \A k \in from..(Len(t) - 1) : t[k + 1] = Blank
    PROVE  Parsed(f, l, t, Len(t))
<1>1. Before(t, Len(t)) = Before(t, from)
  <2>1. Starts(t) = Before(t, from) BY NoStart
  <2>2. Before(t, Len(t)) = Starts(t) BY DEF Before, Starts
  <2>3. QED BY <2>1, <2>2
<1>2. \A i \in 1..Len(f) : \E e \in (f[i] + 1)..Len(t) : WordAt(l, t, f[i], e)
  <2>1. SUFFICES ASSUME NEW i \in 1..Len(f)
                 PROVE  \E e \in (f[i] + 1)..Len(t) : WordAt(l, t, f[i], e)
    OBVIOUS
  <2>2. f[i] \in Nat BY DEF Parsed
  <2>3. PICK e \in (f[i] + 1)..from : WordAt(l, t, f[i], e) BY DEF Parsed
  <2>4. e \in (f[i] + 1)..Len(t) BY <2>2
  <2>5. QED BY <2>3, <2>4
<1>3. QED BY <1>1, <1>2 DEF Parsed

\* The words f are cut out, and the rest of the line from place from is as it was.
Rest(f, l, t, from) ==
    /\ from # 0 => t[from] = Blank
    /\ l[Len(t)] = NUL
    /\ \A k \in from..(Len(t) - 1) : l[k] = t[k + 1]
    /\ Parsed(f, l, t, from)

\* Line l2 is line l with the first word after place from cut out: offsets s to e.
WordCut(l, n, from, s, e, l2, past) ==
    /\ s < e
    /\ \A k \in from..(s - 1) : l[k] = Blank
    /\ \A k \in s..(e - 1) : l[k] # Blank
    /\ \/ e = n /\ l2 = l /\ past = e
       \/ e < n /\ l[e] = Blank /\ l2 = [l EXCEPT ![e] = NUL] /\ past = e + 1

\* And then one more is.
OneMore(f, l2, t, s, e, past) ==
    /\ Parsed(Append(f, s), l2, t, past)
    /\ l2[Len(t)] = NUL
    /\ \A k \in past..(Len(t) - 1) : l2[k] = t[k + 1]
    /\ past # e => t[past] = Blank

\* One more word: the next token.
LEMMA OneMoreParsed ==
    ASSUME NEW f, NEW l \in Lines, NEW t \in Seq(Char), Len(t) \in 0..(Size - 1),
           NEW from \in 0..Len(t), Rest(f, l, t, from),
           NEW s \in from..(Len(t) - 1), NEW e \in 1..Len(t), NEW l2, NEW past,
           WordCut(l, Len(t), from, s, e, l2, past)
    PROVE  OneMore(f, l2, t, s, e, past)
<1> DEFINE n == Len(t)
           g == Append(f, s)
<1>a. /\ from # 0 => t[from] = Blank
      /\ l[n] = NUL
      /\ \A k \in from..(n - 1) : l[k] = t[k + 1]
      /\ Parsed(f, l, t, from)
  BY DEF Rest
<1>b. /\ s < e
      /\ \A k \in from..(s - 1) : l[k] = Blank
      /\ \A k \in s..(e - 1) : l[k] # Blank
      /\ \/ e = n /\ l2 = l /\ past = e
         \/ e < n /\ l[e] = Blank /\ l2 = [l EXCEPT ![e] = NUL] /\ past = e + 1
  BY DEF WordCut
<1> USE <1>a, <1>b
<1>0. n \in Nat /\ Size \in Nat /\ s \in Nat /\ past \in 1..n /\ e \in 0..(Size - 1)
  BY ConsoleAssumption
<1>1. /\ \A k \in from..(s - 1) : t[k + 1] = Blank
      /\ \A k \in s..(e - 1) : t[k + 1] # Blank
      /\ e < n => t[e + 1] = l[e]
  <2>1. \A k \in from..(s - 1) : k \in from..(n - 1) BY <1>0
  <2>2. \A k \in s..(e - 1) : k \in from..(n - 1) BY <1>0
  <2>3. e < n => e \in from..(n - 1) BY <1>0
  <2>4. QED BY <2>1, <2>2, <2>3
<1>2. \/ past = e /\ e = n
      \/ past = e + 1 /\ t[e + 1] = Blank /\ e < n
  BY <1>1
<1>3. Before(t, past) = Before(t, from) \cup {s + 1} /\ s + 1 \notin Before(t, from)
  <2>1. \A k \in from..(s - 1) : t[k + 1] = Blank BY <1>1
  <2>2. \A k \in s..(e - 1) : t[k + 1] # Blank BY <1>1
  <2>3. NextWord(t, from, s, e, past) BY <1>2, <2>1, <2>2 DEF NextWord
  <2>4. QED BY <2>3, OneStart
<1>4. Cardinality(Before(t, past)) = Cardinality(Before(t, from)) + 1
  BY <1>3, FewStarts, FS_AddElement
<1>5. /\ g \in Seq(Nat) /\ Len(g) = Len(f) + 1 /\ Len(f) \in Nat
      /\ \A i \in 1..Len(f) : g[i] = f[i]
      /\ g[Len(f) + 1] = s
  BY <1>0, AppendProperties, LenProperties DEF Parsed
<1> HIDE DEF g
<1>6. \A i \in 1..Len(g) : i \in 1..Len(f) \/ i = Len(f) + 1 BY <1>5
<1>7. \A i \in 1..Len(f) : f[i] \in Nat /\ f[i] < s
  <2>1. SUFFICES ASSUME NEW i \in 1..Len(f) PROVE f[i] \in Nat /\ f[i] < s OBVIOUS
  <2>2. f[i] \in Nat BY DEF Parsed
  <2>3. PICK w \in (f[i] + 1)..from : TRUE BY DEF Parsed
  <2>4. QED BY <1>0, <2>2, <2>3
<1>8. \A i, j \in 1..Len(g) : i < j => g[i] < g[j]
  <2>1. SUFFICES ASSUME NEW i \in 1..Len(g), NEW j \in 1..Len(g), i < j
                 PROVE  g[i] < g[j]
    OBVIOUS
  <2>2. i \in 1..Len(f) BY <1>5, <2>1
  <2>3. CASE j \in 1..Len(f) BY <1>5, <2>1, <2>2, <2>3 DEF Parsed
  <2>4. CASE j = Len(f) + 1 BY <1>5, <1>7, <2>2, <2>4
  <2>5. QED BY <1>6, <2>3, <2>4
<1>9. {g[i] + 1 : i \in 1..Len(g)} = Before(t, past)
  <2>1. \A w : w \in Before(t, from) <=> \E i \in 1..Len(f) : w = f[i] + 1
    BY DEF Parsed
  <2>2. ASSUME NEW w, w \in {g[i] + 1 : i \in 1..Len(g)}
        PROVE  w \in Before(t, past)
    <3>1. PICK i \in 1..Len(g) : w = g[i] + 1 BY <2>2
    <3>2. CASE i \in 1..Len(f)
      <4>1. g[i] = f[i] BY <1>5, <3>2
      <4>2. w \in Before(t, from) BY <2>1, <3>1, <3>2, <4>1
      <4>3. QED BY <1>3, <4>2
    <3>3. CASE i = Len(f) + 1 BY <1>3, <1>5, <3>1, <3>3
    <3>4. QED BY <1>6, <3>2, <3>3
  <2>3. ASSUME NEW w, w \in Before(t, past)
        PROVE  \E i \in 1..Len(g) : w = g[i] + 1
    <3>1. CASE w = s + 1
      <4>1. Len(f) + 1 \in 1..Len(g) /\ w = g[Len(f) + 1] + 1 BY <1>5, <3>1
      <4>2. QED BY <4>1
    <3>2. CASE w \in Before(t, from)
      <4>1. PICK i \in 1..Len(f) : w = f[i] + 1 BY <2>1, <3>2
      <4>2. i \in 1..Len(g) /\ g[i] = f[i] BY <1>5
      <4>3. QED BY <4>1, <4>2
    <3>3. QED BY <1>3, <2>3, <3>1, <3>2
  <2>4. QED BY <2>2, <2>3
<1>10. /\ l2[n] = NUL /\ l2[e] = NUL
       /\ \A k \in 0..(Size - 1) : k # e => l2[k] = l[k]
  <2>1. CASE e = n /\ l2 = l BY <2>1
  <2>2. CASE e < n /\ l2 = [l EXCEPT ![e] = NUL]
    <3>1. l2[e] = NUL BY <1>0, <2>2 DEF Lines
    <3>2. \A k \in 0..(Size - 1) : k # e => l2[k] = l[k] BY <2>2 DEF Lines
    <3>3. n \in 0..(Size - 1) /\ n # e BY <2>2
    <3>4. QED BY <3>1, <3>2, <3>3
  <2>3. QED BY <2>1, <2>2
<1>11. \A k \in past..(n - 1) : l2[k] = t[k + 1]
  <2>1. SUFFICES ASSUME NEW k \in past..(n - 1) PROVE l2[k] = t[k + 1] OBVIOUS
  <2>2. k \in from..(n - 1) /\ k \in 0..(Size - 1) /\ k # e BY <1>0
  <2>3. QED BY <1>10, <2>2
<1>12. \A i \in 1..Len(g) : \E x \in (g[i] + 1)..past : WordAt(l2, t, g[i], x)
  <2>1. SUFFICES ASSUME NEW i \in 1..Len(g)
                 PROVE  \E x \in (g[i] + 1)..past : WordAt(l2, t, g[i], x)
    OBVIOUS
  <2>2. CASE i \in 1..Len(f)
    <3>1. f[i] \in Nat /\ g[i] = f[i] BY <1>5, <1>7, <2>2
    <3>2. PICK x \in (f[i] + 1)..from : WordAt(l, t, f[i], x) BY <2>2 DEF Parsed
    <3>3. x \in (f[i] + 1)..past /\ x < e /\ x \in 0..(Size - 1)
      <4>1. f[i] \in Nat /\ x \in Int /\ f[i] + 1 <= x /\ x <= from BY <3>1
      <4>2. from <= s /\ s < e /\ e <= past /\ e < Size BY <1>0
      <4>3. QED BY <1>0, <4>1, <4>2
    <3>4. \A k \in f[i]..(x - 1) : k \in 0..(Size - 1) /\ k # e
      <4>1. f[i] \in Nat /\ x \in Nat /\ x < e /\ e < Size BY <1>0, <3>1, <3>3
      <4>2. SUFFICES ASSUME NEW k \in f[i]..(x - 1)
                     PROVE  k \in 0..(Size - 1) /\ k # e
        OBVIOUS
      <4>3. QED BY <1>0, <4>1
    <3>5. WordAt(l2, t, f[i], x) BY <1>10, <3>2, <3>3, <3>4 DEF WordAt
    <3>6. QED BY <3>1, <3>3, <3>5
  <2>3. CASE i = Len(f) + 1
    <3>1. g[i] = s BY <1>5, <2>3
    <3>2. e \in (s + 1)..past BY <1>0
    <3>3. \A k \in s..(e - 1) : k \in 0..(Size - 1) /\ k # e /\ k \in from..(n - 1)
      BY <1>0
    <3>4. WordAt(l2, t, s, e) BY <1>2, <1>10, <3>3 DEF WordAt
    <3>5. QED BY <3>1, <3>2, <3>4
  <2>4. QED BY <1>6, <2>2, <2>3
<1>13. Parsed(g, l2, t, past)
  <2>1. Cardinality(Before(t, from)) = Len(f) BY DEF Parsed
  <2>2. Cardinality(Before(t, past)) = Len(g) BY <1>4, <1>5, <2>1
  <2>3. QED BY <1>5, <1>8, <1>9, <1>12, <2>2 DEF Parsed
<1>14. past # e => t[past] = Blank BY <1>2
<1>15. QED BY <1>10, <1>11, <1>13, <1>14 DEF g, OneMore

\* What a call of _strtok leaves: the words found before it, f, are all, or one
\* more is cut out and the pointer is on what follows.
Taken(f, l, t, tok) ==
    \/ /\ tok.token = NULL /\ tok.line = l /\ tok.next = NULL
       /\ Parsed(f, l, t, Len(t))
    \/ /\ tok.token \in Nat
       /\ Parsed(Append(f, tok.token), tok.line, t,
                 IF tok.next = NULL THEN Len(t) ELSE tok.next)
       /\ tok.line[Len(t)] = NUL
       /\ tok.next # NULL =>
            /\ tok.next \in 1..Len(t) /\ t[tok.next] = Blank
            /\ \A k \in tok.next..(Len(t) - 1) : tok.line[k] = t[k + 1]

LEMMA TokenTaken ==
    ASSUME NEW f, NEW l \in Lines, NEW t \in Seq(Char), Len(t) \in 0..(Size - 1),
           NEW from \in 0..Len(t), Rest(f, l, t, from)
    PROVE  Taken(f, l, t, _strtok(l, from))
<1> DEFINE n == Len(t)
           tok == _strtok(l, from)
<1>0. n \in 0..(Size - 1) /\ Size \in Nat BY ConsoleAssumption
<1>1. l[n] = NUL /\ \A k \in from..(n - 1) : l[k] \in Char
  <2>1. \A k \in from..(n - 1) : k + 1 \in 1..n BY <1>0
  <2>2. QED BY <2>1, ElementOfSeq DEF Rest
<1>2. Scanned(l, from, n, tok) BY <1>0, <1>1, Scans
<1>3. SUFFICES Taken(f, l, t, tok) OBVIOUS
<1> HIDE DEF tok
<1>4. CASE /\ tok.token = NULL /\ tok.line = l /\ tok.next = NULL
           /\ \A k \in from..(n - 1) : l[k] = Blank
  <2>1. \A k \in from..(n - 1) : t[k + 1] = Blank BY <1>4 DEF Rest
  <2>2. Parsed(f, l, t, n) BY <2>1, AllParsed DEF Rest
  <2>3. QED BY <1>4, <2>2 DEF Taken
<1>5. ASSUME NEW s \in from..(n - 1), NEW e \in 1..n,
             s < e, tok.token = s,
             \A k \in from..(s - 1) : l[k] = Blank,
             \A k \in s..(e - 1) : l[k] # Blank,
             \/ e = n /\ tok.line = l /\ tok.next = NULL
             \/ /\ e < n /\ l[e] = Blank
                /\ tok.line = [l EXCEPT ![e] = NUL] /\ tok.next = e + 1
      PROVE  Taken(f, l, t, tok)
  <2> DEFINE l2 == tok.line
             past == IF tok.next = NULL THEN n ELSE tok.next
  <2>1. e + 1 # NULL /\ s \in Nat BY <1>0, <1>5 DEF NULL
  <2>2. WordCut(l, n, from, s, e, l2, past) BY <1>5, <2>1 DEF WordCut
  <2> HIDE DEF l2, past
  <2>3. OneMore(f, l2, t, s, e, past) BY <2>2, OneMoreParsed
  <2>4. tok.next # NULL => past = tok.next /\ past = e + 1 /\ e < n
    BY <1>5, <2>1 DEF past
  <2>5. tok.next # NULL =>
          /\ tok.next \in 1..n /\ t[tok.next] = Blank
          /\ \A k \in tok.next..(n - 1) : l2[k] = t[k + 1]
    BY <1>0, <2>3, <2>4 DEF OneMore
  <2>6. QED BY <1>5, <2>1, <2>3, <2>5 DEF Taken, OneMore, l2, past
<1>6. QED BY <1>2, <1>4, <1>5 DEF Scanned

-----------------------------------------------------------------------------
(* What the thread has found of the words typed, at each of its states.    *)

\* The line read so far.
Begun == pc = "read" => \A k \in 0..(p - 1) : line[k] \in Char

\* The line that was entered, and the 0 at its end, which no cut overwrites.
Entered ==
    pc # "read" =>
        /\ typed \in Seq(Char) /\ Len(typed) = p
        /\ line[p] = NUL

\* No word of it is cut out yet.
Uncut == pc = "cut" => \A k \in 0..(p - 1) : line[k] = typed[k + 1]

Found == (IF cmd = NULL THEN <<>> ELSE <<cmd>>) \o args
Past == IF tokp = NULL THEN p ELSE tokp

\* The words up to the saved pointer are cut out, and what follows it is intact.
Words ==
    /\ tokp # NULL =>
         /\ tokp \in 1..p /\ typed[tokp] = Blank
         /\ \A k \in tokp..(p - 1) : line[k] = typed[k + 1]
    /\ cmd \in Nat \cup {NULL}
    /\ args \in Seq(Nat) /\ Len(args) <= MaxArgs
    /\ cmd = NULL => tokp = NULL /\ args = <<>>
    /\ Parsed(Found, line, typed, Past)

Collecting == pc = "collect" => Words

\* All are found, or there were too many.
Running ==
    pc = "run" => \/ Words /\ tokp = NULL
                  \/ cmd = NULL /\ Cardinality(Starts(typed)) > MaxArgs + 1

ParseInv == Begun /\ Entered /\ Uncut /\ Collecting /\ Running

\* Reading a line.
LEMMA ReadingKeeps ==
    ASSUME InLine, ParseInv, CtrlD \/ Delete \/ (\E c \in Char : Type(c)) \/ Run
    PROVE  ParseInv'
<1>0. pc' = "read" => Entered' /\ Uncut' /\ Collecting' /\ Running'
  BY DEF Entered, Uncut, Collecting, Running
<1>1. CASE Again
  <2>1. Begun' BY <1>1 DEF Again, Begun
  <2>2. QED BY <1>0, <1>1, <2>1 DEF Again, ParseInv
<1>2. CASE Delete
  <2>1. pc = "read" /\ pc' = "read" /\ line' = line /\ p' = p - 1 BY <1>2 DEF Delete
  <2>2. Begun' BY <2>1 DEF Begun, ParseInv, InLine
  <2>3. QED BY <1>0, <2>1, <2>2 DEF ParseInv
<1>3. CASE \E c \in Char : Type(c)
  <2>1. PICK c \in Char : Type(c) BY <1>3
  <2>2. /\ pc = "read" /\ pc' = "read" /\ p' = p + 1
        /\ line' = [line EXCEPT ![p] = c]
    BY <2>1 DEF Type
  <2>3. ASSUME NEW k \in 0..(p' - 1) PROVE line'[k] \in Char
    <3>1. CASE k = p BY <2>2, <3>1 DEF InLine
    <3>2. CASE k # p
      <4>1. k \in 0..(p - 1) /\ k \in 0..(Size - 1) /\ Size \in Nat
        BY <2>2, <2>3, <3>2, ConsoleAssumption DEF InLine
      <4>2. line[k] \in Char BY <2>2, <4>1 DEF Begun, ParseInv
      <4>3. QED BY <2>2, <3>2, <4>1, <4>2 DEF InLine
    <3>3. QED BY <3>1, <3>2
  <2>4. Begun' BY <2>3 DEF Begun
  <2>5. QED BY <1>0, <2>2, <2>4 DEF ParseInv
<1>4. QED BY <1>1, <1>2, <1>3 DEF CtrlD, Run

\* What Enter was pressed on is the line read.
LEMMA EnterKeeps == ASSUME InLine, ParseInv, Enter PROVE ParseInv'
<1>0. p \in Nat /\ p \in 0..(Size - 1) /\ Size \in Nat BY ConsoleAssumption DEF InLine
<1>1. /\ pc = "read" /\ pc' = "cut" /\ p' = p
      /\ line' = [line EXCEPT ![p] = NUL]
      /\ typed' = [k \in 1..p |-> line[k - 1]]
  BY DEF Enter
<1>2. \A k \in 0..(p - 1) : line[k] \in Char BY <1>1 DEF Begun, ParseInv
<1>3. typed' \in [1..p -> Char]
  <2>1. \A k \in 1..p : k - 1 \in 0..(p - 1) BY <1>0
  <2>2. QED BY <1>1, <1>2, <2>1
<1>4. typed' \in Seq(Char) /\ Len(typed') = p BY <1>0, <1>3
<1>5. line'[p] = NUL BY <1>0, <1>1 DEF InLine
<1>6. ASSUME NEW k \in 0..(p - 1) PROVE line'[k] = typed'[k + 1]
  <2>1. k \in 0..(Size - 1) /\ k # p /\ k + 1 \in 1..p /\ (k + 1) - 1 = k BY <1>0
  <2>2. line'[k] = line[k] BY <1>1, <2>1 DEF InLine
  <2>3. typed'[k + 1] = line[k] BY <1>1, <2>1
  <2>4. QED BY <2>2, <2>3
<1>7. Begun' /\ Entered' /\ Uncut' /\ Collecting' /\ Running'
  BY <1>1, <1>4, <1>5, <1>6 DEF Begun, Entered, Uncut, Collecting, Running
<1>8. QED BY <1>7 DEF ParseInv

\* The first word is the command.
LEMMA CutKeeps == ASSUME InLine, ParseInv, Cut PROVE ParseInv'
<1> DEFINE tok == _strtok(line, 0)
<1>0. p \in 0..(Size - 1) /\ p \in Nat /\ Size \in Nat /\ line \in Lines /\ NULL \notin Nat
  BY ConsoleAssumption DEF InLine, Lines, NULL
<1>1. /\ pc = "cut" /\ pc' = "collect" /\ p' = p /\ typed' = typed
      /\ line' = tok.line /\ tokp' = tok.next /\ cmd' = tok.token /\ args' = <<>>
  BY DEF Cut
<1>2. /\ typed \in Seq(Char) /\ Len(typed) = p /\ line[p] = NUL
      /\ \A k \in 0..(p - 1) : line[k] = typed[k + 1]
  BY <1>1 DEF Entered, Uncut, ParseInv
<1>3. Rest(<<>>, line, typed, 0) BY <1>0, <1>2, NothingParsed DEF Rest
<1>4. Taken(<<>>, line, typed, tok)
  <2>1. 0 \in 0..Len(typed) /\ Len(typed) \in 0..(Size - 1) BY <1>0, <1>2
  <2>2. QED BY <1>0, <1>2, <1>3, <2>1, TokenTaken
<1> HIDE DEF tok
<1>5. line'[p] = NUL BY <1>1, <1>2, <1>4 DEF Taken
<1>6. cmd' \in Nat \cup {NULL} /\ args' \in Seq(Nat) /\ Len(args') <= MaxArgs
  BY <1>1, <1>4, ConsoleAssumption DEF Taken
<1>7. (cmd' = NULL => tokp' = NULL /\ args' = <<>>) BY <1>0, <1>1, <1>4 DEF Taken
<1>8. tokp' # NULL =>
        /\ tokp' \in 1..p /\ typed[tokp'] = Blank
        /\ \A k \in tokp'..(p - 1) : line'[k] = typed[k + 1]
  BY <1>1, <1>2, <1>4 DEF Taken
<1>9. Parsed(Found', line', typed', Past')
  <2>1. CASE /\ tok.token = NULL /\ tok.line = line /\ tok.next = NULL
             /\ Parsed(<<>>, line, typed, Len(typed))
    <3>1. Found' = <<>> /\ Past' = p BY <1>1, <2>1 DEF Found, Past
    <3>2. QED BY <1>1, <1>2, <2>1, <3>1
  <2>2. CASE /\ tok.token \in Nat
             /\ Parsed(Append(<<>>, tok.token), tok.line, typed,
                       IF tok.next = NULL THEN Len(typed) ELSE tok.next)
    <3>1. Found' = Append(<<>>, tok.token) BY <1>0, <1>1, <2>2 DEF Found
    <3>2. Past' = IF tok.next = NULL THEN Len(typed) ELSE tok.next
      BY <1>1, <1>2 DEF Past
    <3>3. QED BY <1>1, <2>2, <3>1, <3>2
  <2>3. QED BY <1>4, <2>1, <2>2 DEF Taken
<1>10. Words' BY <1>1, <1>6, <1>7, <1>8, <1>9 DEF Words
<1>11. Begun' /\ Entered' /\ Uncut' /\ Collecting' /\ Running'
  BY <1>1, <1>2, <1>5, <1>10 DEF Begun, Entered, Uncut, Collecting, Running
<1>12. QED BY <1>11 DEF ParseInv

\* What the next call of _strtok finds.
LEMMA NextToken ==
    ASSUME InLine, ParseInv, pc = "collect", tokp # NULL
    PROVE  Taken(Found, line, typed, _strtok(line, tokp))
<1>1. p \in 0..(Size - 1) /\ line \in Lines /\ NULL = -1 /\ Size \in Nat
  BY ConsoleAssumption DEF InLine, Lines, NULL
<1>2. typed \in Seq(Char) /\ Len(typed) = p /\ line[p] = NUL
  BY DEF Entered, ParseInv
<1>3. Words BY DEF Collecting, ParseInv
<1>4. /\ tokp \in 0..Len(typed) /\ Len(typed) \in 0..(Size - 1)
      /\ Rest(Found, line, typed, tokp)
  BY <1>1, <1>2, <1>3 DEF Words, Rest, Past
<1>5. QED BY <1>1, <1>2, <1>4, TokenTaken

LEMMA NoMoreKeeps == ASSUME InLine, ParseInv, NoMoreTokens PROVE ParseInv'
<1>0. NULL \notin Nat BY DEF NULL
<1>1. /\ pc = "collect" /\ pc' = "run" /\ p' = p /\ typed' = typed /\ line' = line
      /\ tokp' = NULL /\ cmd' = cmd /\ args' = args
      /\ tokp # NULL => _strtok(line, tokp).token = NULL
  BY DEF NoMoreTokens
<1>2. typed \in Seq(Char) /\ Len(typed) = p /\ line[p] = NUL
  BY <1>1 DEF Entered, ParseInv
<1>3. Words BY <1>1 DEF Collecting, ParseInv
<1>4. Found' = Found /\ Past' = p BY <1>1 DEF Found, Past
<1>5. Parsed(Found, line, typed, p)
  <2>1. CASE tokp = NULL BY <1>3, <2>1 DEF Words, Past
  <2>2. CASE tokp # NULL
    <3>1. Taken(Found, line, typed, _strtok(line, tokp)) BY <1>1, <2>2, NextToken
    <3>2. QED BY <1>0, <1>1, <1>2, <2>2, <3>1 DEF Taken
  <2>3. QED BY <2>1, <2>2
<1>6. Words'
  <2>1. Parsed(Found', line', typed', Past') BY <1>1, <1>4, <1>5
  <2>2. QED BY <1>1, <1>3, <2>1 DEF Words
<1>7. Begun' /\ Entered' /\ Uncut' /\ Collecting' /\ Running'
  BY <1>1, <1>2, <1>6 DEF Begun, Entered, Uncut, Collecting, Running
<1>8. QED BY <1>7 DEF ParseInv

\* Another word is an argument, unless there are too many.
LEMMA CollectKeeps == ASSUME InLine, ParseInv, Collect PROVE ParseInv'
<1> DEFINE tok == _strtok(line, tokp)
           past == IF tok.next = NULL THEN Len(typed) ELSE tok.next
<1>0. NULL \notin Nat BY DEF NULL
<1>1. /\ pc = "collect" /\ p' = p /\ typed' = typed
      /\ tokp # NULL /\ tok.token # NULL
      /\ line' = tok.line /\ tokp' = tok.next
      /\ IF Len(args) >= MaxArgs
         THEN cmd' = NULL /\ pc' = "run" /\ args' = args
         ELSE args' = Append(args, tok.token) /\ pc' = pc /\ cmd' = cmd
  BY DEF Collect
<1>2. typed \in Seq(Char) /\ Len(typed) = p /\ p \in Nat
  BY <1>1, LenProperties DEF Entered, ParseInv
<1>3. Words BY <1>1 DEF Collecting, ParseInv
<1>4. Taken(Found, line, typed, tok) BY <1>1, NextToken
<1> HIDE DEF tok
<1>5. /\ tok.token \in Nat
      /\ Parsed(Append(Found, tok.token), line', typed, past)
      /\ line'[p] = NUL
      /\ tok.next # NULL =>
           /\ tok.next \in 1..p /\ typed[tok.next] = Blank
           /\ \A k \in tok.next..(p - 1) : line'[k] = typed[k + 1]
  BY <1>1, <1>2, <1>4 DEF Taken
<1> HIDE DEF past
<1>6. /\ cmd \in Nat /\ args \in Seq(Nat) /\ Len(args) \in Nat /\ MaxArgs \in Nat
      /\ Len(args) <= MaxArgs /\ Found = <<cmd>> \o args
  BY <1>0, <1>1, <1>3, ConsoleAssumption, LenProperties DEF Words, Found
<1>7. Len(Found) = Len(args) + 1 /\ Found \in Seq(Nat)
  BY <1>6
<1>8. Entered' BY <1>1, <1>2, <1>5 DEF Entered
<1>9. CASE Len(args) >= MaxArgs
  <2>1. Len(Append(Found, tok.token)) = Len(args) + 2 BY <1>5, <1>6, <1>7
  <2>2. Cardinality(Before(typed, past)) = Len(args) + 2 BY <1>5, <2>1 DEF Parsed
  <2>3. /\ Cardinality(Before(typed, past)) <= Cardinality(Starts(typed))
        /\ Cardinality(Starts(typed)) \in Nat
    BY <1>2, FewStarts
  <2>4. Cardinality(Starts(typed)) > MaxArgs + 1 BY <1>6, <1>9, <2>2, <2>3
  <2>5. pc' = "run" /\ cmd' = NULL BY <1>1, <1>9
  <2>6. Begun' /\ Uncut' /\ Collecting' /\ Running'
    BY <1>1, <2>4, <2>5 DEF Begun, Uncut, Collecting, Running
  <2>7. QED BY <1>8, <2>6 DEF ParseInv
<1>10. CASE ~(Len(args) >= MaxArgs)
  <2>1. pc' = "collect" /\ cmd' = cmd /\ args' = Append(args, tok.token) BY <1>1, <1>10
  <2>2. args' \in Seq(Nat) /\ Len(args') <= MaxArgs BY <1>5, <1>6, <1>10, <2>1
  <2>3. Found' = Append(Found, tok.token)
    <3>1. Found' = <<cmd>> \o Append(args, tok.token) BY <1>0, <1>6, <2>1 DEF Found
    <3>2. QED BY <1>5, <1>6, <3>1
  <2>4. Past' = past BY <1>1, <1>2 DEF Past, past
  <2>5. Parsed(Found', line', typed', Past') BY <1>1, <1>5, <2>3, <2>4
  <2>6. cmd' \in Nat \cup {NULL} /\ cmd' # NULL BY <1>0, <1>6, <2>1
  <2>7. Words' BY <1>1, <1>5, <2>2, <2>5, <2>6 DEF Words
  <2>8. Begun' /\ Uncut' /\ Collecting' /\ Running'
    BY <2>1, <2>7 DEF Begun, Uncut, Collecting, Running
  <2>9. QED BY <1>8, <2>8 DEF ParseInv
<1>11. QED BY <1>9, <1>10

\* Nothing the parser uses changes.
LEMMA IdleKeeps ==
    ASSUME ParseInv, UNCHANGED <<pc, line, p, parse, typed>> PROVE ParseInv'
BY DEF ParseInv, Begun, Entered, Uncut, Collecting, Running, Words, Found, Past, parse

LEMMA NextKeepsParse == ASSUME InLine, ParseInv, [Next]_vars PROVE ParseInv'
<1>1. CASE CtrlD \/ Delete \/ (\E c \in Char : Type(c)) \/ Run BY <1>1, ReadingKeeps
<1>2. CASE Enter BY <1>2, EnterKeeps
<1>3. CASE Cut BY <1>3, CutKeeps
<1>4. CASE NoMoreTokens BY <1>4, NoMoreKeeps
<1>5. CASE Collect BY <1>5, CollectKeeps
<1>6. CASE Tick \/ UNCHANGED vars
  <2>1. UNCHANGED <<pc, line, p, parse, typed>> BY <1>6 DEF Tick, vars
  <2>2. QED BY <2>1, IdleKeeps
<1>7. QED BY <1>1, <1>2, <1>3, <1>4, <1>5, <1>6 DEF Next

\* When the command runs, the invariant is what is wanted.
LEMMA WordsAreFound ==
    ASSUME InLine, ParseInv, pc = "run", Words, tokp = NULL
    PROVE  /\ ~(Cardinality(Starts(typed)) > MaxArgs + 1)
           /\ {Found[i] + 1 : i \in 1..Len(Found)} = Starts(typed)
           /\ \A i, j \in 1..Len(Found) : i < j => Found[i] < Found[j]
           /\ \A i \in 1..Len(Found) : Text(line, Found[i]) = Word(typed, Found[i] + 1)
<1> DEFINE f == Found
<1>1. /\ typed \in Seq(Char) /\ Len(typed) = p /\ Len(typed) \in 0..(Size - 1)
      /\ line \in Lines /\ p \in Nat
  BY LenProperties DEF Entered, ParseInv, InLine, Lines
<1>2. Parsed(f, line, typed, Len(typed)) BY <1>1 DEF Words, Past
<1>3. Before(typed, Len(typed)) = Starts(typed) BY <1>1 DEF Before, Starts
<1>4. Len(f) <= MaxArgs + 1 /\ Len(f) \in Nat
  <2>1. cmd \in Nat \cup {NULL} /\ args \in Seq(Nat) /\ Len(args) <= MaxArgs
        /\ Len(args) \in Nat /\ MaxArgs \in Nat
    BY ConsoleAssumption, LenProperties DEF Words
  <2>2. CASE cmd = NULL
    <3>1. f = <<>> \o args BY <2>2 DEF Found
    <3>2. QED BY <2>1, <3>1
  <2>3. CASE cmd # NULL
    <3>1. f = <<cmd>> \o args BY <2>3 DEF Found
    <3>2. QED BY <2>1, <2>3, <3>1
  <2>4. QED BY <2>2, <2>3
<1> HIDE DEF f
<1>5. ~(Cardinality(Starts(typed)) > MaxArgs + 1)
  <2>1. Cardinality(Starts(typed)) = Len(f) BY <1>2, <1>3 DEF Parsed
  <2>2. QED BY <1>4, <2>1, ConsoleAssumption
<1>6. \A i \in 1..Len(f) : Text(line, f[i]) = Word(typed, f[i] + 1)
  <2>1. SUFFICES ASSUME NEW i \in 1..Len(f)
                 PROVE  Text(line, f[i]) = Word(typed, f[i] + 1)
    OBVIOUS
  <2>2. f[i] \in Nat BY <1>2 DEF Parsed
  <2>3. PICK e \in (f[i] + 1)..Len(typed) : WordAt(line, typed, f[i], e)
    BY <1>2 DEF Parsed
  <2>4. QED BY <1>1, <2>2, <2>3, TextIsWord
<1>7. QED BY <1>2, <1>3, <1>5, <1>6 DEF Parsed, f

\* The words the user typed are the command that runs and its arguments, in
\* their order: pdbs_shell and _strtok cut the line in place, for every size of
\* the line, every number of arguments and whatever the buffer held before; when
\* there are too many words nothing runs.
THEOREM ParsesWords == Spec => []ParseIsWords
<1>1. Init => Inv /\ ParseInv
  <2>0. Size \in Nat \ {0} BY ConsoleAssumption
  <2>1. Init => Inv
    BY <2>0 DEF Init, Inv, InLine, ScreenShowsLine, EmptyRow, Cell, Char
  <2>2. Init => ParseInv
    BY DEF Init, ParseInv, Begun, Entered, Uncut, Collecting, Running
  <2>3. QED BY <2>1, <2>2
<1>2. Inv /\ ParseInv /\ [Next]_vars => (Inv /\ ParseInv)'
  BY NextKeepsInv, NextKeepsParse DEF Inv
<1>3. Inv /\ ParseInv => ParseIsWords
  <2>1. SUFFICES ASSUME Inv, ParseInv, pc = "run" PROVE ParseIsWords
    BY DEF ParseIsWords
  <2>2. CASE cmd = NULL /\ Cardinality(Starts(typed)) > MaxArgs + 1
    BY <2>2 DEF ParseIsWords
  <2>3. CASE Words /\ tokp = NULL
    <3>1. InLine BY <2>1 DEF Inv
    <3>2. /\ ~(Cardinality(Starts(typed)) > MaxArgs + 1)
          /\ {Found[i] + 1 : i \in 1..Len(Found)} = Starts(typed)
          /\ \A i, j \in 1..Len(Found) : i < j => Found[i] < Found[j]
          /\ \A i \in 1..Len(Found) : Text(line, Found[i]) = Word(typed, Found[i] + 1)
      BY <2>1, <2>3, <3>1, WordsAreFound
    <3>3. QED BY <3>2 DEF ParseIsWords, Found
  <2>4. QED BY <2>1, <2>2, <2>3 DEF ParseInv, Running
<1>4. QED BY <1>1, <1>2, <1>3, PTL DEF Spec

=============================================================================
