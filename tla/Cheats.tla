------------------------------- MODULE Cheats -------------------------------
(* The cheats of rosalina (rosalina/source/menus/cheats.c): a file of named *)
(* cheats is read into a buffer when the menu is opened for a title, the    *)
(* user activates some, and the menu's thread applies the active ones again *)
(* and again.  A cheat is a list of lines, executed by an interpreter whose *)
(* lines may be conditional, repeated, or leave early.                      *)
(*                                                                          *)
(* A line is named for what it does to the interpreter's state; addresses,  *)
(* values and registers are not kept: a comparison has any outcome, and an  *)
(* access to memory may fail.  The lines of a cheat are chosen when they    *)
(* are reached for the first time in a run of it, which stands for any      *)
(* file: a run keeps nothing of the one before.                             *)
EXTENDS Integers, Sequences, SequencesExt, FiniteSetsExt

CONSTANTS
  Titles,       \* the applications that run one after the other
  NoTitle,
  HeaderSize,   \* of a CheatDescription, in lines (7 in the code)
  BufferSize,   \* of cheatBuffer, in lines (4096)
  MaxText,      \* bound: lines read of a file
  CountMod,     \* cheatCount is a u8 (256)
  Counts,       \* how often a repeat may be told to run
  LoopLineMax,  \* loopLine is a s8 (127)
  TypeELineMax, \* typeELine is a u8 (255)
  Careful       \* files use the lines as the comments of the code say (see Sound)

\* The kinds of lines:
\*   plain      0-2, B, D3-DC, DF, F: an access to memory or an operation on registers
\*   compare    3-A, DD, DE: begins a conditional
\*   search     FE: begins a conditional, followed by a line of data
\*   endIf      D0: ends the last conditional
\*   break      D0 with 1: leaves the loop
\*   repeat     C: begins a loop
\*   endRepeat  D1: ends the loop and the conditionals in it
\*   end        D2: ends everything
\*   return     D2 with 1
\*   fill       E: writes bytes, followed by a line of data
\*   unknown    anything else, and the line of zeros
Ops == {"plain", "compare", "search", "endIf", "break", "repeat", "endRepeat", "end",
            "return", "fill", "unknown"}

CheatsAssumption ==
  /\ NoTitle \notin Titles
  /\ Counts \subseteq Nat /\ (Careful => 0 \notin Counts)
  /\ {HeaderSize, BufferSize, MaxText, CountMod, LoopLineMax, TypeELineMax} \subseteq Nat \ {0}

VARIABLES
  title,          \* the application that runs
  cheats,         \* the array of cheats
  cheatCount,
  cheatTitleInfo, \* the title the cheats are for
  file,           \* the file while it is read: cheatSize, the current cheat, the lines so far
  vm              \* where the menu's thread is, and cheat_state

cheatVars == <<title, cheats, cheatCount, cheatTitleInfo, file, vm>>

Slots == 0 .. CountMod - 1
Empty == [codesCount |-> 0, active |-> FALSE, valid |-> TRUE]
NoFile == [cheatSize |-> 0, cheat |-> -1, text |-> <<>>]

\* cheat_state at the beginning of a cheat.  failed and passes are not in
\* the code: the comparisons whose last outcome was false, and how many
\* passes of the last loop were begun, of those promised.
Fresh(at, i, running) ==
  [at |-> at, i |-> i, title |-> running, menu |-> FALSE, valid |-> FALSE,
   codes |-> <<>>, index |-> 0, ifStack |-> <<>>, ifCount |-> 0, loopLine |-> -1, loopCount |-> 0,
   storedStack |-> <<>>, storedIfCount |-> 0,
   failed |-> {}, passes |-> 0, promised |-> 0]

Idle == Fresh("idle", 0, NoTitle)

Init ==
  /\ title = NoTitle
  /\ cheats = [s \in Slots |-> Empty]
  /\ cheatCount = 0
  /\ cheatTitleInfo = NoTitle
  /\ file = NoFile
  /\ vm = Idle

-----------------------------------------------------------------------------
(* Reading the file *)

\* The menu is opened: the cheats of the title are read, unless they are there.
OpenMenu ==
  /\ vm.at = "idle"
  /\ IF title # NoTitle /\ (cheatTitleInfo # title \/ cheatCount = 0)
       THEN /\ cheatCount' = 0
            /\ cheatTitleInfo' = title
            /\ vm' = [Fresh("load", 0, title) EXCEPT !.menu = TRUE]
       ELSE /\ vm' = [Fresh("menu", 0, title) EXCEPT !.menu = TRUE]
            /\ UNCHANGED <<cheatCount, cheatTitleInfo>>
  /\ UNCHANGED <<title, cheats, file>>

\* Cheat_AllocCheat, with the name of the cheat.
AllocCheat ==
  /\ cheats' = [cheats EXCEPT ![cheatCount] = Empty]
  /\ cheatCount' = (cheatCount + 1) % CountMod
  /\ file' = [file EXCEPT !.cheatSize = @ + HeaderSize, !.cheat = cheatCount,
                          !.text = Append(@, "name")]

\* Cheat_AddCode.
AddCode ==
  /\ cheats' = [cheats EXCEPT ![file.cheat].codesCount = @ + 1]
  /\ file' = [file EXCEPT !.cheatSize = @ + 1, !.text = Append(@, "code")]
  /\ UNCHANGED cheatCount

\* The buffer is full: the rest of the file is left.
Full(count, line) ==
  /\ cheatCount' = count
  /\ vm' = [vm EXCEPT !.at = "close"]
  /\ file' = [file EXCEPT !.text = Append(@, line)]
  /\ UNCHANGED cheats

\* A line with codes: a cheat that no longer fits is forgotten.
ReadCode ==
  /\ vm.at = "load" /\ Len(file.text) < MaxText
  /\ IF file.cheatSize + 1 >= BufferSize
       THEN Full((cheatCount + CountMod - 1) % CountMod, "code")
       ELSE /\ UNCHANGED vm
            /\ IF file.cheat # -1 THEN AddCode
               ELSE /\ file' = [file EXCEPT !.text = Append(@, "code")]
                    /\ UNCHANGED <<cheats, cheatCount>>
  /\ UNCHANGED <<title, cheatTitleInfo>>

\* Any other line is the name of the next cheat, or of the current one if it
\* has no codes yet.
ReadName ==
  /\ vm.at = "load" /\ Len(file.text) < MaxText
  /\ IF file.cheat # -1 /\ cheats[file.cheat].codesCount = 0
       THEN /\ file' = [file EXCEPT !.text = Append(@, "name")]
            /\ UNCHANGED <<cheats, cheatCount, vm>>
       ELSE IF file.cheatSize + HeaderSize >= BufferSize
         THEN Full(cheatCount, "name")
         ELSE AllocCheat /\ UNCHANGED vm
  /\ UNCHANGED <<title, cheatTitleInfo>>

\* The file ends, or is not there.
EndOfFile ==
  /\ vm.at = "load"
  /\ vm' = [vm EXCEPT !.at = "close"]
  /\ UNCHANGED <<title, cheats, cheatCount, cheatTitleInfo, file>>

\* An empty cheat at the end is removed.
CloseFile ==
  /\ vm.at = "close"
  /\ cheatCount' = IF cheatCount > 0 /\ cheats[cheatCount - 1].codesCount = 0
                     THEN cheatCount - 1 ELSE cheatCount
  /\ vm' = [vm EXCEPT !.at = "loaded"]
  /\ UNCHANGED <<title, cheats, cheatTitleInfo, file>>

\* The menu shows what was read.
ShowCheats ==
  /\ vm.at = "loaded"
  /\ vm' = [vm EXCEPT !.at = "menu"]
  /\ file' = NoFile
  /\ UNCHANGED <<title, cheats, cheatCount, cheatTitleInfo>>

-----------------------------------------------------------------------------
(* Applying cheats *)

\* The process is opened and stopped, and the cheat begins; or the menu shows
\* an error, and the loop goes on with the next cheat.
Attach(i) ==
  \/ /\ title = vm.title
     /\ vm' = [Fresh("line", i, vm.title) EXCEPT !.menu = vm.menu]
  \/ vm' = [vm EXCEPT !.at = IF vm.menu THEN "error" ELSE "next", !.i = i + 1]

\* The user selects a cheat.
SelectCheat ==
  /\ vm.at = "menu" /\ vm.title # NoTitle
  /\ \E i \in 0 .. cheatCount - 1 :
       IF cheats[i].active
         THEN cheats' = [cheats EXCEPT ![i].active = FALSE] /\ UNCHANGED vm
         ELSE Attach(i) /\ UNCHANGED cheats
  /\ UNCHANGED <<title, cheatCount, cheatTitleInfo, file>>

CloseMenu ==
  /\ vm.at \in {"menu", "error"}
  /\ vm' = Idle
  /\ UNCHANGED <<title, cheats, cheatCount, cheatTitleInfo, file>>

\* Cheat_ApplyCheats, every 50 ms.
ApplyCheats ==
  /\ vm.at = "idle" /\ cheatCount > 0
  /\ IF title # NoTitle /\ title = cheatTitleInfo
       THEN vm' = Fresh("next", 0, title) /\ UNCHANGED cheatCount
       ELSE cheatCount' = 0 /\ UNCHANGED vm
  /\ UNCHANGED <<title, cheats, cheatTitleInfo, file>>

ApplyNext ==
  /\ vm.at = "next"
  /\ IF vm.i >= cheatCount THEN vm' = Idle
     ELSE IF cheats[vm.i].active THEN Attach(vm.i)
     ELSE vm' = [vm EXCEPT !.i = @ + 1]
  /\ UNCHANGED <<title, cheats, cheatCount, cheatTitleInfo, file>>

\* The cheat was executed to its end, or gave up.
Applied ==
  /\ vm.at = "applied"
  /\ cheats' = [cheats EXCEPT ![vm.i].valid = vm.valid, ![vm.i].active = TRUE]
  /\ vm' = IF vm.menu THEN [Fresh("menu", 0, vm.title) EXCEPT !.menu = TRUE]
           ELSE Fresh("next", vm.i + 1, vm.title)
  /\ UNCHANGED <<title, cheatCount, cheatTitleInfo, file>>

-----------------------------------------------------------------------------
(* Lines.  data marks a line that is the data of the one before it. *)

Line(op) == [op |-> op, data |-> FALSE]
Begins(line) == line.op \in {"compare", "search"} /\ ~line.data
Repeats(line) == line.op = "repeat" /\ ~line.data

\* The blocks that are open after the first k lines of a cheat, as the
\* comments of the code say: a conditional is ended by the next D0, D1 ends
\* the loop and the conditionals in it, D2 ends everything.
Close(open, codes) ==
  IF \E b \in 1 .. Len(open) : Repeats(codes[open[b]])
    THEN SubSeq(open, 1, SelectInSeq(open, LAMBDA l : Repeats(codes[l])) - 1)
    ELSE open

Open(codes, k) ==
  LET after[l \in 0 .. k] ==
        IF l = 0 THEN <<>>
        ELSE LET open == after[l - 1]
             IN CASE codes[l].data -> open
                  [] codes[l].op \in {"compare", "search", "repeat"} -> Append(open, l)
                  [] codes[l].op = "endIf" ->
                       IF open # <<>> /\ Begins(codes[Last(open)]) THEN Front(open) ELSE open
                  [] codes[l].op = "endRepeat" -> Close(open, codes)
                  [] codes[l].op = "end" -> <<>>
                  [] OTHER -> open
  IN after[k]

\* What the comments ask of a line: "C types can not be nested" (635), D0
\* ends a conditional (666).  And what the code leaves to the files: no
\* conditional is open in a loop that D2 ends or D0 leaves, the line after a
\* loop that is left is not needed (see Break), and data do not read as the
\* end of a block (see Search).
Sound(op, open, codes) ==
  LET inLoop == \E b \in 1 .. Len(open) : Repeats(codes[open[b]])
      last == codes[Last(open)]
  IN CASE op = "repeat" -> ~inLoop
       [] op = "endIf" -> open = <<>> \/ Begins(last)
       [] op = "end" -> inLoop => Repeats(last)
       [] op = "break" -> inLoop /\ Repeats(last)
       [] OTHER -> TRUE

\* The lines of the cheat, with the next one and its data if they were not
\* read before.
cheat == cheats[vm.i]
Loops == {"endRepeat", "end"}
Lines(op, room) ==
  CASE op \in {"fill", "search"} ->
         {<<Line(op), [op |-> data, data |-> TRUE]>> :
            data \in IF room < 2 THEN {} ELSE IF Careful THEN {"plain"} ELSE Ops}
    [] op = "break" ->
         {<<Line(op)>> \o [l \in 1 .. n |-> Line("plain")] \o <<Line(last), Line(next)>> :
            n \in 0 .. room - 3, last \in IF Careful THEN {"endRepeat"} ELSE Loops,
            next \in IF Careful THEN {"plain"} ELSE Ops}
    [] OTHER -> {<<Line(op)>>}

Known ==
  IF vm.index < Len(vm.codes) THEN {vm.codes}
  ELSE {vm.codes \o lines : lines \in
          UNION {Lines(op, cheat.codesCount - Len(vm.codes)) : op \in
                   {op \in Ops : Careful => Sound(op, Open(vm.codes, Len(vm.codes)), vm.codes)}}}

-----------------------------------------------------------------------------
(* The interpreter *)

\* loopLine is signed and typeELine has eight bits.
S8(line) == IF line <= LoopLineMax THEN line ELSE line - 2 * (LoopLineMax + 1)
U8(line) == line % (TypeELineMax + 1)

skipExecution == vm.ifStack # <<>> /\ Head(vm.ifStack)

\* To the line after the given one; a negative line is behind all others.
Goto(s, line) == [s EXCEPT !.index = IF line < 0 THEN cheat.codesCount ELSE line + 1]
Continue(s) == Goto(s, s.index)

Return(valid) ==
  vm' = [Fresh("applied", vm.i, vm.title) EXCEPT !.menu = vm.menu, !.valid = valid]

\* An access to memory, not made if it is to be skipped; the cheat gives up if
\* there is no such address.
Access(line, s) ==
  /\ line.op = "plain"
  /\ vm' = Continue(s) \/ (~skipExecution /\ Return(FALSE))

Write(line, s) == Access(line, s)        \* 0 to 2
LoadOffset(line, s) == Access(line, s)   \* B
Move(line, s) == Access(line, s)         \* D3 to DC, most of them without an access
Calculate(line, s) == Access(line, s)    \* F, but for FE

\* Registers are exchanged (DF), also in a conditional that failed.
Exchange(line, s) == line.op = "plain" /\ (vm' = Continue(s) \/ Return(FALSE))

\* Begins a conditional.
Push(s, newSkip, at) ==
  [s EXCEPT !.ifStack = <<newSkip \/ skipExecution>> \o @, !.ifCount = @ + 1,
            !.failed = IF newSkip THEN @ \cup {at} ELSE @ \ {at}]

\* A comparison (3 to A), executed even if its outcome does not matter; it
\* may read an address that is not there.
Compare(line, s) ==
  /\ line.op = "compare"
  /\ \/ \E newSkip \in BOOLEAN : vm' = Continue(Push(s, newSkip, vm.index + 1))
     \/ Return(FALSE)

\* The buttons and the touch screen (DD, DE).
Keys(line, s) == Compare(line, s)

\* A loop (C), also if it is to be skipped.
Repeat(line, s) ==
  /\ line.op = "repeat"
  /\ \E count \in Counts :
       vm' = Continue([s EXCEPT !.loopLine = S8(vm.index), !.loopCount = count,
                                 !.storedStack = vm.ifStack, !.storedIfCount = vm.ifCount,
                                 !.passes = 1, !.promised = count])

\* The end of a pass, in state s: the loop is over, or its first line comes next.
NextPass(s, over) ==
  IF s.loopCount = 1 THEN Continue([over EXCEPT !.loopCount = 0, !.loopLine = -1])
  ELSE LET left == [s EXCEPT !.loopCount = @ - 1]
       IN IF s.loopLine = -1 THEN Continue(left)
          ELSE Goto([left EXCEPT !.passes = @ + 1], s.loopLine)

Pop(s) == [s EXCEPT !.ifStack = IF @ = <<>> THEN @ ELSE Tail(@), !.ifCount = @ - 1]

\* The end of a conditional (D0); in a loop without one, of a pass.
EndIf(line, s) ==
  /\ line.op = "endIf"
  /\ vm' = IF vm.ifCount > (IF vm.loopLine # -1 THEN vm.storedIfCount ELSE 0)
             THEN Continue(Pop(s))
           ELSE IF vm.loopLine # -1 /\ vm.loopCount > 0 THEN NextPass(s, s)
           ELSE Continue(s)

\* The loop is left (D0 with 1): the first line after its end is passed over
\* as well.
Break(line, s) ==
  /\ line.op = "break"
  /\ LET ends == {l \in vm.index + 2 .. Len(s.codes) : s.codes[l].op \in Loops}
         past == IF ends = {} THEN cheat.codesCount ELSE Min(ends)
     IN vm' = IF skipExecution THEN Continue(s)
              ELSE [s EXCEPT !.loopCount = 0, !.loopLine = -1, !.index = past + 1,
                             !.promised = s.passes]


\* The end of a loop (D1), with the conditionals in it.
EndRepeat(line, s) ==
  /\ line.op = "endRepeat"
  /\ vm' = IF vm.loopCount > 0
             THEN LET outer == [s EXCEPT !.ifStack = s.storedStack, !.ifCount = s.storedIfCount]
                  IN NextPass(outer, outer)
             ELSE Continue(s)

\* The end of everything (D2), once the loop has made its passes.
Cleared(s) == [s EXCEPT !.ifStack = <<>>, !.ifCount = 0]
End(line, s) ==
  /\ line.op = "end"
  /\ vm' = IF vm.loopCount > 0 THEN NextPass(s, Cleared(s)) ELSE Continue(Cleared(s))

\* D2 with 1.
ReturnEarly(line, s) ==
  /\ line.op = "return"
  /\ vm' = IF skipExecution THEN Continue(s) ELSE [s EXCEPT !.index = cheat.codesCount + 1]

\* Bytes that are written (E), whose lines are passed over.
Fill(line, s) ==
  /\ line.op = "fill"
  /\ \/ vm' = Goto(s, U8(vm.index + 1))
     \/ ~skipExecution /\ Return(FALSE)

\* A pattern that is searched for (FE), in a line of its own; to be skipped,
\* the line is not passed over.
Search(line, s) ==
  /\ line.op = "search"
  /\ IF vm.index + 1 >= cheat.codesCount THEN Return(FALSE)
     ELSE IF skipExecution THEN vm' = Continue(Push(s, TRUE, vm.index + 1))
     ELSE \/ \E newSkip \in BOOLEAN : vm' = Goto(Push(s, newSkip, vm.index + 1), vm.index + 1)
          \/ Return(FALSE)

Unknown(line) == line.op = "unknown" /\ Return(FALSE)

\* The next line of the cheat, or its end.
Execute ==
  /\ vm.at = "line"
  /\ IF vm.index >= cheat.codesCount THEN Return(TRUE)
     ELSE \E codes \in Known :
       LET line == codes[vm.index + 1]
           s == [vm EXCEPT !.codes = codes]
       IN \/ Write(line, s) \/ LoadOffset(line, s) \/ Move(line, s) \/ Exchange(line, s)
          \/ Calculate(line, s) \/ Compare(line, s) \/ Keys(line, s) \/ Search(line, s)
          \/ EndIf(line, s) \/ Break(line, s) \/ Repeat(line, s) \/ EndRepeat(line, s)
          \/ End(line, s) \/ ReturnEarly(line, s) \/ Fill(line, s) \/ Unknown(line)
  /\ UNCHANGED <<title, cheats, cheatCount, cheatTitleInfo, file>>

\* Applications follow each other while the menu is closed.
NextTitle ==
  /\ vm.at \in {"idle", "next"}
  /\ title' \in (Titles \cup {NoTitle}) \ {title}
  /\ UNCHANGED <<cheats, cheatCount, cheatTitleInfo, file, vm>>

Next ==
  \/ OpenMenu \/ ReadCode \/ ReadName \/ EndOfFile \/ CloseFile \/ ShowCheats
  \/ SelectCheat \/ CloseMenu \/ ApplyCheats \/ ApplyNext \/ Applied \/ Execute \/ NextTitle

Spec == Init /\ [][Next]_cheatVars

-----------------------------------------------------------------------------
(* Properties *)

\* What the lines of a file say: the number of codes of every cheat, in their
\* order; one that does not fit is left out, with all that follow it.
Described(text) ==
  LET Read(counts, line) ==
        IF line = "name" THEN IF counts # <<>> /\ Last(counts) = 0 THEN counts
                              ELSE Append(counts, 0)
        ELSE IF counts = <<>> THEN counts ELSE Front(counts) \o <<Last(counts) + 1>>
      counts == FoldLeft(Read, <<>>, text)
      size == FoldLeft(LAMBDA sum, n : sum + HeaderSize + n, 0, counts)
  IN IF counts = <<>> \/ (size < BufferSize /\ Last(counts) > 0) THEN counts ELSE Front(counts)

LoadedAsDescribed ==
  vm.at = "loaded" =>
    [i \in 1 .. cheatCount |-> cheats[i - 1].codesCount] = Described(file.text)

\* At every line, the state of the interpreter is what the blocks that are
\* open and the last outcome of each conditional call for; a loop makes the
\* passes it was told to.
OpenHere == Range(Open(vm.codes, Min({vm.index, Len(vm.codes)})))

ExecutedAsNested ==
  vm.at = "line" /\ vm.index <= cheat.codesCount =>
    LET conditionals == {l \in OpenHere : Begins(vm.codes[l])}
        loops == OpenHere \ conditionals
    IN /\ skipExecution <=> conditionals \cap vm.failed # {}
       /\ vm.ifCount = Cardinality(conditionals)
       /\ IF loops = {} THEN vm.loopLine = -1 /\ vm.passes = vm.promised
          ELSE /\ loops = {vm.loopLine + 1}
               /\ vm.passes + vm.loopCount = vm.promised + 1

=============================================================================
