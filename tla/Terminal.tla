------------------------------ MODULE Terminal ------------------------------
(***************************************************************************)
(* The shell's command line (kernel/shell/Shell.c) and the editor it calls *)
(* (kernel/shell/editor.c), on the screen of module Console, with the      *)
(* output of other processes and of interrupt handlers coming in between   *)
(* any two keys.                                                           *)
(*                                                                         *)
(* One action per key that getKey returns. A command is reduced to what it *)
(* does to the screen; the editor's name is the line EditorName. There is  *)
(* at most one file, in one cluster, and readFile and writeFile find it.   *)
(* The clusters of the disk hold whatever was in them before.              *)
(***************************************************************************)
EXTENDS Console

CONSTANTS Chars,      \* the characters that are typed into a line or a text
          MaxLine,    \* bound: length of a command line (commandBuffer has 100 bytes)
          MaxState,   \* bound: length of a line in ESC mode (79 in the code)
          BUF,        \* sizeof(buffer) in the editor
          OldTexts,   \* what the clusters of the disk hold
          MaxSaved,   \* bound: length of a saved text
          MaxCommands, MaxOther,  \* bounds: commands, and outputs of others
          Outputs,    \* what commands print
          EditorName

ASSUME TerminalAssumption ==
    /\ Chars \cap {NUL, BACK_SPACE, NEWLINE, "ESC"} = {}
    /\ MaxLine \in Nat /\ MaxState \in Nat \ {0}
    /\ BUF \in Nat \ {0}
    /\ MaxSaved \in Nat /\ MaxCommands \in Nat /\ MaxOther \in Nat
    /\ OldTexts # {}

ENTER     == NEWLINE
BACKSPACE == BACK_SPACE
ESC       == "ESC"
Space     == " "

Other      == "o"        \* a character the user did not type
Message    == <<Other, Other, Other, Other, Other>>
Prompt     == <<Other, Other, Other, Other>>  \* accountName and ">"
Commands   == {"w", "q"} \* what is typed after ESC
MAX_LENGTH == (LINE_COUNT - 1) * WIDTH
Glyphs     == Chars \cup Commands \cup {Space, ESC, Other}
Cluster    == [0 .. BUF - 1 -> Chars \cup {NUL, Space}]
EmptyFile  == [i \in 0 .. BUF - 1 |-> NUL]

\* A cluster without NUL would let strlen run out of the buffer; writeFile and the
\* editor put one into every cluster they fill.
ASSUME OldTextAssumption ==
    \A b \in OldTexts :
        /\ b \in Cluster
        /\ \E n \in 0 .. BUF - 1 : b[n] = NUL /\ \A i \in 0 .. n - 1 : b[i] # NUL

\* What commands print is not empty and has no empty line, as in the code. Empty lines
\* can take the cursor so far below the screen that the prompt does not bring it back,
\* and what is typed behind it is not seen.
ASSUME OutputAssumption ==
    \A str \in Outputs :
        /\ str \in Seq(Glyphs \cup {NEWLINE}) /\ str # <<>>
        /\ str[1] # NEWLINE /\ str[Len(str)] # NEWLINE
        /\ \A i \in 1 .. Len(str) - 1 : str[i] = NEWLINE => str[i + 1] # NEWLINE

VARIABLES
    screen,      \* module Console
    monitor,     \* the copy saveVideoMemory made
    mode,        \* "shell", "edit", or "state" (the editor after ESC)
    line,        \* commandBuffer
    buffer, strIdx, stateBuffer,
    cluster, fileSize,   \* the file on disk; -1 when there is none
    demo,        \* processes of multiTasking or ring3 are alive
    disturbed,   \* history: the screen is known not to show the line or text
    soFar        \* commands and outputs of others so far, for the bounds

editVars == <<buffer, strIdx, stateBuffer>>
fileVars == <<cluster, fileSize>>
vars == <<screen, monitor, mode, line, editVars, fileVars, demo, disturbed,
          soFar>>

Screens == [cell : [Cells -> Glyphs \cup {NUL}], cp : Int]

TypeOK ==
    /\ screen \in Screens /\ monitor \in Screens
    /\ mode \in {"shell", "edit", "state"}
    /\ line \in Seq(Chars \cup {ESC}) /\ Len(line) <= MaxLine
    /\ buffer \in Cluster /\ strIdx \in 0 .. BUF - 1
    /\ stateBuffer \in Seq(Commands) /\ Len(stateBuffer) <= MaxState
    /\ cluster \in Cluster /\ fileSize \in -1 .. BUF - 1
    /\ demo \in BOOLEAN /\ disturbed \in BOOLEAN
    /\ soFar \in [commands : 0 .. MaxCommands, others : 0 .. MaxOther]

strlen(b) == CHOOSE n \in DOMAIN b : b[n] = NUL /\ \A i \in 0 .. n - 1 : b[i] # NUL

\* The string at the beginning of b.
stringIn(b) == [i \in 1 .. strlen(b) |-> b[i - 1]]

Init ==
    /\ screen = printString(clear, Prompt) /\ monitor = clear
    /\ mode = "shell" /\ line = <<>>
    /\ buffer = EmptyFile /\ strIdx = 0 /\ stateBuffer = <<>>
    /\ cluster \in OldTexts /\ fileSize \in {-1, 0, strlen(cluster)}
    /\ demo = FALSE /\ disturbed = FALSE
    /\ soFar = [commands |-> 0, others |-> 0]

-----------------------------------------------------------------------------
(* startShell.                                                             *)

shellKey(ch) ==
    /\ mode = "shell" /\ Len(line) < MaxLine
    /\ line' = Append(line, ch)
    /\ screen' = viewCharacter(screen, ch)
    /\ UNCHANGED <<monitor, mode, editVars, fileVars, demo, disturbed, soFar>>

shellBackspace ==
    /\ mode = "shell" /\ line # <<>>
    /\ line' = Front(line)
    /\ screen' = viewCharacter(screen, BACK_SPACE)
    /\ UNCHANGED <<monitor, mode, editVars, fileVars, demo, disturbed, soFar>>

\* Mutant of newPrompt: the command buffer is not emptied.
newPromptKeepsLine(v) ==
    /\ screen' = printString(puts(v, <<>>), Prompt)
    /\ disturbed' = FALSE
    /\ UNCHANGED line

\* Output that does not come from the line or text, within the bound.
disturb == soFar.others < MaxOther /\ soFar' = [soFar EXCEPT !.others = @ + 1]

\* ENTER, within the bound.
enter ==
    /\ mode = "shell"
    /\ soFar.commands < MaxCommands
    /\ soFar' = [soFar EXCEPT !.commands = @ + 1]

\* The end of the ENTER branch, after a command that left the screen as v.
newPrompt(v) ==
    /\ screen' = printString(puts(v, <<>>), Prompt)
    /\ line' = <<>>
    /\ disturbed' = FALSE

\* executeCommand, by what the function of a command does to screen v: nothing
\* (an empty name, touch, rm), output that ends without or with a new line, and
\* clear. A failing editor prints and is overwritten by loadVideoMemory: nothing.
commandScreens(v) ==
    {v, clear} \cup {printString(v, str) : str \in Outputs}
               \cup {puts(v, str) : str \in Outputs}

shellEnter ==
    /\ enter
    /\ \E v \in commandScreens(puts(screen, <<>>)) : newPrompt(v)
    /\ UNCHANGED <<monitor, mode, editVars, fileVars, demo>>

\* touch: createFile writes the directory and the link, and leaves in the cluster it
\* finds what was there.
shellTouch ==
    /\ enter /\ fileSize = -1
    /\ fileSize' = 0
    /\ cluster' \in OldTexts \cup {cluster}
    /\ newPrompt(puts(screen, <<>>))
    /\ UNCHANGED <<monitor, mode, editVars, demo>>

\* rm, or formatting, which says so. Neither touches the cluster.
shellRemove ==
    /\ enter /\ fileSize # -1
    /\ fileSize' = -1
    /\ LET v == puts(screen, <<>>)
       IN  \/ newPrompt(v)
           \/ \E str \in Outputs : newPrompt(puts(v, str))
    /\ UNCHANGED <<monitor, mode, editVars, cluster, demo>>

\* multiTasking and ring3: the prompt goes to the line the demo leaves free.
shellDemo ==
    /\ enter
    /\ newPrompt(cursorLine(clear, LINE_COUNT - 1))
    /\ demo' = TRUE
    /\ UNCHANGED <<monitor, mode, editVars, fileVars>>

\* rebootSystem: everything but the disk starts anew.
shellReboot ==
    /\ enter
    /\ screen' = printString(clear, Prompt) /\ monitor' = clear
    /\ line' = <<>>
    /\ buffer' = EmptyFile /\ strIdx' = 0 /\ stateBuffer' = <<>>
    /\ demo' = FALSE /\ disturbed' = FALSE
    /\ UNCHANGED <<mode, fileVars>>

-----------------------------------------------------------------------------
(* runEditor, called by the editor command.                                *)

\* Characters and cursor; loadVideoMemory brings both back in leaveEditor.
saveVideoMemory(v) == monitor' = v

\* The first n characters of b on an empty screen.
viewText(b, n) ==
    LET after[i \in 0 .. n] ==
            IF i = 0 THEN clear ELSE viewCharacter(after[i - 1], b[i - 1])
    IN  after[n]

openEditor ==
    /\ enter /\ line = EditorName /\ fileSize # -1
    /\ saveVideoMemory(puts(screen, <<>>))
    /\ buffer' = cluster
    /\ strIdx' = strlen(cluster)
    /\ screen' = viewText(cluster, IF strIdx' < MAX_LENGTH THEN strIdx' ELSE MAX_LENGTH)
    /\ mode' = "edit"
    /\ disturbed' = (strIdx' > MAX_LENGTH)
    /\ UNCHANGED <<line, stateBuffer, fileVars, demo>>

typing == UNCHANGED <<monitor, line, fileVars, demo, soFar>>

\* Ignored when the next multiple of the width is beyond the buffer.
editEnter ==
    LET new == strIdx - (strIdx % WIDTH) + WIDTH
    IN  /\ mode = "edit" /\ new <= BUF - 1
        /\ buffer' = [i \in 0 .. BUF - 1 |->
                         IF i = new THEN NUL
                         ELSE IF i \in strIdx .. new - 1 THEN Space ELSE buffer[i]]
        /\ strIdx' = new
        /\ screen' = moveToNextLine(screen)
        /\ disturbed' = (disturbed \/ screen.cp \notin Cells)
        /\ UNCHANGED <<mode, stateBuffer>> /\ typing

\* Mutant of editBackspace: the last character stays in the buffer.
editBackspaceNoNul ==
    /\ mode = "edit" /\ strIdx > 0
    /\ strIdx' = strIdx - 1
    /\ screen' = viewCharacter(screen, BACK_SPACE)
    /\ UNCHANGED <<buffer, mode, stateBuffer, disturbed>> /\ typing

editBackspace ==
    /\ mode = "edit" /\ strIdx > 0
    /\ strIdx' = strIdx - 1
    /\ buffer' = [buffer EXCEPT ![strIdx - 1] = NUL]
    /\ screen' = viewCharacter(screen, BACK_SPACE)
    /\ UNCHANGED <<mode, stateBuffer, disturbed>> /\ typing

editKey(ch) ==
    /\ mode = "edit" /\ strIdx < BUF - 1
    /\ buffer' = [buffer EXCEPT ![strIdx] = ch, ![strIdx + 1] = NUL]
    /\ strIdx' = strIdx + 1
    /\ screen' = viewCharacter(screen, ch)
    /\ UNCHANGED <<mode, stateBuffer, disturbed>> /\ typing

editEscape ==
    /\ mode = "edit"
    /\ mode' = "state" /\ stateBuffer' = <<>>
    /\ UNCHANGED <<screen, buffer, strIdx, disturbed>> /\ typing

stateKey(ch) ==
    /\ mode = "state" /\ Len(stateBuffer) < MaxState
    /\ screen' = viewCharacterXY(screen, ch, LINE_COUNT - 1, Len(stateBuffer))
    /\ stateBuffer' = Append(stateBuffer, ch)
    /\ UNCHANGED <<mode, buffer, strIdx, disturbed>> /\ typing

stateBackspace ==
    /\ mode = "state" /\ stateBuffer # <<>>
    /\ screen' = viewCharacterXY(screen, NUL, LINE_COUNT - 1, Len(stateBuffer) - 1)
    /\ stateBuffer' = Front(stateBuffer)
    /\ UNCHANGED <<mode, buffer, strIdx, disturbed>> /\ typing

\* The second ESC blanks the last line and is then shown like a typed character,
\* which it is not: the cursor is one ahead of the text from here on.
stateEscape ==
    /\ disturb /\ mode = "state"
    /\ screen' = viewCharacter(blankLine(screen, LINE_COUNT - 1), ESC)
    /\ mode' = "edit" /\ stateBuffer' = <<>>
    /\ disturbed' = TRUE
    /\ UNCHANGED <<monitor, line, buffer, strIdx, fileVars, demo>>

\* Back in the shell after loadVideoMemory. The buffer is dead: readFile fills
\* all of it.
leaveEditor ==
    /\ newPrompt(monitor)
    /\ mode' = "shell" /\ monitor' = clear
    /\ buffer' = EmptyFile /\ strIdx' = 0 /\ stateBuffer' = <<>>
    /\ UNCHANGED <<demo, soFar>>

stateSave ==
    /\ mode = "state" /\ stateBuffer # <<>> /\ Head(stateBuffer) = "w"
    /\ strIdx <= MaxSaved
    /\ cluster' = buffer
    /\ fileSize' = strlen(buffer)
    /\ leaveEditor

stateQuit ==
    /\ mode = "state" /\ stateBuffer # <<>> /\ Head(stateBuffer) = "q"
    /\ leaveEditor
    /\ UNCHANGED fileVars

-----------------------------------------------------------------------------
(* Output that does not come from the shell process.                       *)

\* The cells that show the line or text, as long as nothing disturbs it.
ownCells ==
    IF mode = "shell" THEN screen.cp - Len(line) .. screen.cp - 1 ELSE Cells

\* bannerProcess, and writeXY for the ring 3 program: any line, and any character of
\* the program's string, BACK_SPACE included.
drawDemo ==
    /\ disturb /\ demo
    /\ \E ch \in {Other, BACK_SPACE}, y \in 0 .. LINE_COUNT - 1, x \in 0 .. WIDTH - 1 :
         /\ screen' = viewCharacterXY(screen, ch, y, x)
         /\ disturbed' = (disturbed \/ ch = BACK_SPACE \/ y * WIDTH + x \in ownCells)
    /\ UNCHANGED <<monitor, mode, line, editVars, fileVars, demo>>

endDemo ==
    /\ demo /\ demo' = FALSE
    /\ UNCHANGED <<screen, monitor, mode, line, editVars, fileVars, disturbed,
                   soFar>>

\* exceptionHandler reports a killed ring 3 process, dispatchInterrupt a vector
\* without a handler: wherever the cursor is.
report ==
    /\ disturb
    /\ \/ demo /\ screen' = puts(moveToNextLine(screen), Message)
       \/ screen' = printString(puts(screen, Message), <<Other>>)
    /\ disturbed' = TRUE
    /\ UNCHANGED <<monitor, mode, line, editVars, fileVars, demo>>

Next ==
    \/ \E ch \in Chars \cup {ESC} : shellKey(ch)
    \/ shellBackspace \/ shellEnter \/ shellTouch \/ shellRemove
    \/ shellDemo \/ shellReboot \/ openEditor
    \/ \E ch \in Chars : editKey(ch)
    \/ \E ch \in Commands : stateKey(ch)
    \/ editEnter \/ editBackspace \/ editEscape
    \/ stateBackspace \/ stateEscape \/ stateSave \/ stateQuit
    \/ drawDemo \/ endDemo \/ report

Spec == Init /\ [][Next]_vars

-----------------------------------------------------------------------------
(* Correctness.                                                            *)

Editor == INSTANCE TextEditor
             WITH Width <- WIDTH, Limit <- BUF - 1, Letters <- Chars,
                  open <- mode # "shell",
                  text <- IF mode = "shell" THEN <<>> ELSE stringIn(buffer),
                  file <- stringIn(cluster), size <- fileSize

\* The editor opens with the text that is on the disk, keeps what the user typed,
\* erased and broke into lines, and a save puts exactly this text and its length on
\* the disk, whatever the screen shows. A created file has size 0 and may open with
\* an old text.
ImplementsEditor == Editor!Spec

looks(ch) == IF ch = Space THEN NUL ELSE ch

\* The text str ends at the cursor: what of it is on the screen is seen.
Shown(str) ==
    \A i \in 1 .. Len(str) :
        LET c == screen.cp - Len(str) + i - 1
        IN  c \in Cells => looks(screen.cell[c]) = looks(str[i])

\* What the shell executes on ENTER is what stands behind the prompt, through
\* scrolling, erasing and editing files, unless another process wrote there or moved
\* the cursor (a BACK_SPACE in writeXY does).
VisibleIsExecuted ==
    /\ TypeOK
    /\ mode = "shell" /\ ~disturbed => Shown(line)

\* The editor shows its text where the cursor is, in the same column, unless an ESC
\* was cancelled, a line was broken outside the screen, the opened text was longer
\* than MAX_LENGTH or other output came in.
EditorShowsText ==
    mode = "edit" /\ ~disturbed =>
        /\ (strIdx - screen.cp) % WIDTH = 0
        /\ Shown(stringIn(buffer))
=============================================================================
