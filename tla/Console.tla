------------------------------- MODULE Console -------------------------------
(***************************************************************************)
(* common/Print.c: the text screen and currentPoint, counted in characters *)
(* from the top left corner. The screen is a record v with the characters  *)
(* (cell) and the cursor (cp); every function of Print.c maps a screen to  *)
(* the next one. Colours are left out. currentPoint may point outside the  *)
(* screen; a character written there is not seen.                          *)
(***************************************************************************)
EXTENDS Integers, SequencesExt

CONSTANTS WIDTH,       \* ONE_LINE_SIZE/ONE_CHAR_SIZE
          LINE_COUNT

\* 80 and 25 in the code. With one column viewCharacter would never come back from
\* below the screen.
ASSUME ConsoleAssumption == WIDTH \in Nat \ {0, 1} /\ LINE_COUNT \in Nat \ {0, 1}

End   == WIDTH * LINE_COUNT
Cells == 0 .. End - 1

NUL        == ""
BACK_SPACE == "BS"
NEWLINE    == "NL"

put(v, i, ch) == IF i \in Cells THEN [v EXCEPT !.cell[i] = ch] ELSE v

\* The column, by the remainder of C: above the screen it has the sign of the cursor,
\* and the new line is the next but one.
xIdx(p) == IF p >= 0 THEN p % WIDTH ELSE -((-p) % WIDTH)

moveToNextLine(v) == [v EXCEPT !.cp = @ + WIDTH - xIdx(@)]

\* Every line moves up by one and the last is blank (fillLastLineBlank).
scroll(v) ==
    [v EXCEPT !.cell = [i \in Cells |-> IF i + WIDTH < End THEN @[i + WIDTH] ELSE NUL]]

\* Mutant of viewCharacter: the cursor does not follow the scrolled text.
viewCharacterStays(v, ch) ==
    IF ch = BACK_SPACE THEN [put(v, v.cp - 1, NUL) EXCEPT !.cp = @ - 1]
    ELSE IF v.cp + 1 >= End THEN put(scroll(v), v.cp - WIDTH, ch)
    ELSE [put(v, v.cp, ch) EXCEPT !.cp = @ + 1]

\* One scroll at most, also when the cursor is further below the screen.
viewCharacter(v, ch) ==
    IF ch = BACK_SPACE THEN [put(v, v.cp - 1, NUL) EXCEPT !.cp = @ - 1]
    ELSE IF v.cp + 1 >= End
         THEN [put(scroll(v), v.cp - WIDTH, ch) EXCEPT !.cp = @ + 1 - WIDTH]
    ELSE [put(v, v.cp, ch) EXCEPT !.cp = @ + 1]

\* BACK_SPACE erases the cell before and moves the cursor, wherever that is.
viewCharacterXY(v, ch, line, x) ==
    IF ch = BACK_SPACE THEN [put(v, line * WIDTH + x - 1, NUL) EXCEPT !.cp = @ - 1]
    ELSE put(v, line * WIDTH + x, ch)

\* One round of the loop of printString.
printed(v, ch) == IF ch = NEWLINE THEN moveToNextLine(v) ELSE viewCharacter(v, ch)

printString(v, str) ==
    LET after[i \in 0 .. Len(str)] == IF i = 0 THEN v ELSE printed(after[i - 1], str[i])
    IN  after[Len(str)]

puts(v, str) == moveToNextLine(printString(v, str))

clear == [cell |-> [i \in Cells |-> NUL], cp |-> 0]

cursorLine(v, line) == [v EXCEPT !.cp = line * WIDTH]

\* fillLastLineBlank and the loop of the editor over the last line.
blankLine(v, line) ==
    [v EXCEPT !.cell = [i \in Cells |-> IF i \div WIDTH = line THEN NUL ELSE @[i]]]
=============================================================================
