------------------------------ MODULE Console -------------------------------
(***************************************************************************)
(* The text console of kernel/src/console.rs: a grid of characters with a  *)
(* cursor, behind a spinlock.  The shell's task prints, and so do the      *)
(* interrupt handlers that preempt it (log::warn of drain_controller).     *)
(***************************************************************************)
EXTENDS Naturals, Sequences

CONSTANTS
    WIDTH, HEIGHT,  \* width_chars and height_chars
    Messages,       \* what is printed: sequences of characters, "NL", "CR" and "BS"
    MaxPrinted      \* bound: no more is printed on as many characters, before a clear

ASSUME ConsoleAssumption ==
    /\ WIDTH \in Nat \ {0} /\ HEIGHT \in Nat \ {0}
    /\ Messages \subseteq Seq(STRING) /\ MaxPrinted \in Nat
    /\ \A msg \in Messages : \A i \in DOMAIN msg : msg[i] # "clear"

Context == {"task", "irq"}
Rows == 0..(HEIGHT - 1)
Columns == 0..(WIDTH - 1)
Blank == " "
Clear == "clear"
Characters == UNION {{msg[i] : i \in DOMAIN msg} : msg \in Messages}

VARIABLES
    screen, col, row,  \* the Console
    CONSOLE,           \* who holds the spinlock, or "free"
    enabled,           \* interrupts are enabled
    irq,               \* a handler has preempted the task
    pc, text, saved,   \* per context: where it is in _print or clear, what is
                       \* left to print, and the interrupt flag it found
    printed            \* history: the text since the screen was cleared, a
                       \* message at a time, as the lock was taken

grid == <<screen, col, row>>
vars == <<grid, CONSOLE, enabled, irq, pc, text, saved, printed>>

BlankRow == [c \in Columns |-> Blank]
BlankScreen == [r \in Rows |-> BlankRow]

Init ==
    /\ screen = BlankScreen /\ col = 0 /\ row = 0
    /\ CONSOLE = "free" /\ enabled = TRUE /\ irq = FALSE
    /\ pc = [x \in Context |-> "out"] /\ text = [x \in Context |-> <<>>]
    /\ saved = [x \in Context |-> FALSE]
    /\ printed = <<>>

----------------------------------------------------------------------------
(* The grid.                                                               *)

Drawn(g, ch) == [g EXCEPT !.screen[g.row][g.col] = ch]

\* Mutant: the cursor leaves the screen by one row before it scrolls.
NewlineLate(g) ==
    IF g.row + 1 > HEIGHT
    THEN [screen |-> [r \in Rows |-> IF r + 1 \in Rows THEN g.screen[r + 1] ELSE BlankRow],
          row |-> HEIGHT - 1, col |-> 0]
    ELSE [g EXCEPT !.row = @ + 1, !.col = 0]

\* newline, and scroll at the bottom.
Newline(g) ==
    IF g.row + 1 >= HEIGHT
    THEN [screen |-> [r \in Rows |-> IF r + 1 \in Rows THEN g.screen[r + 1] ELSE BlankRow],
          row |-> HEIGHT - 1, col |-> 0]
    ELSE [g EXCEPT !.row = @ + 1, !.col = 0]

Backspace(g) == IF g.col > 0 THEN Drawn([g EXCEPT !.col = @ - 1], Blank) ELSE g

\* Mutant: the line is broken as soon as it is full.
WrappedEarly(g) == IF g.col + 1 >= WIDTH THEN Newline(g) ELSE g
\* A full line is broken only when another character comes.
Wrapped(g) == IF g.col >= WIDTH THEN Newline(g) ELSE g

Glyph(g, ch) == [Drawn(g, ch) EXCEPT !.col = @ + 1]

PutChar(g, ch) ==
    CASE ch = "NL" -> Newline(g)
      [] ch = "CR" -> [g EXCEPT !.col = 0]
      [] ch = "BS" -> Backspace(g)
      [] OTHER -> Glyph(Wrapped(g), ch)

----------------------------------------------------------------------------
(* _print and clear.                                                       *)

\* The context that has the CPU.
Runs(x) == IF irq THEN x = "irq" ELSE x = "task"

\* print! is called, or the shell's clear.
Call(x, msg) ==
    /\ Runs(x) /\ pc[x] = "out"
    /\ x = "irq" => msg # <<Clear>>
    /\ Len(printed) < MaxPrinted \/ msg = <<Clear>>
    /\ pc' = [pc EXCEPT ![x] = "disable"]
    /\ text' = [text EXCEPT ![x] = msg]
    /\ UNCHANGED <<grid, CONSOLE, enabled, irq, saved, printed>>

\* Mutant: interrupts stay enabled.
DisabledNot(x) == UNCHANGED enabled
Disabled(x) == enabled' = FALSE

\* without_interrupts remembers the flag and clears it.
Disable(x) ==
    /\ Runs(x) /\ pc[x] = "disable"
    /\ saved' = [saved EXCEPT ![x] = enabled]
    /\ Disabled(x)
    /\ pc' = [pc EXCEPT ![x] = "lock"]
    /\ UNCHANGED <<grid, CONSOLE, irq, text, printed>>

\* Whoever finds the lock taken spins.
Lock(x) ==
    /\ Runs(x) /\ pc[x] = "lock"
    /\ IF CONSOLE = "free"
       THEN /\ CONSOLE' = x
            /\ pc' = [pc EXCEPT ![x] = "write"]
            /\ printed' = IF text[x] = <<Clear>> THEN <<>> ELSE printed \o text[x]
            /\ UNCHANGED <<grid, enabled, irq, text, saved>>
       ELSE UNCHANGED vars

Write(x) ==
    /\ Runs(x) /\ pc[x] = "write" /\ text[x] # <<>>
    /\ LET g == [screen |-> screen, col |-> col, row |-> row]
           after == IF Head(text[x]) = Clear THEN [screen |-> BlankScreen, col |-> 0, row |-> 0]
                    ELSE PutChar(g, Head(text[x]))
       IN screen' = after.screen /\ col' = after.col /\ row' = after.row
    /\ text' = [text EXCEPT ![x] = Tail(@)]
    /\ UNCHANGED <<CONSOLE, enabled, irq, pc, saved, printed>>

Unlock(x) ==
    /\ Runs(x) /\ pc[x] = "write" /\ text[x] = <<>>
    /\ CONSOLE' = "free"
    /\ pc' = [pc EXCEPT ![x] = "enable"]
    /\ UNCHANGED <<grid, enabled, irq, text, saved, printed>>

Restored(x) == saved[x] \/ enabled

Enable(x) ==
    /\ Runs(x) /\ pc[x] = "enable"
    /\ enabled' = Restored(x)
    /\ pc' = [pc EXCEPT ![x] = "out"]
    /\ UNCHANGED <<grid, CONSOLE, irq, text, saved, printed>>

----------------------------------------------------------------------------
(* Interrupts (external: the gate clears the flag, iretq restores it).     *)

Interrupt ==
    /\ enabled /\ ~irq
    /\ irq' = TRUE /\ enabled' = FALSE
    /\ UNCHANGED <<grid, CONSOLE, pc, text, saved, printed>>

Iret ==
    /\ irq /\ pc["irq"] = "out"
    /\ irq' = FALSE /\ enabled' = TRUE
    /\ UNCHANGED <<grid, CONSOLE, pc, text, saved, printed>>

Step(x) == Disable(x) \/ Lock(x) \/ Write(x) \/ Unlock(x) \/ Enable(x)

Next ==
    \/ \E x \in Context : Step(x) \/ \E msg \in Messages \cup {<<Clear>>} : Call(x, msg)
    \/ Interrupt \/ Iret

Spec == Init /\ [][Next]_vars

----------------------------------------------------------------------------
(* The cursor stays on the screen, or one column to the right of it, where *)
(* put_char breaks the line before it draws: every glyph lands in the grid *)
(* and draw_glyph never indexes past the framebuffer.                      *)
TypeOK ==
    /\ screen \in [Rows -> [Columns -> {Blank} \cup Characters]]
    /\ col \in 0..WIDTH /\ row \in Rows
    /\ CONSOLE \in Context \cup {"free"}
    /\ enabled \in BOOLEAN /\ irq \in BOOLEAN
    /\ pc \in [Context -> {"out", "disable", "lock", "write", "enable"}]
    /\ saved \in [Context -> BOOLEAN]

(* "An interrupt handler that prints would otherwise deadlock on it": a    *)
(* handler that has reached the console's lock always finds it free.       *)
HandlerFindsTheLockFree == irq /\ pc["irq"] = "lock" => CONSOLE = "free"

(* without_interrupts restores the flag it found: a print from a handler   *)
(* does not let the next interrupt in before the handler's iretq.          *)
HandlersAreNotPreempted == irq => ~enabled

(* So a print never deadlocks, from a task or from a handler.              *)
LockIsSafe == HandlerFindsTheLockFree /\ HandlersAreNotPreempted

----------------------------------------------------------------------------
(* The reference: a sheet that is as long as it takes.  It has lines and   *)
(* the column of the pen on the last of them, and nothing scrolls.         *)

EmptySheet == [lines |-> <<BlankRow>>, at |-> 0]
NextLine(s) == [lines |-> Append(s.lines, BlankRow), at |-> 0]
Struck(s, c, ch) == [s.lines EXCEPT ![Len(s.lines)] = [@ EXCEPT ![c] = ch]]
Typed(s, ch) == [lines |-> Struck(s, s.at, ch), at |-> s.at + 1]

Inked(s, ch) ==
    CASE ch = "NL" -> NextLine(s)
      [] ch = "CR" -> [lines |-> s.lines, at |-> 0]
      [] ch = "BS" -> IF s.at = 0 THEN s
                      ELSE [lines |-> Struck(s, s.at - 1, Blank), at |-> s.at - 1]
      [] OTHER -> Typed(IF s.at = WIDTH THEN NextLine(s) ELSE s, ch)

\* The sheet after each of the characters of p.
Sheets(p) ==
    LET sheet[n \in 0..Len(p)] == IF n = 0 THEN EmptySheet ELSE Inked(sheet[n - 1], p[n])
    IN sheet

\* How many lines of a sheet have left the screen, and what is to be seen of it.
Gone(lines) == IF Len(lines) > HEIGHT THEN Len(lines) - HEIGHT ELSE 0
EndOf(lines) ==
    [r \in Rows |-> IF Gone(lines) + r + 1 \in DOMAIN lines
                    THEN lines[Gone(lines) + r + 1] ELSE BlankRow]

(* Whenever nobody holds the console, the screen shows the end of all that *)
(* was printed since it was cleared: each message whole and in the order   *)
(* in which the lock was taken, however the handlers preempt the task, and *)
(* whatever scrolling, line breaks and backspaces did (console.rs).        *)
ShowsTheEnd ==
    CONSOLE = "free" => screen = EndOf(Sheets(printed)[Len(printed)].lines)

=============================================================================
