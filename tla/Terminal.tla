------------------------------ MODULE Terminal ------------------------------
(***************************************************************************)
(* The shell's GUI terminal (include/gui/terminal.h, include/gui/objects.h,*)
(* include/console.h, user/shell.cpp) and the monitor it waits on          *)
(* (system/process.cpp).                                                   *)
(*                                                                         *)
(* Two threads of the shell process share it.  The event thread gets       *)
(* KEY_CHAR_DOWN messages and runs GUITerminal::key_handler: the key goes  *)
(* into the ring input_buf and INPUT_MONITOR is notified.  The main thread *)
(* prints the prompt and runs GUITerminal::read, which waits on            *)
(* INPUT_MONITOR for each key, edits the line (backspace, overflow) and    *)
(* echoes it into the TextBox, whose ring of text cells scrolls by whole   *)
(* rows; every write ends with the redraw_gui syscall, which posts the     *)
(* TextBox's redraw_rect to the display worker.                            *)
(*                                                                         *)
(* The window is seen through its character cells: Shown(b) is the glyph  *)
(* a full redraw of the TextBox (GUITextBox::draw) puts in each cell.      *)
(***************************************************************************)
EXTENDS Integers, Sequences, SequencesExt, FiniteSets, FiniteSetsExt

CONSTANTS
    Keys,          \* the key codes a KEY_CHAR_DOWN may carry
    NL, BS,        \* '\n' and '\b' among them
    MaxKeys,       \* bound on the keys typed
    InBuf,         \* MAX_INPUT_BUFFER
    CmdMax,        \* max_cmd_chars in the shell's _start
    PrintMax,      \* MAX_PRINT_CHARS of console.h
    CharW, CharH,  \* TextBox::Buffer<W, H>
    SpX, SpY,      \* CHAR_SPACING_X, CHAR_SPACING_Y
    RectW, RectH,  \* the TextBox's rect.r - rect.l, rect.b - rect.t
    Banner,        \* "Shell accepting commands:\n"
    Unrec,         \* "Unrecognized command: "
    HelpWord,      \* "help", compared by strncmp over its length
    HelpLines      \* display_help's two lines

ASSUME /\ NL \in Keys /\ BS \in Keys
       /\ InBuf >= CmdMax           \* so that read's second overflow test never fires
       /\ CmdMax - 2 < CharW * (CharH - 1)

Blank == " "
Cursor == "_"
Nul == "nul"                    \* the zeroed text of a fresh Buffer
Junk == "junk"                  \* input_buf is never initialised
Prompt == <<">">>

MaxC == CharW * CharH           \* Buffer::max
Slots == 0..(MaxC - 1)
MinOf(a, b) == IF a < b THEN a ELSE b
MaxOf(a, b) == IF a > b THEN a ELSE b
Rect(a, b, c, d) == [l |-> a, t |-> b, r |-> c, b |-> d]
NoRect == Rect(0, 0, 0, 0)
FullRect == Rect(0, 0, RectW, RectH)
PrefixOf(s, n) == SubSeq(s, 1, MinOf(n, Len(s)))

(*************************** TextBox (objects.h) ***************************)

(* The characters print writes from position pos on: a '\n' becomes the    *)
(* blanks up to the end of its row.                                        *)
RECURSIVE Expand(_, _)
Expand(s, pos) ==
    IF s = <<>> THEN <<>>
    ELSE LET e == IF Head(s) = NL
                  THEN [j \in 1..(CharW - (pos % CharW)) |-> Blank]
                  ELSE <<Head(s)>>
         IN  e \o Expand(Tail(s), pos + Len(e))

(* text[(t0 + k - 1) % max] = e[k] in order: the last write to a slot wins. *)
Put(text, t0, e) ==
    [i \in Slots |-> LET ks == {k \in 1..Len(e) : (t0 + k - 1) % MaxC = i}
                     IN  IF ks = {} THEN text[i] ELSE e[Max(ks)]]

Fill(text, t0, n, c) ==
    [i \in Slots |-> IF \E k \in 0..(n - 1) : (t0 + k) % MaxC = i
                     THEN c ELSE text[i]]

(* Mutant: the same-row case takes its left edge from the new cursor.     *)
set_redraw_rect_newleft(b, old, new) ==
    IF old = new THEN b
    ELSE LET nx == (new % CharW) * SpX
             ny == (new \div CharW) * SpY + b.offy
             ox == (old % CharW) * SpX
             oy == (old \div CharW) * SpY + b.offy
         IN  CASE ny < 0 -> [b EXCEPT !.offy = @ - ny, !.rr = FullRect, !.nr = TRUE]
               [] ny + SpY > RectH ->
                     [b EXCEPT !.offy = @ + (RectH - (ny + SpY)), !.rr = FullRect,
                               !.nr = TRUE]
               [] OTHER ->
                     [b EXCEPT !.rr = Rect(IF oy = ny THEN nx ELSE 0,
                                           MinOf(oy, ny),
                                           IF oy = ny THEN MaxOf(ox, nx) + SpX ELSE RectW,
                                           MaxOf(oy, ny) + SpY),
                               !.nr = TRUE]

(* TextBox::set_redraw_rect: scroll (offset_y) so that the new cursor row *)
(* is inside the window and redraw it all, or else redraw the cells       *)
(* between the old and the new cursor (whole rows if the row changed).    *)
set_redraw_rect(b, old, new) ==
    IF old = new THEN b
    ELSE LET nx == (new % CharW) * SpX
             ny == (new \div CharW) * SpY + b.offy
             ox == (old % CharW) * SpX
             oy == (old \div CharW) * SpY + b.offy
         IN  CASE ny < 0 -> [b EXCEPT !.offy = @ - ny, !.rr = FullRect, !.nr = TRUE]
               [] ny + SpY > RectH ->
                     [b EXCEPT !.offy = @ + (RectH - (ny + SpY)), !.rr = FullRect,
                               !.nr = TRUE]
               [] OTHER ->
                     [b EXCEPT !.rr = Rect(IF oy = ny THEN MinOf(ox, nx) ELSE 0,
                                           MinOf(oy, ny),
                                           IF oy = ny THEN MaxOf(ox, nx) + SpX ELSE RectW,
                                           MaxOf(oy, ny) + SpY),
                               !.nr = TRUE]

(* TextBox::print: keep the last max characters, write them (a newline    *)
(* pads its row), scroll the ring by one row once it holds max or more,   *)
(* blank the next row when the cursor is at a row start, draw the cursor. *)
TextPrint(b, s) ==
    LET s1   == IF Len(s) > MaxC THEN SubSeq(s, Len(s) - MaxC + 1, Len(s)) ELSE s
        e    == Expand(s1, b.tail)
        t1   == b.tail + Len(e)
        txt1 == Put(b.text, b.tail, e)
        hd   == IF t1 - b.head >= MaxC THEN b.head + CharW ELSE b.head
        txt2 == IF t1 % CharW = 0 THEN Fill(txt1, t1, CharW, Blank) ELSE txt1
    IN  set_redraw_rect([b EXCEPT !.text = [txt2 EXCEPT ![t1 % MaxC] = Cursor],
                                  !.head = hd, !.tail = t1],
                        b.tail, t1)

(* TextBox::backspace.                                                    *)
TextBackspace(b) ==
    IF b.head >= b.tail THEN b
    ELSE LET t1 == b.tail - 1
         IN  set_redraw_rect(
                [b EXCEPT !.text = [[@ EXCEPT ![b.tail % MaxC] = Blank]
                                       EXCEPT ![t1 % MaxC] = Cursor],
                          !.tail = t1],
                b.tail, t1)

(* redraw_gui -> gui_redraw_proc: a TextBox with needs_redraw posts its   *)
(* redraw_rect and clears the flag.                                       *)
Posted(b) == IF b.nr THEN b.rr ELSE NoRect
Flushed(b) == [b EXCEPT !.nr = FALSE]

(* GUITextBox::draw after a full redraw: rows head/W .. tail/W of the     *)
(* ring, at offset_y, columns 0 .. W-1; the rest of the window shows what *)
(* lies below ("bg").                                                     *)
Grid == (0..(RectW - 1)) \X (0..(RectH - 1))
Shown(b) ==
    [p \in Grid |->
        LET col == p[1] \div SpX
            row == (p[2] - b.offy) \div SpY
        IN  IF row \in (b.head \div CharW)..(b.tail \div CharW) /\ col < CharW
            THEN b.text[(row * CharW + col) % MaxC] ELSE "bg"]
InRect(r, p) == r.l <= p[1] /\ p[1] < r.r /\ r.t <= p[2] /\ p[2] < r.b

(******************************** State ************************************)

VARIABLES
    ibuf, ihead, itail,  \* GUITerminal::input_buf, input_buf_head, input_buf_tail
    sig,                 \* INPUT_MONITOR's signal
    sw,                  \* the reading thread's signal_wait = &signal
    run,                 \* its runState = RUNNING
    spc,                 \* where the shell's main thread is
    line,                \* read's buffer[0 .. len-1]
    lstart,              \* the TextBox tail when read began
    cmd,                 \* the command read, without its '\n'
    tb,                  \* the TextBox: text, head, tail, offset_y, redraw_rect, needs_redraw
    posted,              \* the REDRAW_RECT this step posted, or NoRect
    acc, taken           \* keys key_handler accepted and read consumed (history)

vars == <<ibuf, ihead, itail, sig, sw, run, spc, line, lstart, cmd, tb, posted,
          acc, taken>>

SpcStates == {"start", "banner", "prompt", "check", "setwait", "sleep",
              "wake", "get", "cmd", "help2"}
Glyphs == Keys \cup {Blank, Cursor, Nul} \cup ToSet(Prompt) \cup ToSet(Banner)
          \cup ToSet(Unrec) \cup UNION {ToSet(l) : l \in ToSet(HelpLines)}
TBox == [text : [Slots -> Glyphs],
         head : Nat, tail : Nat, offy : Int,
         rr : [{"l", "t", "r", "b"} -> Int], nr : BOOLEAN]

TypeOK ==
    /\ ibuf \in [0..(InBuf - 1) -> Keys \cup {Junk}]
    /\ ihead \in Nat /\ itail \in Nat /\ ihead <= itail
    /\ sig \in Nat /\ sw \in BOOLEAN /\ run \in BOOLEAN
    /\ spc \in SpcStates
    /\ line \in Seq(Keys) /\ cmd \in Seq(Keys) /\ lstart \in Nat
    /\ tb \in TBox
    /\ posted \in [{"l", "t", "r", "b"} -> Int]
    /\ acc \in Seq(Keys) /\ taken \in Seq(Keys)

Init ==
    /\ ibuf = [i \in 0..(InBuf - 1) |-> Junk]
    /\ ihead = 0 /\ itail = 0
    /\ sig = 0 /\ sw = FALSE /\ run = TRUE
    /\ spc = "start" /\ line = <<>> /\ lstart = 0 /\ cmd = <<>>
    /\ tb = [text |-> [i \in Slots |-> Nul], head |-> 0, tail |-> 0, offy |-> 0,
             rr |-> FullRect, nr |-> TRUE]
    /\ posted = NoRect
    /\ acc = <<>> /\ taken = <<>>

(* GUITerminal::write, the user-space stdout driver: TextBox::print, then *)
(* the redraw_gui syscall posts the TextBox's redraw_rect.                 *)
Write(b, s) ==
    LET b1 == TextPrint(b, s)
    IN  /\ tb' = Flushed(b1)
        /\ posted' = Posted(b1)

(* console.h print/println: sprint truncates at MAX_PRINT_CHARS, so the    *)
(* newline println appends is lost from a long line.                       *)
Println(s) == Write(tb, PrefixOf(s \o <<NL>>, PrintMax))

MonVars == <<sig, sw, run>>
KeyVars == <<ibuf, itail, acc>>

(************************** The shell's main thread ************************)

(* _start: update_gui, redraw_gui (posts the window the constructor       *)
(* marked), then println("Shell accepting commands:").                    *)
Start ==
    /\ spc = "start"
    /\ tb' = Flushed(tb) /\ posted' = Posted(tb)
    /\ spc' = "banner"
    /\ UNCHANGED <<KeyVars, ihead, MonVars, line, lstart, cmd, taken>>

ShowBanner ==
    /\ spc = "banner"
    /\ Println(Banner)
    /\ spc' = "prompt"
    /\ UNCHANGED <<KeyVars, ihead, MonVars, line, lstart, cmd, taken>>

(* print(">"), then getline -> GUITerminal::read with len = 0.             *)
ShowPrompt ==
    /\ spc = "prompt"
    /\ Write(tb, Prompt)
    /\ line' = <<>> /\ lstart' = tb'.tail
    /\ spc' = "check"
    /\ UNCHANGED <<KeyVars, ihead, MonVars, cmd, taken>>

(* Mutant: the thread waits only on a negative signal.                   *)
MonCheck_nowait ==
    /\ spc = "check"
    /\ IF sig >= 0 THEN sig' = MaxOf(sig - 1, 0) /\ spc' = "get"
                   ELSE UNCHANGED sig /\ spc' = "setwait"
    /\ posted' = NoRect
    /\ UNCHANGED <<KeyVars, ihead, sw, run, line, lstart, cmd, tb, taken>>

(* Process::monitor(INPUT_MONITOR, 1), split where interrupts are on: the *)
(* lock is taken and released with sti, so the test of the signal, the    *)
(* store to signal_wait and the store to runState are separate steps.     *)
MonCheck ==
    /\ spc = "check"
    /\ IF sig > 0 THEN sig' = sig - 1 /\ spc' = "get"
                  ELSE UNCHANGED sig /\ spc' = "setwait"
    /\ posted' = NoRect
    /\ UNCHANGED <<KeyVars, ihead, sw, run, line, lstart, cmd, tb, taken>>

MonSetWait ==
    /\ spc = "setwait"
    /\ sw' = TRUE /\ spc' = "sleep"
    /\ posted' = NoRect
    /\ UNCHANGED <<KeyVars, ihead, sig, run, line, lstart, cmd, tb, taken>>

MonSleep ==
    /\ spc = "sleep"
    /\ run' = FALSE /\ spc' = "wake"
    /\ posted' = NoRect
    /\ UNCHANGED <<KeyVars, ihead, sig, sw, line, lstart, cmd, tb, taken>>

(* Back from yield once notify made the thread RUNNING: signal -= 1,      *)
(* clamped at 0.                                                          *)
MonWake ==
    /\ spc = "wake" /\ run
    /\ sig' = MaxOf(sig - 1, 0) /\ spc' = "get"
    /\ posted' = NoRect
    /\ UNCHANGED <<KeyVars, ihead, sw, run, line, lstart, cmd, tb, taken>>

ReadMax == CmdMax - 1            \* getline(command, max_cmd_chars - 1)

(* Mutant: the overflow path shortens the buffer but not the TextBox.     *)
Overflow_nobackspace(bl, lim) ==
    IF Len(bl[2]) >= lim - 1 THEN <<bl[1], SubSeq(bl[2], 1, lim - 2)>> ELSE bl

(* read's overflow test: at lim characters the last one is taken back,    *)
(* from the buffer and from the TextBox (without a redraw_gui).           *)
Overflow(bl, lim) ==
    IF Len(bl[2]) >= lim - 1
    THEN <<TextBackspace(bl[1]), SubSeq(bl[2], 1, lim - 2)>>
    ELSE bl

(* One pass of GUITerminal::read's loop after monitor returned: take the  *)
(* next key from input_buf; '\b' erases the last character (if any) and   *)
(* redraws; any other key, after the two overflow tests, is stored and    *)
(* echoed with write; '\n' ends the line.                                 *)
GetChar ==
    /\ spc = "get"
    /\ LET c == ibuf[ihead % InBuf]
       IN  /\ ihead' = ihead + 1
           /\ taken' = Append(taken, c)
           /\ spc' = IF c = NL THEN "cmd" ELSE "check"
           /\ \/ /\ c = BS /\ line # <<>>
                 /\ LET b1 == TextBackspace(tb)
                    IN  tb' = Flushed(b1) /\ posted' = Posted(b1)
                 /\ line' = Front(line)
                 /\ UNCHANGED cmd
              \/ /\ c = BS /\ line = <<>>
                 /\ posted' = NoRect
                 /\ UNCHANGED <<tb, line, cmd>>
              \/ /\ c # BS
                 /\ LET bl == IF c = NL THEN <<tb, line>>
                              ELSE Overflow(Overflow(<<tb, line>>, ReadMax), InBuf)
                    IN  /\ Write(bl[1], <<c>>)
                        /\ line' = IF c = NL THEN bl[2] ELSE Append(bl[2], c)
                        /\ cmd' = IF c = NL THEN bl[2] ELSE cmd
    /\ UNCHANGED <<KeyVars, MonVars, lstart>>

(* The command loop of _start after getline: strncmp(command, "help", 4)  *)
(* selects display_help (two println), anything else is echoed back.      *)
(* (len <= 0 and a missing '\n' cannot happen: read always ends with it.) *)
RunCmd ==
    /\ spc = "cmd"
    /\ IF IsPrefix(HelpWord, cmd)
       THEN Println(HelpLines[1]) /\ spc' = "help2"
       ELSE Println(Unrec \o cmd) /\ spc' = "prompt"
    /\ UNCHANGED <<KeyVars, ihead, MonVars, line, lstart, cmd, taken>>

HelpRest ==
    /\ spc = "help2"
    /\ Println(HelpLines[2])
    /\ spc' = "prompt"
    /\ UNCHANGED <<KeyVars, ihead, MonVars, line, lstart, cmd, taken>>

(***************************** The event thread ****************************)

KeyDown(k) ==
    /\ Len(acc) < MaxKeys
    /\ posted' = NoRect
    /\ \/ /\ itail - ihead >= InBuf
          /\ UNCHANGED <<KeyVars, MonVars>>
       \/ /\ itail - ihead < InBuf
          /\ ibuf' = [ibuf EXCEPT ![itail % InBuf] = k]
          /\ itail' = itail + 1
          /\ acc' = Append(acc, k)
          /\ sig' = sig + 1
          /\ IF sw THEN sw' = FALSE /\ run' = TRUE ELSE UNCHANGED <<sw, run>>
    /\ UNCHANGED <<ihead, spc, line, lstart, cmd, tb, taken>>

Shell == Start \/ ShowBanner \/ ShowPrompt \/ MonCheck \/ MonSetWait \/ MonSleep
         \/ MonWake \/ GetChar \/ RunCmd \/ HelpRest

Next == Shell \/ \E k \in Keys : KeyDown(k)

(* The shell's main thread is scheduled by the timer whenever it is       *)
(* RUNNING; nobody has to type.  Every Shell step moves spc and no other  *)
(* step does, and Shell is enabled exactly when ShellCtl is, so           *)
(* WF_spc(ShellCtl) is WF_vars(Shell) without TLC having to print to      *)
(* decide whether the thread can move.                                    *)
ShellCtl == /\ spc # "wake" \/ run
            /\ spc' \in SpcStates \ {spc}

Spec == Init /\ [][Next]_vars /\ WF_spc(ShellCtl)

(******************************* Properties ********************************)

InRead == spc \in {"check", "setwait", "sleep", "wake", "get"}

(* While a line is being read, the TextBox shows exactly that line after  *)
(* the prompt, with the cursor right after it: backspace, the overflow    *)
(* path's take-back and the echo keep read's buffer and the screen alike. *)
EchoMatchesLine ==
    InRead =>
        /\ tb.tail = lstart + Len(line)
        /\ tb.head <= lstart
        /\ \A i \in 1..Len(line) : tb.text[(lstart + i - 1) % MaxC] = line[i]
        /\ tb.text[tb.tail % MaxC] = Cursor

(* Every step that changes what the TextBox shows posts a redraw          *)
(* rectangle covering every changed cell: set_redraw_rect's rectangle and *)
(* its scrolling of offset_y never leave stale text on the screen.        *)
RedrawCoversChanges ==
    [][\A p \in Grid : Shown(tb')[p] # Shown(tb)[p] => InRect(posted', p)]_vars

(* Every key key_handler accepted is eventually read by the shell.        *)
KeysEventuallyRead ==
    \A n \in 1..MaxKeys : Len(acc) >= n ~> Len(taken) >= n
====
