------------------------------ MODULE Display ------------------------------
(***************************************************************************)
(* The window manager and the display worker (system/gui.cpp,              *)
(* system/events.cpp, include/gui/shapes.h).                               *)
(*                                                                         *)
(* A process describes its windows in user memory (Window slots); the      *)
(* update_gui syscall copies them into the window manager's GUIWindow      *)
(* objects, links children into their frame's stack and pushes every new  *)
(* top-level container onto winstack.  Nothing is painted by that: a       *)
(* REDRAW_* message on the display worker's queue makes the worker repaint *)
(* a clip rectangle with gui_redraw_rect, which splits the clip around the *)
(* topmost window that meets it and recurses into the windows below.      *)
(* Every draw also writes the pick buffer, from which a mouse press learns *)
(* which window it hit.  The mouse pointer is painted last, over a saved   *)
(* copy of what lies under it.                                             *)
(*                                                                         *)
(* The screen is a grid of Width x Height pixels.  The colour of a pixel   *)
(* is abstracted to the sequence of windows painted into it since the last *)
(* opaque fill: an opaque window leaves <<w>>, a translucent one appends   *)
(* itself to what was below.  The pointer is the layer Ptr.                *)
(***************************************************************************)
EXTENDS Integers, Sequences, SequencesExt, FiniteSets, FiniteSetsExt

CONSTANTS
    Width, Height,      \* VGA_WIDTH, VGA_HEIGHT
    UWins,              \* gids of the processes' window slots (i + pid<<4)
    UClass,             \* Window::winclass of each slot
    URect,              \* Window::rect (relative to the parent frame)
    UParentId,          \* Window::parent_id (a slot of the same process, or -1)
    UZ,                 \* Window::zindex
    UId,                \* Window::id
    UAlpha,             \* the slots whose colour has GET_ALPHA set
    Deltas,             \* mouse movements one packet may carry
    MaxPackets,         \* bound on mouse packets
    IsrInPointerCopy    \* may a packet arrive while the pointer is copied?

Nil == -1
Desk == 0                               \* win_index[0], the GUIDesktop
Ptr == -2                               \* the pointer image as a layer
NoPixel == <<-1, -1>>
Gids == {Desk} \cup UWins
Owner(w) == w \div 16                   \* gid = i + (pid << 4)
Pixels == (0..(Width - 1)) \X (0..(Height - 1))
DeskRect == [l |-> 0, t |-> 0, r |-> Width, b |-> Height]
Rect(a, b, c, d) == [l |-> a, t |-> b, r |-> c, b |-> d]
MaxOf(a, b) == IF a > b THEN a ELSE b
MinOf(a, b) == IF a < b THEN a ELSE b

InRect(r, p) == r.l <= p[1] /\ p[1] < r.r /\ r.t <= p[2] /\ p[2] < r.b

(* rect_intersect: touching rectangles intersect in an empty rectangle.   *)
Intersects(a, c) ==
    MinOf(a.r, c.r) >= MaxOf(a.l, c.l) /\ MinOf(a.b, c.b) >= MaxOf(a.t, c.t)
Intersect(a, c) ==
    Rect(MaxOf(a.l, c.l), MaxOf(a.t, c.t), MinOf(a.r, c.r), MinOf(a.b, c.b))

RectUnion(A, B) ==
    IF ~Intersects(A, B) THEN <<A, B>>
    ELSE LET top  == IF A.t < B.t THEN A ELSE B
             low  == IF A.t < B.t THEN B ELSE A
             shortr == IF A.b < B.b THEN A ELSE B
             longr  == IF A.b < B.b THEN B ELSE A
         IN << Rect(top.l, top.t, top.r, low.t),
              Rect(MinOf(A.l, B.l), low.t, MaxOf(A.r, B.r), shortr.b),
              Rect(longr.l, shortr.b, longr.r, longr.b) >>

Shift(r, dx, dy) == Rect(r.l + dx, r.t + dy, r.r + dx, r.b + dy)

(* The gid update_pick_buf writes: ((pid & 0xF) << 4) | (id & 0xF).       *)
PickId(w) == IF w = Desk THEN 0 ELSE (Owner(w) % 16) * 16 + (UId[w] % 16)

(* The windows after x in the stack s: x->next onwards.                   *)
After(s, x) == SubSeq(s, IndexFirstSubSeq(<<x>>, s) + 1, Len(s))
From(s, x) == SubSeq(s, IndexFirstSubSeq(<<x>>, s), Len(s))

Translucent(g, w) == g.cls[w] = "window" /\ w \in UAlpha

(***************************************************************************)
(* gui_redraw_rect(clip, list) as the sequence of paint operations it      *)
(* performs against the window manager g: find the first window of the     *)
(* list that meets clip, repaint above and left of it from the windows     *)
(* after it, draw it, then repaint right of and below it.                  *)
(***************************************************************************)
RECURSIVE gui_redraw_rect(_, _, _), Draw(_, _, _)
gui_redraw_rect(g, clip, lst) ==
    LET hits == {i \in 1..Len(lst) : Intersects(g.rect[lst[i]], clip)}
    IN  IF hits = {} THEN <<>>
        ELSE LET k    == Min(hits)
                 sub  == Intersect(g.rect[lst[k]], clip)
                 rest == SubSeq(lst, k + 1, Len(lst))
                 Part(cond, r) == IF cond THEN gui_redraw_rect(g, r, rest)
                                  ELSE <<>>
             IN  Part(sub.t > clip.t, Rect(clip.l, clip.t, clip.r, sub.t))
              \o Part(sub.l > clip.l, Rect(clip.l, sub.t, sub.l, sub.b))
              \o Draw(g, lst[k], sub)
              \o Part(sub.r < clip.r, Rect(sub.r, sub.t, clip.r, sub.b))
              \o Part(sub.b < clip.b, Rect(clip.l, sub.b, clip.r, clip.b))

(* The virtual draw of each class.  A paint operation names the window,   *)
(* the rectangle and whether it fills, blends or writes the pick buffer.  *)
Op(kind, w, r) == [op |-> kind, w |-> w, r |-> r]
Below(g, w) == After(g.stack, g.root[w])

DrawDesktop(g, w, clip) == << Op("pick", w, clip), Op("fill", w, clip) >>

DrawWindow(g, w, clip) ==
    (IF Translucent(g, w) /\ g.root[w] # Nil /\ Below(g, w) # <<>>
     THEN gui_redraw_rect(g, clip, Below(g, w)) ELSE <<>>)
    \o << Op(IF Translucent(g, w) THEN "blend" ELSE "fill", w, clip),
          Op("pick", w, clip) >>

DrawFrame(g, w, clip) == gui_redraw_rect(g, clip, g.kids[w])

(* Mutant: the text box blends over the screen without repainting below. *)
DrawTextBox_nobelow(g, w, clip) ==
    << Op("pick", w, clip), Op("blend", w, clip) >>

DrawTextBox(g, w, clip) ==
    gui_redraw_rect(g, clip, Below(g, w))
    \o << Op("pick", w, clip), Op("blend", w, clip) >>

Draw(g, w, clip) ==
    CASE g.cls[w] = "desktop" -> DrawDesktop(g, w, clip)
      [] g.cls[w] = "frame"   -> DrawFrame(g, w, clip)
      [] g.cls[w] = "textbox" -> DrawTextBox(g, w, clip)
      [] OTHER                -> DrawWindow(g, w, clip)

(* rect_fill and update_pick_buf applied to the screen and the pick       *)
(* buffer in the order the operations were issued: at each pixel the last *)
(* opaque fill wins and the blends after it stack up on it; the last pick *)
(* write wins.                                                            *)
PaintScreen(scr, ops) ==
    [p \in Pixels |->
        LET hit   == SelectSeq(ops, LAMBDA o : InRect(o.r, p) /\ o.op # "pick")
            fills == {i \in DOMAIN hit : hit[i].op = "fill"}
            from  == IF fills = {} THEN 1 ELSE Max(fills)
        IN  (IF fills = {} THEN scr[p] ELSE <<>>)
            \o [i \in 1..(Len(hit) - from + 1) |-> hit[from + i - 1].w]]
PaintPick(pk, ops) ==
    [p \in Pixels |->
        LET hit == {i \in DOMAIN ops : InRect(ops[i].r, p) /\ ops[i].op = "pick"}
        IN  IF hit = {} THEN pk[p] ELSE PickId(ops[Max(hit)].w)]

(***************************************************************************)
(* The window manager's object graph as one record: the class of each      *)
(* win_index entry, its windata.rect (absolute once linked), parent,       *)
(* wm_root, the children() stack of a frame, winstack and drag_window.     *)
(***************************************************************************)
RECURSIVE Subtree(_, _)
Subtree(g, w) ==
    {w} \cup IF g.cls[w] = "frame"
             THEN UNION {Subtree(g, c) : c \in Range(g.kids[w])} ELSE {}

(* GUIWindowFrame::move moves the frame and, recursively, its children.   *)
MoveTree(g, w, dx, dy) ==
    [x \in Gids |-> IF x \in Subtree(g, w) THEN Shift(g.rect[x], dx, dy)
                    ELSE g.rect[x]]

(* GUIWindowStack::insert: after every window whose zindex is not lower.  *)
Insert(s, w) ==
    IF s = <<>> \/ UZ[s[1]] < UZ[w] THEN <<w>> \o s
    ELSE LET k == Min({i \in 1..(Len(s) - 1) : UZ[s[i + 1]] < UZ[w]}
                      \cup {Len(s)})
         IN  SubSeq(s, 1, k) \o <<w>> \o SubSeq(s, k + 1, Len(s))

(* Mutant: detach leaves the window where it was.                        *)
Detach_keep(s, w) == s

(* GUIWindowStack::detach and push.                                       *)
Detach(s, w) == SelectSeq(s, LAMBDA x : x # w)
Push(s, w) == <<w>> \o s

(* GUIWindowFrame::addChild.                                              *)
AddChild(g, f, w) ==
    [g EXCEPT !.kids[f] = Insert(@, w), !.parent[w] = f,
              !.rect = MoveTree(g, w, g.rect[f].l, g.rect[f].t)]

(* A process's slots in index order, as the loops over MAX_PROC_WINDOWS  *)
(* visit them.                                                            *)
Ascending(S) ==
    [i \in 1..Cardinality(S) |->
        CHOOSE x \in S : Cardinality({y \in S : y < x}) = i - 1]
SlotsOf(pid) == Ascending({w \in UWins : Owner(w) = pid})

(* The first loop of gui_update_proc for one slot whose needs_update is   *)
(* set.  The GUI object has class NONE, so it is constructed afresh (no   *)
(* parent, root or children), windata is copied, and the window is added  *)
(* to its parent frame; a parent that is not (yet) a frame ends the call. *)
UpdateSlot(a, w) ==
    LET pf   == UParentId[w] + 16 * Owner(w)
        made == [a.g EXCEPT !.cls[w] = UClass[w], !.rect[w] = URect[w],
                            !.parent[w] = Nil, !.root[w] = Nil,
                            !.kids[w] = <<>>]
    IN  CASE a.stop                 -> a
          [] UParentId[w] = -1      -> [a EXCEPT !.g = made]
          [] made.cls[pf] # "frame" -> [a EXCEPT !.g = made, !.stop = TRUE]
          [] OTHER                  -> [a EXCEPT !.g = AddChild(made, pf, w)]

(* The second loop: every parentless window becomes the wm_root of its    *)
(* subtree and, unless it is the desktop or already has a next, is pushed.*)
UpdateRoot(g, w) ==
    IF g.cls[w] = "none" \/ g.parent[w] # Nil THEN g
    ELSE LET g1 == [g EXCEPT !.root = [x \in Gids |->
                        IF x \in Subtree(g, w) THEN w ELSE g.root[x]]]
             hasNext == \E i \in 1..(Len(g.stack) - 1) : g.stack[i] = w
         IN  IF w # Desk /\ ~hasNext
             THEN [g1 EXCEPT !.stack = Push(@, w)] ELSE g1

gui_update_proc(g, pid) ==
    LET a == FoldLeft(UpdateSlot, [g |-> g, stop |-> FALSE], SlotsOf(pid))
    IN  IF a.stop THEN a.g
        ELSE FoldLeft(UpdateRoot, a.g,
                      Ascending({w \in Gids : Owner(w) = pid}))

(***************************************************************************)
(* What the screen should show: the topmost non-frame window containing p  *)
(* (a frame shows its children), and, under a translucent window or a text *)
(* box, what the containers below its own container show.                  *)
(***************************************************************************)
RECURSIVE LeafAt(_, _, _)
LeafAt(g, p, lst) ==
    LET hits == {i \in 1..Len(lst) :
                   /\ InRect(g.rect[lst[i]], p)
                   /\ g.cls[lst[i]] = "frame" => LeafAt(g, p, g.kids[lst[i]]) # Nil}
    IN  IF hits = {} THEN Nil
        ELSE LET w == lst[Min(hits)]
             IN  IF g.cls[w] = "frame" THEN LeafAt(g, p, g.kids[w]) ELSE w

RECURSIVE ComposeAt(_, _, _)
ComposeAt(g, p, lst) ==
    LET w == LeafAt(g, p, lst)
    IN  CASE w = Nil -> <<>>
          [] Translucent(g, w) \/ g.cls[w] = "textbox" ->
                 ComposeAt(g, p, Below(g, w)) \o <<w>>
          [] OTHER -> <<w>>

Composite(g, p) == ComposeAt(g, p, g.stack)

-----------------------------------------------------------------------------
VARIABLES
    wm,          \* the WindowManager: win_index, winstack, drag_window
    screen,      \* VGA memory: the layers each pixel shows
    pick,        \* winmgr->pick_buffer
    dq,          \* the DisplayWorker's event_queue
    dpc,         \* where the display worker is in run()
    dn,          \* messages left in the range it dequeued
    saved,       \* mousePointer->background
    bg,          \* mousePointer->bg_x, bg_y
    ptrpos,      \* where the pointer image was last put (NoPixel: not yet)
    mouse,       \* mouse.x, mouse.y
    oldm,        \* mouse.old_x, mouse.old_y
    lbutton,     \* mouse.lbutton
    ldrag,       \* mouse.ldrag
    uq,          \* the UserEventWorker's event_queue (mouse events)
    npk,         \* mouse packets so far
    spc          \* the shell: update_gui, then redraw_gui

vars == <<wm, screen, pick, dq, dpc, dn, saved, bg, ptrpos, mouse, oldm,
          lbutton, ldrag, uq, npk, spc>>

Msg(ev, w, r) == [ev |-> ev, win |-> w, r |-> r]
NoRect == Rect(0, 0, 0, 0)

(* The desktop alone, as GUIModel leaves it before gui_update_proc(0).    *)
DeskOnly ==
    [cls    |-> [w \in Gids |-> IF w = Desk THEN "desktop" ELSE "none"],
     rect   |-> [w \in Gids |-> IF w = Desk THEN DeskRect ELSE NoRect],
     parent |-> [w \in Gids |-> Nil],
     root   |-> [w \in Gids |-> IF w = Desk THEN Desk ELSE Nil],
     kids   |-> [w \in Gids |-> <<>>],
     stack  |-> <<Desk>>,
     drag   |-> Nil]

(* kmain: init_gui saves the (still black) pixels under the pointer, the  *)
(* kernel's GUIModel syncs its windows and paints the whole screen, and   *)
(* REDRAW_SCREEN is posted once the event system is up.                   *)
BootWm == gui_update_proc(DeskOnly, 0)
BootOps == gui_redraw_rect(BootWm, DeskRect, BootWm.stack)
Init ==
    /\ wm = BootWm
    /\ screen = PaintScreen([p \in Pixels |-> <<>>], BootOps)
    /\ pick = PaintPick([p \in Pixels |-> 0], BootOps)
    /\ dq = << Msg("screen", Nil, NoRect) >>
    /\ dpc = "idle" /\ dn = 0
    /\ mouse = <<Width \div 4, Height \div 4>>
    /\ oldm = mouse /\ bg = mouse /\ saved = <<>> /\ ptrpos = NoPixel
    /\ lbutton = FALSE /\ ldrag = FALSE /\ uq = <<>> /\ npk = 0
    /\ spc = "update"

Clamp(v, hi) == IF v > hi THEN hi ELSE IF v < 0 THEN 0 ELSE v
UEv(kind, pos) == [kind |-> kind, pos |-> pos]

(* mouse_packet: move and clamp the pointer, post LEFT_DOWN or LEFT_UP on *)
(* a button change and MOUSE_MOVE when the pointer is away from old_x,    *)
(* old_y; a move with the button held starts a drag.  DRAG_START,         *)
(* DRAG_END and CLICK have no handler effect.  (The TSC throttle that may *)
(* hold MOUSE_MOVE back is modelled in Input.)                            *)
Packet(d, b) ==
    /\ npk < MaxPackets
    /\ IsrInPointerCopy \/ dpc \notin {"setbg", "draw"}
    /\ LET m      == <<Clamp(mouse[1] + d[1], Width - 1),
                       Clamp(mouse[2] + d[2], Height - 1)>>
           press  == b /\ ~lbutton
           rel    == ~b /\ lbutton
           move   == m # oldm
       IN  /\ mouse' = m
           /\ lbutton' = b
           /\ ldrag' = IF move /\ b THEN TRUE ELSE ldrag /\ b
           /\ uq' = uq \o (IF press THEN <<UEv("down", m)>> ELSE <<>>)
                       \o (IF rel THEN <<UEv("up", m)>> ELSE <<>>)
                       \o (IF move THEN <<UEv("move", m)>> ELSE <<>>)
    /\ npk' = npk + 1
    /\ UNCHANGED <<wm, screen, pick, dq, dpc, dn, saved, bg, ptrpos, oldm, spc>>

(* UserEventWorker, MOUSE_MOVE: dx, dy from the live mouse position; a    *)
(* drag moves drag_window and posts the non-degenerate parts of the union *)
(* of its old and new rectangles; then the pointer is to be redrawn.      *)
HandleMove ==
    /\ dpc = "idle" /\ uq # <<>> /\ Head(uq).kind = "move"
    /\ LET dx == mouse[1] - oldm[1]
           dy == mouse[2] - oldm[2]
           w  == wm.drag
           drags == ldrag /\ w \notin {Nil, Desk}
           g2 == IF drags THEN [wm EXCEPT !.rect = MoveTree(wm, w, dx, dy)]
                 ELSE wm
           rs == IF drags THEN SelectSeq(RectUnion(wm.rect[w], g2.rect[w]),
                                   LAMBDA r : r.l # r.r /\ r.t # r.b)
                 ELSE <<>>
       IN  /\ oldm' = mouse
           /\ wm' = g2
           /\ dq' = IF dx = 0 /\ dy = 0 THEN dq
                    ELSE dq \o [i \in 1..Len(rs) |-> Msg("rect", Nil, rs[i])]
                            \o << Msg("mouse", Nil, NoRect) >>
    /\ uq' = Tail(uq)
    /\ UNCHANGED <<screen, pick, dpc, dn, saved, bg, ptrpos, mouse, lbutton,
                   ldrag, npk, spc>>

(* MOUSE_LEFT_DOWN: the pick buffer names the window under the press; its *)
(* wm_root becomes drag_window and, if not on top, is raised and redrawn. *)
HandleDown ==
    /\ dpc = "idle" /\ uq # <<>> /\ Head(uq).kind = "down"
    /\ LET gid == pick[Head(uq).pos]
           r   == wm.root[gid]
       IN  IF gid # 0
           THEN /\ wm' = [wm EXCEPT !.drag = r,
                             !.stack = IF r # Head(wm.stack)
                                       THEN Push(Detach(@, r), r) ELSE @]
                /\ dq' = IF r # Head(wm.stack)
                         THEN Append(dq, Msg("window", r, NoRect)) ELSE dq
           ELSE /\ wm' = [wm EXCEPT !.drag = Nil]
                /\ UNCHANGED dq
    /\ uq' = Tail(uq)
    /\ UNCHANGED <<screen, pick, dpc, dn, saved, bg, ptrpos, mouse, oldm,
                   lbutton, ldrag, npk, spc>>

(* MOUSE_LEFT_UP ends the drag.                                           *)
HandleUp ==
    /\ dpc = "idle" /\ uq # <<>> /\ Head(uq).kind = "up"
    /\ wm' = [wm EXCEPT !.drag = Nil]
    /\ uq' = Tail(uq)
    /\ UNCHANGED <<screen, pick, dq, dpc, dn, saved, bg, ptrpos, mouse, oldm,
                   lbutton, ldrag, npk, spc>>

(* The shell's update_gui syscall (gui_update_proc for its pid), run with *)
(* interrupts off, so in one step.                                        *)
ShellPid == 1
ShellUpdate ==
    /\ spc = "update"
    /\ \E g \in {gui_update_proc(wm, ShellPid)} : wm' = g
    /\ spc' = "redraw"
    /\ UNCHANGED <<screen, pick, dq, dpc, dn, saved, bg, ptrpos, mouse, oldm,
                   lbutton, ldrag, uq, npk>>

(* gui_redraw_proc: every slot with needs_redraw (all of them, from the   *)
(* Window constructor) posts REDRAW_RECT of its redraw_rect, the whole    *)
(* window, offset by the GUI window's position.                           *)
RedrawRectOf(w) ==
    Shift(Rect(0, 0, URect[w].r - URect[w].l, URect[w].b - URect[w].t),
          wm.rect[w].l, wm.rect[w].t)
ShellRedraw ==
    /\ spc = "redraw"
    /\ LET ws == SlotsOf(ShellPid)
       IN  dq' = dq \o [i \in 1..Len(ws) |-> Msg("rect", Nil, RedrawRectOf(ws[i]))]
    /\ spc' = "done"
    /\ UNCHANGED <<wm, screen, pick, dpc, dn, saved, bg, ptrpos, mouse, oldm,
                   lbutton, ldrag, uq, npk>>

(* Mutant: the saved background is put back under the live mouse.        *)
DisplayStart_atmouse ==
    /\ dpc = "idle" /\ dq # <<>>
    /\ screen' = [screen EXCEPT ![mouse] = saved]
    /\ dn' = MinOf(Len(dq), 10)
    /\ dpc' = "msgs"
    /\ UNCHANGED <<wm, pick, dq, saved, bg, ptrpos, mouse, oldm, lbutton,
                   ldrag, uq, npk, spc>>

(* DisplayWorker::run, past the throttle and with messages waiting: put   *)
(* the saved background back where the pointer was and dequeue up to 10. *)
DisplayStart ==
    /\ dpc = "idle" /\ dq # <<>>
    /\ screen' = [screen EXCEPT ![bg] = saved]
    /\ dn' = MinOf(Len(dq), 10)
    /\ dpc' = "msgs"
    /\ UNCHANGED <<wm, pick, dq, saved, bg, ptrpos, mouse, oldm, lbutton,
                   ldrag, uq, npk, spc>>

(* The repaint one message asks for.                                      *)
MsgOps(m) ==
    CASE m.ev = "screen" -> gui_redraw_rect(wm, DeskRect, wm.stack)
      [] m.ev = "window" /\ m.win # Nil /\ Intersects(wm.rect[m.win], DeskRect) ->
             gui_redraw_rect(wm, Intersect(wm.rect[m.win], DeskRect),
                             From(wm.stack, m.win))
      [] m.ev = "rect" /\ Intersects(m.r, DeskRect) ->
             gui_redraw_rect(wm, Intersect(m.r, DeskRect), wm.stack)
      [] OTHER -> <<>>

DisplayMsg ==
    /\ dpc = "msgs" /\ dn > 0
    /\ \E ops \in {MsgOps(Head(dq))} :
          \E s2 \in {PaintScreen(screen, ops)}, p2 \in {PaintPick(pick, ops)} :
              screen' = s2 /\ pick' = p2
    /\ dq' = Tail(dq)
    /\ dn' = dn - 1
    /\ dpc' = IF dn = 1 THEN "save" ELSE "msgs"
    /\ UNCHANGED <<wm, saved, bg, ptrpos, mouse, oldm, lbutton, ldrag, uq,
                   npk, spc>>

(* get_pixels(mouse.x, mouse.y), bg_x = mouse.x, put_pixels(mouse.x, ...):*)
(* three reads of the mouse position the packet interrupt may update.     *)
DisplaySave ==
    /\ dpc = "save"
    /\ saved' = screen[mouse]
    /\ dpc' = "setbg"
    /\ UNCHANGED <<wm, screen, pick, dq, dn, bg, ptrpos, mouse, oldm,
                   lbutton, ldrag, uq, npk, spc>>

DisplaySetBg ==
    /\ dpc = "setbg"
    /\ bg' = mouse
    /\ dpc' = "draw"
    /\ UNCHANGED <<wm, screen, pick, dq, dn, saved, ptrpos, mouse, oldm,
                   lbutton, ldrag, uq, npk, spc>>

DisplayPointer ==
    /\ dpc = "draw"
    /\ screen' = [screen EXCEPT ![mouse] = <<Ptr>>]
    /\ ptrpos' = mouse
    /\ dpc' = "idle"
    /\ UNCHANGED <<wm, pick, dq, dn, saved, bg, mouse, oldm, lbutton, ldrag,
                   uq, npk, spc>>

UserWorker == HandleMove \/ HandleDown \/ HandleUp
DisplayWorker ==
    DisplayStart \/ DisplayMsg \/ DisplaySave \/ DisplaySetBg \/ DisplayPointer

Next ==
    \/ \E d \in Deltas, b \in BOOLEAN : Packet(d, b)
    \/ UserWorker
    \/ ShellUpdate \/ ShellRedraw
    \/ DisplayWorker

(* The event thread is woken by msg_signal while messages are queued and  *)
(* the shell thread is runnable until it has made both calls; the packets *)
(* are the user's, and need never come.  The fairness of the display      *)
(* worker and of update_gui is stated on their control state, which no    *)
(* other action changes: a step that moves dpc or dn is a DisplayWorker   *)
(* step and one that takes spc from "update" is ShellUpdate, so these are *)
(* WF_vars(DisplayWorker) and WF_vars(ShellUpdate), without TLC having to *)
(* repaint or run gui_update_proc to decide whether they are enabled.     *)
DisplayCtl ==
    \/ dpc = "idle" /\ dq # <<>> /\ dpc' = "msgs" /\ dn' = MinOf(Len(dq), 10)
    \/ dpc = "msgs" /\ dn > 0 /\ dn' = dn - 1
       /\ dpc' = IF dn = 1 THEN "save" ELSE "msgs"
    \/ dpc = "save" /\ dpc' = "setbg" /\ dn' = dn
    \/ dpc = "setbg" /\ dpc' = "draw" /\ dn' = dn
    \/ dpc = "draw" /\ dpc' = "idle" /\ dn' = dn
ShellCtl == spc = "update" /\ spc' = "redraw"

Fairness ==
    /\ WF_vars(UserWorker) /\ WF_<<dpc, dn>>(DisplayCtl)
    /\ WF_spc(ShellCtl) /\ WF_vars(ShellRedraw)

Spec == Init /\ [][Next]_vars /\ Fairness

-----------------------------------------------------------------------------
Layers == Seq(Gids \cup {Ptr})
IsRect(r) == r \in [l : Int, t : Int, r : Int, b : Int] /\ r.l <= r.r /\ r.t <= r.b

TypeOK ==
    /\ wm.cls \in [Gids -> {"none", "desktop", "window", "frame", "textbox"}]
    /\ \A w \in Gids : IsRect(wm.rect[w]) /\ wm.kids[w] \in Seq(UWins)
    /\ wm.parent \in [Gids -> Gids \cup {Nil}]
    /\ wm.root \in [Gids -> Gids \cup {Nil}]
    /\ wm.stack \in Seq(Gids) /\ IsInjective(wm.stack)
    /\ wm.drag \in Gids \cup {Nil}
    /\ \A p \in Pixels : screen[p] \in Layers /\ pick[p] \in 0..255
    /\ \A i \in 1..Len(dq) : dq[i].ev \in {"screen", "window", "rect", "mouse"}
    /\ dpc \in {"idle", "msgs", "save", "setbg", "draw"} /\ dn \in 0..10
    /\ saved \in Layers /\ bg \in Pixels /\ ptrpos \in Pixels \cup {NoPixel}
    /\ mouse \in Pixels /\ oldm \in Pixels
    /\ lbutton \in BOOLEAN /\ ldrag \in BOOLEAN
    /\ npk \in 0..MaxPackets /\ spc \in {"update", "redraw", "done"}

Clips == {c \in [l : 0..Width, t : 0..Height, r : 0..Width, b : 0..Height] :
            c.l < c.r /\ c.t < c.b}

(* gui_redraw_rect is the painter's algorithm done by clipping: whatever   *)
(* windows have been raised, dragged and linked by update_gui, repainting  *)
(* any clip rectangle from the top of winstack leaves every pixel inside   *)
(* it showing the composite of the windows over it and the pick buffer     *)
(* naming the topmost, and touches nothing outside it.                     *)
RedrawPaintsComposite ==
    dpc = "idle" /\ dq = <<>> =>
    LET comp == [p \in Pixels |-> Composite(wm, p)]
        top  == [p \in Pixels |-> PickId(LeafAt(wm, p, wm.stack))]
    IN  \A c \in Clips :
          LET ops == gui_redraw_rect(wm, c, wm.stack)
              s2  == PaintScreen(screen, ops)
              p2  == PaintPick(pick, ops)
          IN  \A p \in Pixels :
                IF InRect(c, p) THEN s2[p] = comp[p] /\ p2[p] = top[p]
                ELSE s2[p] = screen[p] /\ p2[p] = pick[p]

(* Between runs of the display worker the pick buffer names, at every     *)
(* pixel but the pointer's, the window whose colour is on top there, so a *)
(* press picks the window the user sees, even while a drag, a raise or an *)
(* update_gui waits for its repaint.                                      *)
PickMatchesScreen ==
    dpc = "idle" =>
        \A p \in Pixels \ {ptrpos} :
            /\ screen[p] # <<>> /\ Last(screen[p]) # Ptr
            /\ pick[p] = PickId(Last(screen[p]))

(* Once the mouse, the shell and the workers are done, the screen shows   *)
(* the windows as the window manager has them at every pixel but the      *)
(* pointer's, and the pick buffer names the topmost window everywhere:     *)
(* every raise, drag and update_gui posted the repaints it needs, and the  *)
(* batches of at most 10 messages left none of them unpainted.            *)
Current ==
    \A p \in Pixels :
        /\ p # ptrpos => screen[p] = Composite(wm, p)
        /\ pick[p] = PickId(LeafAt(wm, p, wm.stack))
=============================================================================
