------------------------------ MODULE Input ------------------------------
(***************************************************************************)
(* The input pipeline: the PS/2 interrupt decoding mouse and keyboard     *)
(* bytes into user events (devices/ps2.cpp), the kernel event thread's    *)
(* UserEventWorker dispatching them (events.cpp): raising and dragging    *)
(* windows on the window stack (gui.cpp) and forwarding each event to the *)
(* process owning the top window if it subscribed (syscall_subscribe,     *)
(* SubscriberList), the per-process MsgQueue (queue.h) it lands in, and   *)
(* the shell's event_thread consuming it (user/shell.cpp).                *)
(*                                                                         *)
(* Only the x axis is modelled; y is handled by the same code.  The kernel *)
(* SharedMsgQueue between interrupt and worker is a bounded FIFO here (its *)
(* internals are the SharedQueue module); an enqueue into a full queue is  *)
(* dropped, as new_user_event ignores enqueue's -1.  The interrupt runs    *)
(* atomically; the worker, the shell threads and subscribing threads are   *)
(* preemptible between the steps below.                                    *)
(***************************************************************************)
EXTENDS Integers, Sequences, SequencesExt, FiniteSets

CONSTANTS
    Procs,        \* user pids; process p owns window p, pid 0 the desktop
    Width,        \* VGA_WIDTH: pointer x is clamped to 0..Width-1
    WinW,         \* width of a window's rect
    Deltas,       \* deltaX values a mouse packet may carry
    CLICK_BOX,    \* ps2.cpp CLICK_BOX
    EvCap,        \* capacity of the UserEventWorker event_queue (MAX_EVENTS)
    MsgCap,       \* capacity of a process MsgQueue (MAX_PROC_MSGS)
    SubCap,       \* capacity of sub_pool (MAX_SUBSCRIPTIONS)
    SubEvents,    \* events a process may pass to syscall_subscribe
    MaxBytes,     \* bound on PS/2 bytes received
    MaxSubs,      \* bound on syscall_subscribe calls
    WinStart      \* rect.l of each process's window when the model starts

Nil == -1
Desktop == 0
Wins == {Desktop} \cup Procs
Events == {"KEY_CHAR_DOWN", "KEY_CHAR_UP", "MOUSE_MOVE", "MOUSE_LEFT_DOWN",
           "MOUSE_LEFT_UP", "MOUSE_LEFT_CLICK", "MOUSE_LEFT_DRAG_START",
           "MOUSE_LEFT_DRAG_END"}
\* a Message: its msg_id, the MouseEvent x it carries, and a serial number
\* that identifies the interrupt-side event it came from
Msgs == [id : Events, x : Int, n : Nat]
NoMsg == [id |-> "KEY_CHAR_UP", x |-> Nil, n |-> 0]

VARIABLES
    npk, mbi,                       \* num_mouse_packets, mouse_buffer_index
    mx, old_x, lbutton, ldrag, lclick_x,   \* MouseState mouse
    nbytes, nev,                    \* bytes received, events created
    evq,                            \* the worker's event_queue
    wx, top, nxt, prv, drag_window, \* windows: rect.l, winstack links
    subs, pool_used, nsubs,         \* event_subs lists, sub_pool in use
    qbuf, ltail, stail, shead, lhead,      \* each process env->msgQueue
    cpc, crange, ci,                \* each shell event_thread
    sent, got,                      \* messages sent to / read by each process
    grab                            \* press x and window x when a drag began

isr == <<npk, mbi, mx, lbutton, ldrag, lclick_x, nbytes, nev>>
wins == <<wx, top, nxt, prv, drag_window, grab>>
mq == <<qbuf, ltail, stail, shead, lhead, sent>>
shell == <<cpc, crange, ci, got>>
vars == <<isr, old_x, evq, wins, subs, pool_used, nsubs, mq, shell>>

TypeOK ==
    /\ npk \in 0..2 /\ mbi \in 0..2
    /\ mx \in 0..(Width - 1) /\ old_x \in 0..(Width - 1)
    /\ lbutton \in BOOLEAN /\ ldrag \in BOOLEAN /\ lclick_x \in 0..(Width - 1)
    /\ evq \in Seq(Msgs) /\ Len(evq) <= EvCap
    /\ wx \in [Procs -> Int]
    /\ top \in Wins /\ nxt \in [Wins -> Wins \cup {Nil}]
    /\ prv \in [Wins -> Wins \cup {Nil}]
    /\ drag_window \in Wins \cup {Nil}
    /\ subs \in [Events -> Seq(Procs)] /\ pool_used \in 0..SubCap
    /\ qbuf \in [Procs -> [0..(MsgCap - 1) -> Msgs \cup {NoMsg}]]
    /\ \A p \in Procs : lhead[p] <= shead[p] /\ shead[p] <= stail[p]
                        /\ stail[p] <= ltail[p]
    /\ cpc \in [Procs -> {"wait", "read"}]

(* The shell's windows start stacked in pid order above the desktop      *)
(* (main.cpp pushes the desktop, gui_update_proc pushes each new window). *)
Order == SetToSeq(Procs)
InitStack ==
    LET k == Len(Order) IN
    /\ top = IF k = 0 THEN Desktop ELSE Order[k]
    /\ nxt = [w \in Wins |-> IF w = Desktop THEN Nil
                             ELSE LET i == CHOOSE j \in 1..k : Order[j] = w
                                  IN IF i = 1 THEN Desktop ELSE Order[i - 1]]
    /\ prv = [w \in Wins |-> IF w = top THEN Nil
                             ELSE CHOOSE v \in Wins : v # Desktop /\ nxt[v] = w]

Init ==
    /\ npk = 0 /\ mbi = 0 /\ mx = 0 /\ old_x = 0
    /\ lbutton = FALSE /\ ldrag = FALSE /\ lclick_x = 0
    /\ nbytes = 0 /\ nev = 0 /\ evq = <<>>
    /\ wx = WinStart /\ InitStack /\ drag_window = Nil
    /\ grab = [px |-> 0, wx0 |-> 0]
    /\ subs = [e \in Events |-> <<>>] /\ pool_used = 0 /\ nsubs = 0
    /\ qbuf = [p \in Procs |-> [i \in 0..(MsgCap - 1) |-> NoMsg]]
    /\ ltail = [p \in Procs |-> 0] /\ stail = [p \in Procs |-> 0]
    /\ shead = [p \in Procs |-> 0] /\ lhead = [p \in Procs |-> 0]
    /\ cpc = [p \in Procs |-> "wait"] /\ crange = [p \in Procs |-> <<0, 0>>]
    /\ ci = [p \in Procs |-> 0]
    /\ sent = [p \in Procs |-> <<>>] /\ got = [p \in Procs |-> <<>>]

-----------------------------------------------------------------------------
(* Interrupt side: ps2_input hands each byte to mouse_packet or           *)
(* keyboard_packet.                                                        *)

\* new_user_event for a list of events: each is enqueued if the queue has
\* room and dropped otherwise, with consecutive serial numbers
RECURSIVE EnqueueAll(_, _, _)
EnqueueAll(q, es, n) ==
    IF es = <<>> THEN q
    ELSE EnqueueAll(IF Len(q) < EvCap
                    THEN Append(q, [Head(es) EXCEPT !.n = n]) ELSE q,
                    Tail(es), n + 1)

NewUserEvents(es) ==
    /\ evq' = EnqueueAll(evq, es, nev + 1)
    /\ nev' = nev + Len(es)

Ev(id, x) == [id |-> id, x |-> x, n |-> 0]

\* (mutant) the right edge clamp tests > instead of >=
Clamp_off(x) == IF x > Width THEN Width ELSE IF x < 0 THEN 0 ELSE x

\* the clamp of mouse.x to the screen
Clamp(x) == IF x >= Width THEN Width - 1 ELSE IF x < 0 THEN 0 ELSE x

\* (uint)((x - lclick_x) + CLICK_BOX) < CLICK_BOX * 2
InClickBox(d) == -CLICK_BOX <= d /\ d < CLICK_BOX

\* a mouse byte that does not complete a 3-byte window is only buffered
MouseByte ==
    /\ nbytes < MaxBytes /\ npk < 2
    /\ npk' = npk + 1 /\ mbi' = (mbi + 1) % 3 /\ nbytes' = nbytes + 1
    /\ UNCHANGED <<mx, lbutton, ldrag, lclick_x, nev, old_x, evq, wins,
                   subs, pool_used, nsubs, mq, shell>>

\* the third byte, with a first byte that fails the alignment test
\* ((b0 & 0xC0) || !(b0 & 0x08)): the window shifts by one byte
MouseMisaligned ==
    /\ nbytes < MaxBytes /\ npk = 2
    /\ mbi' = (mbi + 1) % 3 /\ nbytes' = nbytes + 1
    /\ UNCHANGED <<npk, mx, lbutton, ldrag, lclick_x, nev, old_x, evq, wins,
                   subs, pool_used, nsubs, mq, shell>>

(* The third byte of an aligned packet: left button lb, movement d, and   *)
(* whether the MOUSE_MOVE throttle (diff_tsc > 0x04000000) has expired.   *)
MousePacket(lb, d, expired) ==
    LET x == Clamp(mx + d)
        \* left button handling
        down == lb /\ ~lbutton
        dragEnd == ~lb /\ ldrag
        up == ~lb /\ lbutton
        click == up /\ InClickBox(x - lclick_x)
        lcx == IF down THEN x ELSE lclick_x
        \* the throttled MOUSE_MOVE, which also starts a drag
        move == expired /\ old_x # x
        startDrag == move /\ lb /\ ~(ldrag /\ ~dragEnd)
        es == <<>> \o (IF down THEN <<Ev("MOUSE_LEFT_DOWN", x)>> ELSE <<>>)
                   \o (IF dragEnd THEN <<Ev("MOUSE_LEFT_DRAG_END", x)>> ELSE <<>>)
                   \o (IF up THEN <<Ev("MOUSE_LEFT_UP", x)>> ELSE <<>>)
                   \o (IF click THEN <<Ev("MOUSE_LEFT_CLICK", lclick_x)>> ELSE <<>>)
                   \o (IF move THEN <<Ev("MOUSE_MOVE", x)>> ELSE <<>>)
                   \o (IF startDrag /\ ~InClickBox(x - lcx)
                       THEN <<Ev("MOUSE_LEFT_DRAG_START", x)>> ELSE <<>>)
    IN
    /\ nbytes < MaxBytes /\ npk = 2
    /\ mx' = x /\ lbutton' = lb /\ lclick_x' = lcx
    /\ ldrag' = (startDrag \/ (ldrag /\ ~dragEnd))
    /\ NewUserEvents(es)
    /\ npk' = 0 /\ mbi' = 0 /\ nbytes' = nbytes + 1
    /\ UNCHANGED <<old_x, wins, subs, pool_used, nsubs, mq, shell>>

\* keyboard_packet: a scancode with an ASCII mapping becomes KEY_CHAR_DOWN,
\* or KEY_CHAR_UP on release; others are ignored
KeyboardPacket(kind) ==
    /\ nbytes < MaxBytes
    /\ nbytes' = nbytes + 1
    /\ IF kind = "none" THEN UNCHANGED <<evq, nev>>
       ELSE NewUserEvents(<<Ev(kind, 0)>>)
    /\ UNCHANGED <<npk, mbi, mx, lbutton, ldrag, lclick_x, old_x, wins,
                   subs, pool_used, nsubs, mq, shell>>

-----------------------------------------------------------------------------
(* The window stack (gui.cpp GUIWindowStack): a doubly linked list from   *)
(* top through next, the desktop at the bottom.                           *)

RECURSIVE StackFrom(_, _)
StackFrom(w, k) == IF k = 0 \/ w = Nil THEN <<>>
                   ELSE <<w>> \o StackFrom(nxt[w], k - 1)

Stack == StackFrom(top, Cardinality(Wins))

\* (mutant) detach forgets win->next->prev = win->prev
Detach_noprev(s, w) ==
    LET n == s.nxt[w]
        p == s.prv[w]
    IN [top |-> IF w = s.top THEN n ELSE s.top,
        nxt |-> [v \in Wins |-> IF v = w THEN Nil
                                ELSE IF v = p THEN n ELSE s.nxt[v]],
        prv |-> [s.prv EXCEPT ![w] = Nil]]

\* GUIWindowStack::detach on the links s = [top, nxt, prv]
Detach(s, w) ==
    LET n == s.nxt[w]
        p == s.prv[w]
    IN [top |-> IF w = s.top THEN n ELSE s.top,
        nxt |-> [v \in Wins |-> IF v = w THEN Nil
                                ELSE IF v = p THEN n ELSE s.nxt[v]],
        prv |-> [v \in Wins |-> IF v = w THEN Nil
                                ELSE IF v = n THEN p ELSE s.prv[v]]]

\* GUIWindowStack::push: w becomes the top
Push(s, w) ==
    IF s.top = Nil
    THEN [top |-> w, nxt |-> [s.nxt EXCEPT ![w] = Nil],
                     prv |-> [s.prv EXCEPT ![w] = Nil]]
    ELSE [top |-> w, nxt |-> [s.nxt EXCEPT ![w] = s.top],
                     prv |-> [s.prv EXCEPT ![w] = Nil, ![s.top] = w]]

\* the window the pick_buffer names at x: the topmost whose rect holds x
Covers(w, x) == w = Desktop \/ (wx[w] <= x /\ x < wx[w] + WinW)
Pick(x) == LET s == Stack
               i == CHOOSE i \in DOMAIN s :
                        Covers(s[i], x) /\ \A j \in 1..(i - 1) : ~Covers(s[j], x)
           IN s[i]

-----------------------------------------------------------------------------
(* The kernel event thread: UserEventWorker::run handles the dequeued     *)
(* messages one at a time; the thread can be preempted between them.      *)

\* Process::send_msg: MsgQueue::enqueue with no capacity check
SendMsg(p, m) ==
    /\ qbuf' = [qbuf EXCEPT ![p][ltail[p] % MsgCap] = m]
    /\ ltail' = [ltail EXCEPT ![p] = @ + 1]
    /\ stail' = [stail EXCEPT ![p] = ltail[p] + 1]
    /\ sent' = [sent EXCEPT ![p] = Append(@, m)]
    /\ UNCHANGED <<shead, lhead>>

\* (mutant) notify(target, msg) without the break: one message per node
\* of the target on the list (the pool holds at most two nodes)
Notify_nobreak(p, m) ==
    LET k == Cardinality({i \in DOMAIN subs[m.id] : subs[m.id][i] = p}) IN
    IF k = 0 THEN UNCHANGED mq
    ELSE IF k = 1 THEN SendMsg(p, m)
    ELSE /\ qbuf' = [qbuf EXCEPT ![p][ltail[p] % MsgCap] = m,
                                  ![p][(ltail[p] + 1) % MsgCap] = m]
         /\ ltail' = [ltail EXCEPT ![p] = @ + 2]
         /\ stail' = [stail EXCEPT ![p] = ltail[p] + 2]
         /\ sent' = [sent EXCEPT ![p] = @ \o <<m, m>>]
         /\ UNCHANGED <<shead, lhead>>

\* SubscriberList::notify(target, msg): target gets msg once if it is on
\* the list of msg's event
Notify(p, m) ==
    IF p \in Range(subs[m.id]) THEN SendMsg(p, m) ELSE UNCHANGED mq

\* the MOUSE_MOVE case: dx from mouse.x and old_x, the drag window moved
\* by dx while mouse.ldrag
MouseMove ==
    LET dx == mx - old_x IN
    /\ old_x' = mx
    /\ wx' = IF dx # 0 /\ ldrag /\ drag_window \notin {Nil, Desktop}
             THEN [wx EXCEPT ![drag_window] = @ + dx] ELSE wx
    /\ UNCHANGED <<top, nxt, prv, drag_window, grab>>

\* the MOUSE_LEFT_DOWN case: the picked window becomes the drag window and
\* is raised to the top; a click on the desktop clears the drag window
LeftDown(m) ==
    LET w == Pick(m.x)
        s == Push(Detach([top |-> top, nxt |-> nxt, prv |-> prv], w), w)
    IN
    /\ IF w # Desktop
       THEN /\ drag_window' = w /\ grab' = [px |-> m.x, wx0 |-> wx[w]]
            /\ IF w # top THEN top' = s.top /\ nxt' = s.nxt /\ prv' = s.prv
               ELSE UNCHANGED <<top, nxt, prv>>
       ELSE drag_window' = Nil /\ UNCHANGED <<top, nxt, prv, grab>>
    /\ UNCHANGED <<wx, old_x>>

\* gather_new_data, then return if event_queue.size() <= 0
WorkerHasWork == Len(evq) > 0

Dispatch ==
    LET m == Head(evq) IN
    /\ WorkerHasWork
    /\ evq' = Tail(evq)
    /\ CASE m.id = "MOUSE_MOVE"      -> MouseMove
         [] m.id = "MOUSE_LEFT_DOWN" -> LeftDown(m)
         [] m.id = "MOUSE_LEFT_UP"   -> drag_window' = Nil
                                        /\ UNCHANGED <<wx, top, nxt, prv, old_x, grab>>
         [] OTHER                    -> UNCHANGED <<wins, old_x>>
    \* the message goes to the process owning the (new) top window
    /\ IF top' # Desktop THEN Notify(top', m) ELSE UNCHANGED mq
    /\ UNCHANGED <<isr, subs, pool_used, nsubs, shell>>

-----------------------------------------------------------------------------
(* syscall_subscribe -> sub_proc_event: a node from sub_pool is pushed at *)
(* the head of the event's list; when the pool is empty the call still    *)
(* returns 1 and nothing is subscribed.                                    *)
Subscribe(p, e) ==
    /\ nsubs < MaxSubs
    /\ nsubs' = nsubs + 1
    /\ IF pool_used < SubCap
       THEN subs' = [subs EXCEPT ![e] = <<p>> \o @] /\ pool_used' = pool_used + 1
       ELSE UNCHANGED <<subs, pool_used>>
    /\ UNCHANGED <<isr, old_x, evq, wins, mq, shell>>

-----------------------------------------------------------------------------
(* The shell's event_thread: dequeue(10) after its monitor wakes, read     *)
(* each message of the range, then release the range.                     *)

ShellDequeue(p) ==
    LET size == stail[p] - shead[p]
        num == IF 10 > size THEN size ELSE 10
    IN
    /\ cpc[p] = "wait" /\ size > 0
    /\ shead' = [shead EXCEPT ![p] = @ + num]
    /\ crange' = [crange EXCEPT ![p] = <<shead[p], shead[p] + num>>]
    /\ ci' = [ci EXCEPT ![p] = shead[p]]
    /\ cpc' = [cpc EXCEPT ![p] = "read"]
    /\ UNCHANGED <<isr, old_x, evq, wins, subs, pool_used, nsubs, got,
                   qbuf, ltail, stail, lhead, sent>>

ShellRead(p) ==
    /\ cpc[p] = "read" /\ ci[p] < crange[p][2]
    /\ got' = [got EXCEPT ![p] = Append(@, qbuf[p][ci[p] % MsgCap])]
    /\ ci' = [ci EXCEPT ![p] = @ + 1]
    /\ UNCHANGED <<isr, old_x, evq, wins, subs, pool_used, nsubs, mq, cpc, crange>>

ShellRelease(p) ==
    LET num == crange[p][2] - crange[p][1] IN
    /\ cpc[p] = "read" /\ ci[p] = crange[p][2]
    /\ lhead' = [lhead EXCEPT ![p] = IF num > shead[p] - @ THEN @ ELSE @ + num]
    /\ cpc' = [cpc EXCEPT ![p] = "wait"]
    /\ UNCHANGED <<isr, old_x, evq, wins, subs, pool_used, nsubs,
                   qbuf, ltail, stail, shead, sent, crange, ci, got>>

-----------------------------------------------------------------------------
Input ==
    \/ MouseByte \/ MouseMisaligned
    \/ \E lb \in BOOLEAN, d \in Deltas, e \in BOOLEAN : MousePacket(lb, d, e)
    \/ \E k \in {"none", "KEY_CHAR_DOWN", "KEY_CHAR_UP"} : KeyboardPacket(k)

Step ==
    \/ Input
    \/ Dispatch
    \/ \E p \in Procs, e \in SubEvents : Subscribe(p, e)
    \/ \E p \in Procs : ShellDequeue(p) \/ ShellRead(p) \/ ShellRelease(p)

\* the bounded model has received all its input and everything is handled
Quiescent == ~ENABLED Step /\ UNCHANGED vars

Next == Step \/ Quiescent

\* Only safety is checked: the event thread's and the shell's wake-ups on
\* msg_signal are folded into the guards of Dispatch and ShellDequeue.
Spec == Init /\ [][Next]_vars

-----------------------------------------------------------------------------
(* Properties.                                                             *)

\* After any sequence of raises by detach and push, the window stack is a
\* well-formed doubly linked list holding every window once, the desktop
\* at the bottom (GUIWindowStack::detach/push, UserEventWorker::run).
WinstackIsList ==
    LET s == Stack IN
    /\ Len(s) = Cardinality(Wins) /\ ToSet(s) = Wins
    /\ s[Len(s)] = Desktop /\ nxt[Desktop] = Nil /\ prv[top] = Nil
    /\ \A i \in 1..(Len(s) - 1) : prv[s[i + 1]] = s[i]

\* A process gets each input event at most once, however often it has
\* subscribed to it (SubscriberList::notify(target, msg) stops at the
\* first node for the target).
SingleDelivery ==
    \A p \in Procs : \A i, j \in DOMAIN sent[p] :
        i # j => sent[p][i].n # sent[p][j].n

\* The shell reads exactly the messages sent to its process, in order
\* (spec.md: MsgQueue has the wrap semantics of SharedQueue, whose enqueue
\* refuses a message when the ring is full; MsgQueue::enqueue writes
\* queue[q_locked.tail % max_size] without a check).
DeliveredAsSent ==
    \A p \in Procs : got[p] = SubSeq(sent[p], 1, Len(got[p]))

\* While a drag is under way and the event thread has caught up, the
\* dragged window has moved exactly as far as the pointer has since the
\* press (UserEventWorker::run moves drag_window by mouse.x - old_x).
DragFollowsPointer ==
    (drag_window \in Procs /\ ldrag /\ evq = <<>>)
        => wx[drag_window] - grab.wx0 = old_x - grab.px
=============================================================================
