----------------------------- MODULE MCDisplay -----------------------------
EXTENDS Display

(***************************************************************************)
(* The kernel's GUIModel (system/main.cpp) and the shell's (user/shell.cpp)*)
(* scaled to a 4 x 3 screen.  Kernel (pid 0): frame winmain in slot 1,     *)
(* the opaque background in slot 2 (whose id is set to 1, not 2) and the   *)
(* text box in slot 3, inset.  Shell (pid 1): frame main in slot 0 with    *)
(* the opaque border, the translucent bg and the text box, each inset a    *)
(* little more.  The frames overlap in the two pixels of column 1, where   *)
(* the pointer starts (VGA_WIDTH / 4, VGA_HEIGHT / 4); one step right is   *)
(* the kernel's frame alone.                                               *)
(***************************************************************************)
MCUWins == {1, 2, 3, 16, 17, 18, 19}
MCUClass == (1 :> "frame" @@ 2 :> "window" @@ 3 :> "textbox"
             @@ 16 :> "frame" @@ 17 :> "window" @@ 18 :> "window"
             @@ 19 :> "textbox")
MCURect == (1 :> Rect(1, 0, 4, 3) @@ 2 :> Rect(0, 0, 3, 3)
            @@ 3 :> Rect(1, 1, 3, 3) @@ 16 :> Rect(0, 0, 2, 2)
            @@ 17 :> Rect(0, 0, 2, 2) @@ 18 :> Rect(1, 0, 2, 2)
            @@ 19 :> Rect(1, 1, 2, 2))
MCUParentId == (1 :> -1 @@ 2 :> 1 @@ 3 :> 1
                @@ 16 :> -1 @@ 17 :> 0 @@ 18 :> 0 @@ 19 :> 0)
MCUZ == (1 :> 0 @@ 2 :> 0 @@ 3 :> 2 @@ 16 :> 0 @@ 17 :> 0 @@ 18 :> 1
         @@ 19 :> 2)
MCUId == (1 :> 1 @@ 2 :> 1 @@ 3 :> 3 @@ 16 :> 0 @@ 17 :> 1 @@ 18 :> 2
          @@ 19 :> 3)

\* a packet moves the pointer one pixel right or down
MCDeltas == {<<1, 0>>, <<0, 1>>}
=============================================================================
