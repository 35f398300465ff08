------------------------------- MODULE MCTar -------------------------------
(* The files of the boot disk, scaled to 4-byte sectors: the wallpaper,    *)
(* the shell executable and one shared library it needs.  Names are        *)
(* character sequences; the ELF headers and segments keep their shape:     *)
(* the program headers follow the ELF header inside the first sector, the  *)
(* first LOAD segment starts at offset 0, the second in a later sector.    *)
EXTENDS Tar

desktop == <<1, 2>>
shell == <<3, 4>>
libc == <<5>>

\* the entries in any order; the wallpaper's last chunk full or partial
MCArchives ==
    {a \in UNION {SetToAllKPermutations({[name |-> desktop, size |-> d],
                                        [name |-> shell, size |-> 13],
                                        [name |-> libc, size |-> 6]}) : d \in {10, 13}} :
        Len(a) = 3}

NoElf == [phoff |-> 0, phnum |-> 0, loads |-> <<>>, dynamic |-> FALSE]

MCElfImage ==
    [n \in {desktop, shell, libc} |->
        IF n = shell THEN [phoff |-> 2, phnum |-> 1, dynamic |-> TRUE,
                           loads |-> << [off |-> 0, len |-> 5], [off |-> 8, len |-> 5] >>]
        ELSE IF n = libc THEN [phoff |-> 2, phnum |-> 1, dynamic |-> TRUE,
                               loads |-> << [off |-> 0, len |-> 6] >>]
        ELSE NoElf]

MCProcOf == [t \in {"kmain", "user"} |-> IF t = "kmain" THEN 0 ELSE 1]
MCKind == [t \in {"kmain", "user"} |-> IF t = "kmain" THEN "tga" ELSE "elf"]
MCLoads == [t \in {"kmain", "user"} |-> IF t = "kmain" THEN <<desktop>> ELSE <<shell, libc>>]
=============================================================================
